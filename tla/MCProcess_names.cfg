\* Two threads create a session each.
CONSTANTS
  Sessions = {a, b}
  Pids = {p, q}
  NoPid = NoPid
  Concurrent = TRUE
SPECIFICATION Spec
INVARIANT OwnTerminal
CHECK_DEADLOCK FALSE
