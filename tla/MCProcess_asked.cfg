\* Two sessions; either may be asked again after its exit was reported.
CONSTANTS
  Sessions = {a, b}
  Pids = {p, q}
  NoPid = NoPid
  Concurrent = FALSE
SPECIFICATION Spec
INVARIANT ExitedStaysExited
CHECK_DEADLOCK FALSE
