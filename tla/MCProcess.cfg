\* Three sessions, two pids, creation one at a time, and queries at any time.
\* Every session may be gone and its program ended: the process really stops.
CONSTANTS
  Sessions = {a, b, c}
  Pids = {p, q}
  NoPid = NoPid
  Concurrent = FALSE
SPECIFICATION Spec
INVARIANTS TypeOK OwnTerminal ExitReportedOnce HangupDelayedByOthers
SYMMETRY Symmetry
CHECK_DEADLOCK FALSE
