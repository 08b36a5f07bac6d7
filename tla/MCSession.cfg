\* Two threads that query while three bytes of output arrive.
CONSTANTS
  c1 = c1
  c2 = c2
  Clients <- TwoClients
  Width = 2
  ReadSize = 2
  MaxOutput = 3
  MaxCalls = 2
SPECIFICATION Spec
INVARIANTS TypeOK NoUseAfterFree NothingLeaked NoTornQuery
PROPERTIES DestroyReturns OutputShown ImplementsAtomicScreen
CHECK_DEADLOCK FALSE
