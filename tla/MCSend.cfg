\* Two threads, both modes, a terminal that holds two bytes.
\* When the calls are used up and the program reads no more, nothing happens.
CONSTANTS
  Senders = {a, b}
  Capacity = 2
  Delays <- SomeDelays
  MaxLen = 2
  MaxCalls = 1
SPECIFICATION Spec
INVARIANTS TypeOK FailedBurstSentNothing
PROPERTIES SendReturns ImplementsWire
CHECK_DEADLOCK FALSE
