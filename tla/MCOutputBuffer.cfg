\* Strings of up to five characters, a first allocation of six.
CONSTANTS
  InitialSize = 6
  MaxString = 5
  MaxPos = 60
SPECIFICATION Spec
INVARIANTS WritesInside FailureNeverHidden
PROPERTY AppendEnds
\* The text ends at MaxPos.
CHECK_DEADLOCK FALSE
