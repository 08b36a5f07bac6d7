\* Every list of up to 4 of 18 parameters.
CONSTANTS
  Rows = 1
  Cols = 1
  NParams = 4
  MaxInt = 1023
  MaxParam = 300
  NormalInput <- None
  EscInput <- None
  CsiInput <- None
SPECIFICATION SgrSpec
INVARIANT SgrLastSettingWins
\* The final byte ends the sequence.
CHECK_DEADLOCK FALSE
