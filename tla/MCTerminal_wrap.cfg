\* Parameters that do not fit an int.
CONSTANTS
  Rows = 3
  Cols = 2
  NParams = 2
  MaxInt = 31
  MaxParam = 100
  MaxScroll = 1
  NormalInput <- TextAlphabet
  EscInput <- EscAlphabet
  CsiInput <- CursorAlphabet
SPECIFICATION HistorySpec
INVARIANT CursorOnScreen
