\* A 2 x 2 screen, plain text and every command; two lines may scroll off.
CONSTANTS
  Rows = 2
  Cols = 2
  NParams = 2
  MaxInt = 127
  MaxParam = 3
  MaxScroll = 2
  NormalInput <- TextAlphabet
  EscInput <- EscAlphabet
  CsiInput <- CommandAlphabet
SPECIFICATION HistorySpec
INVARIANTS TypeOK CursorOnScreen SlotExists FreshParams
PROPERTIES RowConfinement ImplementsPaper
