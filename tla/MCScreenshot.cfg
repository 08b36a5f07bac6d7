\* Two rows of three cells, in every combination, and every kind of range.
CONSTANTS
  Rows = 2
  Cols = 3
  NParams = 1
  MaxInt = 127
  CellKinds <- StyledCells
  Starts <- AnyStart
  Ends <- AnyEnd
SPECIFICATION Spec
INVARIANTS MarkdownFaithful OverrunNeedsLateStart
\* A screenshot ends.
CHECK_DEADLOCK FALSE
