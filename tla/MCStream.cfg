\* Sequences of every form, with digits, ';' and '?' in between and any final byte.
\* The client's buffer holds the first column only.
CONSTANTS
  Rows = 2
  Cols = 2
  NParams = 1
  MaxInt = 127
  MaxParam = 2
  NormalInput <- None
  EscInput <- None
  CsiInput <- None
  Text <- SomeText
  Parameters <- SomeParameters
  Finals <- AllFinals
  Intermediates <- CharsetIntermediates
  Marker <- A
  BufLen = 2
SPECIFICATION BothSpec
INVARIANTS InStep StableTextFound
PROPERTY OnlyCutSequencesShow
