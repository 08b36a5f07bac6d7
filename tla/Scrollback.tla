----------------------------- MODULE Scrollback -----------------------------
(***************************************************************************)
(* Module Terminal with a history variable: the lines that scrolled off    *)
(* the top of the buffer, which the code forgets. It shows that the buffer *)
(* is a faithful window on a roll of paper (module Paper).                 *)
(***************************************************************************)
EXTENDS Terminal

CONSTANT MaxScroll   \* bound on the lines that scroll off

VARIABLE above

historyVars == <<term, above>>

(* Row r of a buffer.                                                      *)
BufferLine(buffer, r) == [c \in 0 .. Cols - 1 |-> buffer[Index(r, c)]]

(* The byte b makes the buffer scroll.                                     *)
Scrolls(b) ==
  /\ term.parse_state = "NORMAL"
  /\ term.cursor_row = Rows - 1
  /\ \/ b = LF
     \/ b \in Printable /\ term.cursor_col = Cols - 1

(* The first line of the buffer at the moment it is scrolled off; on a     *)
(* screen of one line it holds the character just written.                 *)
TopLine(b) ==
  LET line == BufferLine(term.buffer, 0)
  IN IF Rows = 1 /\ b # LF
     THEN [line EXCEPT ![Cols - 1] = Glyph(b, term.current_attrs)]
     ELSE line

Remember(b) == above' = IF Scrolls(b) THEN Append(above, TopLine(b)) ELSE above

HistoryInit == Init /\ above = <<>>

HistoryNext ==
  \/ \E b \in NormalInput :
       /\ Scrolls(b) => Len(above) < MaxScroll
       /\ ReceiveNormal(b)
       /\ Remember(b)
  \/ /\ \/ \E b \in EscInput : ReceiveEsc(b)
        \/ \E b \in CsiInput : ReceiveDigit(b) \/ ReceiveSeparator(b) \/ ReceiveFinal(b)
     /\ UNCHANGED above

HistorySpec == HistoryInit /\ [][HistoryNext]_historyVars

(* The roll: what scrolled off, then the lines of the buffer.              *)
Roll == above \o [r \in 1 .. Rows |-> BufferLine(term.buffer, r - 1)]

Abstract == INSTANCE Paper WITH
  paper  <- Roll,
  row    <- term.cursor_row,
  col    <- term.cursor_col,
  style  <- term.current_attrs,
  Chars  <- NormalInput \cap Printable,
  Styles <- Attrs

(* The flat buffer, its memmove and the cursor arithmetic of terminal.c    *)
(* and parser.c implement the roll of paper: a scroll loses no line and    *)
(* reorders none, and no byte writes outside the cell or the stretch of    *)
(* the line the cursor is on.                                              *)
ImplementsPaper == Abstract!Spec

=============================================================================
