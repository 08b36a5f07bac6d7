-------------------------------- MODULE Paper -------------------------------
(***************************************************************************)
(* What a terminal promises, without a flat array, bytes or escape         *)
(* sequences: a roll of paper that only grows at its end, whose last Rows  *)
(* lines are in the window. The cursor is in the window; writing and       *)
(* erasing reach the window only. A line that has left the window never    *)
(* changes again.                                                          *)
(***************************************************************************)
EXTENDS Integers, Sequences

CONSTANTS Rows, Cols, Chars, Styles

VARIABLES paper, row, col, style

paperVars == <<paper, row, col, style>>

Columns == 0 .. Cols - 1

(* A cell is a character and the style it was written or erased with.      *)
Empty(s) == [ch |-> 32, fg_color |-> s.fg_color, bg_color |-> s.bg_color, attrs |-> {}]

Written(c, s) ==
  [ch |-> c, fg_color |-> s.fg_color, bg_color |-> s.bg_color, attrs |-> s.attrs]

EmptyLine(s) == [c \in Columns |-> Empty(s)]

(* The line of the roll that row r of the window shows.                    *)
LineOf(r) == Len(paper) - Rows + r + 1

Init ==
  /\ style = [fg_color |-> 7, bg_color |-> 0, attrs |-> {}]
  /\ paper = [i \in 1 .. Rows |-> EmptyLine(style)]
  /\ row = 0
  /\ col = 0

(* Go to the start of the next line; at the bottom of the window, a new    *)
(* line is added to the roll p.                                            *)
NextLine(p) ==
  /\ col' = 0
  /\ \/ /\ row < Rows - 1
        /\ row' = row + 1
        /\ paper' = p
     \/ /\ row = Rows - 1
        /\ row' = row
        /\ paper' = Append(p, EmptyLine(style))

(* Write a character and advance.                                          *)
Type(c) ==
  LET p == [paper EXCEPT ![LineOf(row)][col] = Written(c, style)]
  IN /\ \/ /\ col < Cols - 1
           /\ paper' = p
           /\ col' = col + 1
           /\ row' = row
        \/ /\ col = Cols - 1
           /\ NextLine(p)
     /\ UNCHANGED style

Feed == NextLine(paper) /\ UNCHANGED style

Move ==
  /\ row' \in 0 .. Rows - 1
  /\ col' \in Columns
  /\ UNCHANGED <<paper, style>>

(* Erase one stretch of the cursor's line that touches the cursor.         *)
EraseInLine ==
  /\ \E from \in 0 .. col, to \in col .. Cols - 1 :
       paper' = [paper EXCEPT ![LineOf(row)] =
                   [c \in Columns |-> IF c \in from .. to THEN Empty(style) ELSE @[c]]]
  /\ UNCHANGED <<row, col, style>>

(* Erase the window and go to its first cell.                              *)
EraseWindow ==
  /\ paper' = [i \in DOMAIN paper |->
                 IF i > Len(paper) - Rows THEN EmptyLine(style) ELSE paper[i]]
  /\ row' = 0
  /\ col' = 0
  /\ UNCHANGED style

Restyle ==
  /\ style' \in Styles
  /\ UNCHANGED <<paper, row, col>>

Next ==
  \/ \E c \in Chars : Type(c)
  \/ Feed
  \/ Move
  \/ EraseInLine
  \/ EraseWindow
  \/ Restyle

Spec == Init /\ [][Next]_paperVars

=============================================================================
