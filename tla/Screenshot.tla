----------------------------- MODULE Screenshot -----------------------------
(***************************************************************************)
(* screenshot_to_markdown (src/screenshot.c): a range of rows as text, in  *)
(* which a run of cells of one style other than the default is written     *)
(* between square brackets, after its annotations. The caller's thread     *)
(* holds buffer_lock from the first token to the last, so the screen does  *)
(* not change meanwhile; where the text is put is module OutputBuffer.     *)
(*                                                                         *)
(* The text is a sequence of tokens. A token is a character (ch) wherever  *)
(* the screen may hold that character too: brackets and parentheses are    *)
(* the same bytes whether the code or the program on the screen wrote      *)
(* them. The wording of an annotation, the fence (three backticks, which   *)
(* the screen cannot give, since each of its own follows a backslash) and  *)
(* the footer after it are tokens of their own.                            *)
(***************************************************************************)
EXTENDS Screen, FiniteSets

CONSTANTS
  CellKinds, \* the cells a screen is made of
  Starts,    \* the values of start_row
  Ends       \* the values of end_row

(* A cell holds printable ASCII (TypeOK of module Terminal).               *)
ASSUME ScreenshotAssumption ==
  /\ Starts \subseteq Int /\ Ends \subseteq Int
  /\ CellKinds \subseteq [ch : 32 .. 126, fg_color : 0 .. 255, bg_color : 0 .. 255,
                          attrs : SUBSET Flags]

VARIABLES
  buffer,    \* session->buffer
  start_row, end_row,
  row,       \* the row to print
  output,    \* the tokens so far
  pc         \* "call", "rows", "done", or "outside": the buffer was overrun

vars == <<buffer, start_row, end_row, row, output, pc>>

Str(s) == [token |-> s, n |-> 0]

Chr(c) == [token |-> "ch", n |-> c]

(* ansi_to_color_name: 16 stands for the name "default".                   *)
ColorName(color) == IF color < 16 THEN color ELSE 16

Fence == Str("fence")
EndOfLine == Chr(10)
Open == Chr(91)
Close == Chr(93)
BeginNote == Chr(40)
EndNote == Chr(41)
Footer(first, last) == [token |-> "footer", rows |-> <<first, last>>]

Backtick == 96
Backslash == 92

(* append_escaped_char                                                     *)
EscapedChar(c) == IF c = Backtick THEN <<Chr(Backslash), Chr(c)>> ELSE <<Chr(c)>>

Style(cell) == [fg_color |-> cell.fg_color, bg_color |-> cell.bg_color, attrs |-> cell.attrs]

(* The annotations of a style, in the order of the code.                   *)
Hints(style) ==
  LET note(word) == <<BeginNote, word, EndNote>>
      flag(f) == IF f \in style.attrs THEN note(Str(f)) ELSE <<>>
      fg == [token |-> "fg", n |-> ColorName(style.fg_color)]
      bg == [token |-> "bg", n |-> ColorName(style.bg_color)]
  IN flag("bold") \o flag("underline") \o flag("reverse")
       \o (IF style.fg_color # 7 THEN note(fg) ELSE <<>>)
       \o (IF style.bg_color # 0 THEN note(bg) ELSE <<>>)

(* Defective variant: a section is not closed before the next one.        *)
PrintCell_KeepsOpen(p, cell) ==
  LET style == Style(cell)
      changed == style # p.style
      styled == style # DefaultAttrs
  IN [text  |-> p.text
        \o (IF changed /\ styled THEN <<Open>> \o Hints(style) ELSE <<>>)
        \o EscapedChar(cell.ch),
      style |-> style,
      in_styled_section |-> IF changed THEN styled ELSE p.in_styled_section]

(* One cell: a change of style closes the section and opens another one.   *)
PrintCell(p, cell) ==
  LET style == Style(cell)
      changed == style # p.style
      styled == style # DefaultAttrs
  IN [text  |-> p.text
        \o (IF changed /\ p.in_styled_section THEN <<Close>> ELSE <<>>)
        \o (IF changed /\ styled THEN <<Open>> \o Hints(style) ELSE <<>>)
        \o EscapedChar(cell.ch),
      style |-> style,
      in_styled_section |-> IF changed THEN styled ELSE p.in_styled_section]

(* The loop over the cells of row r: p[n] is what it has after n of them.  *)
CellLoop(r) ==
  LET p[n \in 0 .. Cols] ==
        IF n = 0
        THEN [text |-> <<>>, style |-> DefaultAttrs, in_styled_section |-> FALSE]
        ELSE PrintCell(p[n - 1], buffer[Index(r, n - 1)])
  IN p

(* The iteration of the loop for one row.                                  *)
PrintRow(r) ==
  LET p == CellLoop(r)[Cols]
  IN p.text \o (IF p.in_styled_section THEN <<Close>> ELSE <<>>) \o <<EndOfLine>>

-----------------------------------------------------------------------------

Init ==
  /\ buffer \in [Cells -> CellKinds]
  /\ start_row \in Starts /\ end_row \in Ends
  /\ row = 0
  /\ output = <<>>
  /\ pc = "call"

(* Defective variant: the row after the last passes the check.            *)
Validate_OnePastEnd(first, last) ==
  LET from == IF first < 0 THEN 0 ELSE first
      to == IF last < 0 \/ last > Rows THEN Rows - 1 ELSE last
  IN IF from > to THEN <<to, from>> ELSE <<from, to>>

(* "Validate row ranges"; ptywrap_screenshot_markdown has replaced a       *)
(* negative end_row by the last row, to the same effect.                   *)
Validate(first, last) ==
  LET from == IF first < 0 THEN 0 ELSE first
      to == IF last < 0 \/ last >= Rows THEN Rows - 1 ELSE last
  IN IF from > to THEN <<to, from>> ELSE <<from, to>>

RowRange == Validate(start_row, end_row)

Call ==
  /\ pc = "call"
  /\ pc' = "rows"
  /\ row' = RowRange[1]
  /\ output' = <<Fence, EndOfLine>>
  /\ UNCHANGED <<buffer, start_row, end_row>>

(* A row beyond the last one is read from outside the allocation; what     *)
(* happens then is left open.                                              *)
Row ==
  /\ pc = "rows"
  /\ row <= RowRange[2]
  /\ IF row < Rows
     THEN output' = output \o PrintRow(row) /\ row' = row + 1 /\ UNCHANGED pc
     ELSE pc' = "outside" /\ UNCHANGED <<output, row>>
  /\ UNCHANGED <<buffer, start_row, end_row>>

Finish ==
  /\ pc = "rows"
  /\ row > RowRange[2]
  /\ output' = output \o <<Fence, EndOfLine, Footer(RowRange[1], RowRange[2])>>
  /\ pc' = "done"
  /\ UNCHANGED <<buffer, start_row, end_row, row>>

Next == Call \/ Row \/ Finish

Spec == Init /\ [][Next]_vars

-----------------------------------------------------------------------------
(* Reading the text back                                                   *)

(* A character adds to the line, with the annotations of the section it is *)
(* in. A backslash before a backtick is an escape.                         *)
ReadChar(s, c) ==
  LET last == Len(s.line)
      escaped == c = Backtick /\ last > 0 /\ s.line[last].ch = Backslash
      before == IF escaped THEN SubSeq(s.line, 1, last - 1) ELSE s.line
  IN [s EXCEPT !.line = before \o <<[ch |-> c, notes |-> s.notes, depth |-> s.depth]>>,
               !.at = "text"]

(* Inside an annotation, up to the parenthesis that ends it.               *)
ReadNote(s, t) ==
  IF t = EndNote THEN [s EXCEPT !.at = "marks"]
  ELSE [s EXCEPT !.notes = @ \cup {<<t.token, t.n>>}]

(* A reader is in the text of a line, at the marks that begin a section,   *)
(* or in an annotation (at). A bracket begins or ends a section, and       *)
(* parentheses are annotations at the beginning of a section only.         *)
ReadToken(s, t) ==
  IF t = EndOfLine THEN [s EXCEPT !.lines = Append(@, s.line), !.line = <<>>]
  ELSE IF s.at = "note" THEN ReadNote(s, t)
  ELSE CASE t = Open -> [s EXCEPT !.depth = @ + 1, !.notes = {}, !.at = "marks"]
         [] t = Close -> [s EXCEPT !.depth = @ - 1, !.notes = {}, !.at = "text"]
         [] t = BeginNote /\ s.at = "marks" -> [s EXCEPT !.at = "note"]
         [] t = Fence -> s
         [] t.token = "footer" -> [s EXCEPT !.rows = t.rows]
         [] OTHER -> ReadChar(s, t.n)

(* The states of a reader that starts in state s.                          *)
Reading(s, text) ==
  LET read[n \in 0 .. Len(text)] == IF n = 0 THEN s ELSE ReadToken(read[n - 1], text[n])
  IN read

Read(s, text) == Reading(s, text)[Len(text)]

ReadBack ==
  Read([lines |-> <<>>, line |-> <<>>, at |-> "text", depth |-> 0, notes |-> {},
        rows |-> <<>>], output)

(* What a cell should read as: its flags but "blink", and its colours      *)
(* unless they are the default ones, as far as they have a name.           *)
Notes(style) ==
  {<<f, 0>> : f \in style.attrs \ {"blink"}}
    \cup {<<"fg", ColorName(c)>> : c \in {style.fg_color} \ {7}}
    \cup {<<"bg", ColorName(c)>> : c \in {style.bg_color} \ {0}}

Depth(style) == IF style = DefaultAttrs THEN 0 ELSE 1

ShownAs(cell) ==
  [ch |-> cell.ch, notes |-> Notes(Style(cell)), depth |-> Depth(Style(cell))]

(* The line that row r should read as.                                     *)
ShownLine(r) == [col \in 1 .. Cols |-> ShownAs(buffer[Index(r, col - 1)])]

(* The rows a caller asks for, in a range whose start is on the screen.    *)
Asked ==
  LET first == IF start_row < 0 THEN 0 ELSE start_row
      last == IF end_row \in 0 .. Rows - 1 THEN end_row ELSE Rows - 1
  IN {r \in 0 .. Rows - 1 : (first <= r /\ r <= last) \/ (last <= r /\ r <= first)}

(* A cell that is not taken for a mark: its brackets are not escaped, and  *)
(* a parenthesis that begins a section looks like an annotation.           *)
ReadsAsItself(cell) ==
  /\ Chr(cell.ch) \notin {Open, Close}
  /\ Style(cell) # DefaultAttrs => Chr(cell.ch) # BeginNote

Legible == \A r \in Asked : \A col \in 0 .. Cols - 1 : ReadsAsItself(buffer[Index(r, col)])

(* The text has one line for each row that was asked for, in order; read   *)
(* back, it gives every cell its character and its annotations, no section *)
(* is nested or left open at the end of a line, and the footer names the   *)
(* rows. Sections open and close with changes between neighbours, and      *)
(* start afresh in every row. This is about rows without a cell that looks *)
(* like a mark of the text: the code escapes backticks and nothing else.   *)
MarkdownFaithful ==
  pc = "done" /\ Legible =>
    LET lines == ReadBack.lines
        above(r) == {q \in Asked : q < r}
    IN /\ Len(lines) = Cardinality(Asked) + 2
       /\ lines[1] = <<>> /\ lines[Len(lines)] = <<>>
       /\ \A r \in Asked : lines[Cardinality(above(r)) + 2] = ShownLine(r)
       /\ ReadBack.rows[1] \in Asked /\ ReadBack.rows[2] \in Asked
       /\ \A r \in Asked : ReadBack.rows[1] <= r /\ r <= ReadBack.rows[2]

(* Rows outside the buffer are read only for a range that starts below the *)
(* screen, which "Validate row ranges" turns around after it checked the   *)
(* end row; every other pair of row numbers stays inside.                  *)
OverrunNeedsLateStart == pc = "outside" => start_row >= Rows

=============================================================================
