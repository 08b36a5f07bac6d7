----------------------------- MODULE ContextProofs ---------------------------
(***************************************************************************)
(* Proofs about the three modules that put the terminal in a context:      *)
(*   Scrollback   the buffer is a window on a roll of paper                *)
(*   Stream       the program sends whole escape sequences                 *)
(*   RowScan      a client looks for a text while the program writes       *)
(* They hold for every size of the screen and every alphabet. They share   *)
(* the lemmas of TerminalProofs; no proof of one module uses a variable of *)
(* another.                                                                *)
(***************************************************************************)
EXTENDS Scrollback, Stream, RowScan, TerminalProofs, SequenceTheorems

-----------------------------------------------------------------------------
(* Scrollback implements Paper. The lines of the flat buffer come first:   *)
(* what the operations on the array do to them, and what becomes of the    *)
(* roll.                                                                   *)

Line == [0 .. Cols - 1 -> Cell]

(* Two places of the screen never share a cell.                            *)
LEMMA IndexInjective ==
  ASSUME NEW r \in 0 .. Rows - 1, NEW q \in 0 .. Rows - 1,
         NEW c \in 0 .. Cols - 1, NEW d \in 0 .. Cols - 1
  PROVE  /\ Index(r, c) \in Cells
         /\ Index(r, c) = Index(q, d) => r = q /\ c = d
<1>1. Rows \in Nat \ {0} /\ Cols \in Nat \ {0}
  BY ScreenAssumption
<1>2. ASSUME NEW x \in Nat, NEW y \in Nat, x < y
      PROVE  x * Cols + Cols <= y * Cols
  <2>1. y = x + (y - x) /\ y - x \in Nat \ {0}
    BY <1>2
  <2>2. ASSUME NEW z \in Nat \ {0} PROVE (x + z) * Cols >= x * Cols + Cols
    <3>1. z - 1 \in Nat /\ (z - 1) * Cols \in Nat
      BY <1>1
    <3>2. (x + z) * Cols = x * Cols + (z - 1) * Cols + Cols
      BY <1>1
    <3> QED
      BY <1>1, <3>1, <3>2
  <2> QED
    BY <1>1, <2>1, <2>2
<1>3. r * Cols \in Nat /\ q * Cols \in Nat
  BY <1>1
<1>4. Index(r, c) \in Cells
  <2>1. r * Cols + Cols <= Rows * Cols
    BY <1>1, <1>2
  <2>2. Rows * Cols \in Nat
    BY <1>1
  <2> QED
    BY <1>1, <1>3, <2>1, <2>2 DEF Index, Cells
<1>5. Index(r, c) = Index(q, d) => r = q
  <2>1. CASE r < q
    <3>1. r * Cols + Cols <= q * Cols
      BY <1>1, <1>2, <2>1
    <3> QED
      BY <1>1, <1>3, <3>1 DEF Index
  <2>2. CASE q < r
    <3>1. q * Cols + Cols <= r * Cols
      BY <1>1, <1>2, <2>2
    <3> QED
      BY <1>1, <1>3, <3>1 DEF Index
  <2> QED
    BY <2>1, <2>2
<1>6. Index(r, c) = Index(q, d) /\ r = q => c = d
  BY <1>3 DEF Index
<1> QED
  BY <1>4, <1>5, <1>6

LEMMA BufferLineType ==
  ASSUME NEW buffer \in [Cells -> Cell], NEW r \in 0 .. Rows - 1
  PROVE  BufferLine(buffer, r) \in Line
BY IndexInjective DEF BufferLine, Line

(* The roll, as a function of its lines.                                   *)
RollOf(a, buffer) == a \o [r \in 1 .. Rows |-> BufferLine(buffer, r - 1)]

LEMMA RollLines ==
  ASSUME NEW a \in Seq(Line), NEW buffer \in [Cells -> Cell]
  PROVE  /\ RollOf(a, buffer) \in Seq(Line)
         /\ Len(RollOf(a, buffer)) = Len(a) + Rows
         /\ RollOf(a, buffer) =
              [i \in 1 .. Len(a) + Rows |->
                 IF i <= Len(a) THEN a[i] ELSE BufferLine(buffer, i - Len(a) - 1)]
<1> DEFINE s == [r \in 1 .. Rows |-> BufferLine(buffer, r - 1)]
<1>1. Rows \in Nat \ {0} /\ Len(a) \in Nat
  BY ScreenAssumption
<1>2. s \in Seq(Line) /\ Len(s) = Rows
  <2>1. \A r \in 1 .. Rows : BufferLine(buffer, r - 1) \in Line
    BY <1>1, BufferLineType
  <2> QED
    BY <1>1, <2>1
<1>3. \A i \in 1 .. Rows : s[i] = BufferLine(buffer, i - 1)
  OBVIOUS
<1> HIDE DEF s
<1>4. /\ a \o s \in Seq(Line)
      /\ Len(a \o s) = Len(a) + Rows
      /\ \A i \in 1 .. Len(a) + Rows : (a \o s)[i] = IF i <= Len(a) THEN a[i] ELSE s[i - Len(a)]
  BY <1>2, ConcatProperties
<1>5. \A i \in 1 .. Len(a) + Rows :
        i > Len(a) => s[i - Len(a)] = BufferLine(buffer, i - Len(a) - 1)
  BY <1>1, <1>3
<1>6. a \o s = [i \in 1 .. Len(a) + Rows |-> (a \o s)[i]]
  <2>1. a \o s \in [1 .. Len(a) + Rows -> Line]
    BY <1>4, LenProperties
  <2> QED
    BY <2>1
<1>7. a \o s = [i \in 1 .. Len(a) + Rows |->
                  IF i <= Len(a) THEN a[i] ELSE BufferLine(buffer, i - Len(a) - 1)]
  BY <1>1, <1>4, <1>5, <1>6
<1> QED
  BY <1>4, <1>7 DEF RollOf, s

(* Two buffers that show the same lines give the same roll.                *)
LEMMA SameLines ==
  ASSUME NEW a \in Seq(Line), NEW b \in [Cells -> Cell], NEW d \in [Cells -> Cell],
         \A r \in 0 .. Rows - 1 : BufferLine(d, r) = BufferLine(b, r)
  PROVE  RollOf(a, d) = RollOf(a, b)
<1>1. Rows \in Nat \ {0} /\ Len(a) \in Nat
  BY ScreenAssumption
<1>2. \A i \in 1 .. Len(a) + Rows : i > Len(a) => i - Len(a) - 1 \in 0 .. Rows - 1
  BY <1>1
<1>3. /\ RollOf(a, b) = [i \in 1 .. Len(a) + Rows |->
                           IF i <= Len(a) THEN a[i] ELSE BufferLine(b, i - Len(a) - 1)]
      /\ RollOf(a, d) = [i \in 1 .. Len(a) + Rows |->
                           IF i <= Len(a) THEN a[i] ELSE BufferLine(d, i - Len(a) - 1)]
  BY RollLines
<1>4. \A i \in 1 .. Len(a) + Rows : RollOf(a, d)[i] = RollOf(a, b)[i]
  BY <1>1, <1>2, <1>3
<1> QED
  BY <1>3, <1>4

(* One line of a roll, one character of a line and one cell of a buffer    *)
(* replaced, and the cells of some columns of a row. Operators, so that    *)
(* the lemmas below can be instantiated.                                   *)
WithLine(roll, at, line) == [roll EXCEPT ![at] = line]

WithCell(line, c, g) == [line EXCEPT ![c] = g]

WithCellAt(buffer, r, c, g) == [buffer EXCEPT ![Index(r, c)] = g]

Stretch(r, C) == {Index(r, c) : c \in C}

ErasedLine(line, C, a) == [c \in 0 .. Cols - 1 |-> IF c \in C THEN Blank(a) ELSE line[c]]

(* A buffer that differs in row r only changes that line of the roll.      *)
LEMMA ChangedLine ==
  ASSUME NEW a \in Seq(Line), NEW b \in [Cells -> Cell], NEW d \in [Cells -> Cell],
         NEW r \in 0 .. Rows - 1,
         \A q \in 0 .. Rows - 1 : q # r => BufferLine(d, q) = BufferLine(b, q)
  PROVE  RollOf(a, d) = WithLine(RollOf(a, b), Len(a) + r + 1, BufferLine(d, r))
<1>1. Rows \in Nat \ {0} /\ Len(a) \in Nat
  BY ScreenAssumption
<1> DEFINE n == Len(a)
           at == n + r + 1
<1>2. at \in 1 .. n + Rows /\ at > n /\ at - n - 1 = r
  BY <1>1
<1>3. \A i \in 1 .. n + Rows :
        i > n => i - n - 1 \in 0 .. Rows - 1 /\ (i - n - 1 = r <=> i = at)
  BY <1>1
<1>4. /\ RollOf(a, b) = [i \in 1 .. n + Rows |-> IF i <= n THEN a[i] ELSE BufferLine(b, i - n - 1)]
      /\ RollOf(a, d) = [i \in 1 .. n + Rows |-> IF i <= n THEN a[i] ELSE BufferLine(d, i - n - 1)]
  BY RollLines
<1> HIDE DEF at, n
<1>5. \A i \in 1 .. n + Rows :
        RollOf(a, d)[i] = IF i = at THEN BufferLine(d, r) ELSE RollOf(a, b)[i]
  BY <1>1, <1>2, <1>3, <1>4 DEF n
<1>6. [RollOf(a, b) EXCEPT ![at] = BufferLine(d, r)] =
        [i \in 1 .. n + Rows |-> IF i = at THEN BufferLine(d, r) ELSE RollOf(a, b)[i]]
  BY <1>2, <1>4
<1>7. RollOf(a, d) = [i \in 1 .. n + Rows |-> RollOf(a, d)[i]]
  BY <1>4
<1>8. RollOf(a, d) = [RollOf(a, b) EXCEPT ![at] = BufferLine(d, r)]
  BY <1>5, <1>6, <1>7
<1> QED
  BY <1>8 DEF at, n, WithLine

(* The top line of a buffer b scrolls off and joins the lines above: the   *)
(* roll grows at its end.                                                  *)
LEMMA ScrolledRoll ==
  ASSUME NEW a \in Seq(Line), NEW b \in [Cells -> Cell], NEW d \in [Cells -> Cell],
         \A r \in 0 .. Rows - 2 : BufferLine(d, r) = BufferLine(b, r + 1)
  PROVE  RollOf(Append(a, BufferLine(b, 0)), d) = Append(RollOf(a, b), BufferLine(d, Rows - 1))
<1> DEFINE n == Len(a)
           top == BufferLine(b, 0)
           last == BufferLine(d, Rows - 1)
           new == Append(a, top)
           roll == RollOf(new, d)
           old == RollOf(a, b)
<1>1. Rows \in Nat \ {0} /\ n \in Nat
  BY ScreenAssumption
<1>2. top \in Line /\ last \in Line
  BY <1>1, BufferLineType
<1>3. /\ new \in Seq(Line) /\ Len(new) = n + 1
      /\ \A i \in 1 .. n : new[i] = a[i]
      /\ new[n + 1] = top
  BY <1>2, AppendProperties
<1>4. /\ roll \in Seq(Line) /\ Len(roll) = n + 1 + Rows
      /\ roll = [i \in 1 .. n + 1 + Rows |->
                   IF i <= n + 1 THEN new[i] ELSE BufferLine(d, i - (n + 1) - 1)]
  BY <1>3, RollLines
<1>5. /\ old \in Seq(Line) /\ Len(old) = n + Rows
      /\ old = [i \in 1 .. n + Rows |-> IF i <= n THEN a[i] ELSE BufferLine(b, i - n - 1)]
  BY RollLines
<1>6. /\ Append(old, last) \in Seq(Line) /\ Len(Append(old, last)) = n + Rows + 1
      /\ \A i \in 1 .. n + Rows : Append(old, last)[i] = old[i]
      /\ Append(old, last)[n + Rows + 1] = last
  <2> HIDE DEF old, last, n
  <2>1. n + Rows \in Nat
    BY <1>1
  <2> QED
    BY <1>2, <1>5, <2>1, AppendProperties
<1>7. ASSUME NEW i \in 1 .. n + Rows + 1 PROVE roll[i] = Append(old, last)[i]
  <2>1. CASE i <= n
    <3>1. i \in 1 .. n /\ i \in 1 .. n + Rows /\ i <= n + 1 /\ i \in 1 .. n + 1 + Rows
      BY <1>1, <2>1
    <3> HIDE DEF new, roll, old, last
    <3>2. roll[i] = new[i]
      BY <1>4, <3>1
    <3>3. old[i] = a[i]
      BY <1>5, <2>1, <3>1
    <3> QED
      BY <1>3, <1>6, <3>1, <3>2, <3>3
  <2>2. CASE i = n + 1
    <3>1. /\ i \in 1 .. n + Rows /\ ~ (i <= n)
          /\ i \in 1 .. n + 1 + Rows /\ i <= n + 1
          /\ i - n - 1 = 0
      BY <1>1, <2>2
    <3> HIDE DEF new, roll, old, last, top
    <3>2. roll[i] = top
      BY <1>3, <1>4, <2>2, <3>1
    <3>3. old[i] = top
      BY <1>5, <3>1 DEF top
    <3> QED
      BY <1>6, <3>1, <3>2, <3>3
  <2>3. CASE i > n + 1 /\ i <= n + Rows
    <3>1. /\ i \in 1 .. n + Rows /\ ~ (i <= n) /\ ~ (i <= n + 1) /\ i \in 1 .. n + 1 + Rows
          /\ i - (n + 1) - 1 \in 0 .. Rows - 2 /\ i - (n + 1) - 1 + 1 = i - n - 1
      BY <1>1, <2>3
    <3> HIDE DEF new, roll, old, last, top
    <3>2. roll[i] = BufferLine(d, i - (n + 1) - 1)
      BY <1>4, <3>1
    <3>3. old[i] = BufferLine(b, i - n - 1)
      BY <1>5, <3>1
    <3>4. BufferLine(d, i - (n + 1) - 1) = BufferLine(b, i - n - 1)
      BY <3>1
    <3> QED
      BY <1>6, <3>1, <3>2, <3>3, <3>4
  <2>4. CASE i = n + Rows + 1
    <3>1. ~ (i <= n + 1) /\ i \in 1 .. n + 1 + Rows /\ i - (n + 1) - 1 = Rows - 1
      BY <1>1, <2>4
    <3> HIDE DEF new, roll, old
    <3>2. roll[i] = last
      BY <1>4, <3>1
    <3> QED
      BY <1>6, <2>4, <3>2
  <2>5. i <= n \/ i = n + 1 \/ (i > n + 1 /\ i <= n + Rows) \/ i = n + Rows + 1
    BY <1>1
  <2> HIDE DEF new, roll, old, last, n
  <2> QED
    BY <2>1, <2>2, <2>3, <2>4, <2>5
<1> HIDE DEF new, roll, old, last, top
<1>8. roll = Append(old, last)
  <2>1. n + 1 + Rows = n + Rows + 1
    BY <1>1
  <2>2. Len(roll) = Len(Append(old, last))
    BY <1>4, <1>6, <2>1
  <2>3. \A i \in 1 .. Len(roll) : roll[i] = Append(old, last)[i]
    BY <1>4, <1>7, <2>1
  <2> QED
    BY <1>4, <1>6, <2>2, <2>3, SeqEqual
<1> QED
  BY <1>8 DEF new, roll, old, last, top

(* What the operations on the flat buffer do to its lines.                 *)
LEMMA WrittenLines ==
  ASSUME NEW b \in [Cells -> Cell], NEW r \in 0 .. Rows - 1, NEW c \in 0 .. Cols - 1,
         NEW g \in Cell
  PROVE  /\ WithCellAt(b, r, c, g) \in [Cells -> Cell]
         /\ BufferLine(WithCellAt(b, r, c, g), r) = WithCell(BufferLine(b, r), c, g)
         /\ \A q \in 0 .. Rows - 1 :
              q # r => BufferLine(WithCellAt(b, r, c, g), q) = BufferLine(b, q)
<1> DEFINE d == WithCellAt(b, r, c, g)
<1>1. \A q \in 0 .. Rows - 1, e \in 0 .. Cols - 1 :
        d[Index(q, e)] = IF q = r /\ e = c THEN g ELSE b[Index(q, e)]
  BY IndexInjective DEF WithCellAt
<1>2. d \in [Cells -> Cell]
  BY IndexInjective DEF WithCellAt
<1> HIDE DEF d
<1>3. BufferLine(d, r) = WithCell(BufferLine(b, r), c, g)
  BY <1>1 DEF BufferLine, WithCell
<1>4. \A q \in 0 .. Rows - 1 : q # r => BufferLine(d, q) = BufferLine(b, q)
  BY <1>1 DEF BufferLine
<1> QED
  BY <1>2, <1>3, <1>4 DEF d

BlankLine(a) == [c \in 0 .. Cols - 1 |-> Blank(a)]

LEMMA ScrolledLines ==
  ASSUME NEW t \in Terminals
  PROVE  /\ \A r \in 0 .. Rows - 2 : BufferLine(ScrollUp(t), r) = BufferLine(t.buffer, r + 1)
         /\ BufferLine(ScrollUp(t), Rows - 1) = BlankLine(t.current_attrs)
<1>1. Rows \in Nat \ {0} /\ Cols \in Nat \ {0}
  BY ScreenAssumption
<1>2. ASSUME NEW r \in 0 .. Rows - 2, NEW c \in 0 .. Cols - 1
      PROVE  ScrollUp(t)[Index(r, c)] = t.buffer[Index(r + 1, c)]
  <2>1. r \in 0 .. Rows - 1 /\ r + 1 \in 0 .. Rows - 1
    BY <1>1
  <2>2. Index(r, c) \in Cells /\ Index(r + 1, c) \in Cells
    BY <2>1, IndexInjective
  <2>3. Index(r, c) + Cols = Index(r + 1, c)
    BY <1>1 DEF Index
  <2>4. Index(r, c) < (Rows - 1) * Cols
    <3>1. Index(r + 1, c) < Rows * Cols
      BY <1>1, <2>2 DEF Cells
    <3>2. Index(r, c) + Cols < (Rows - 1) * Cols + Cols
      BY <2>3, <3>1, LastRow
    <3> QED
      BY <1>1, <2>2, <3>2, LastRow DEF Cells
  <2> QED
    BY <2>2, <2>3, <2>4 DEF ScrollUp
<1>3. ASSUME NEW c \in 0 .. Cols - 1
      PROVE  ScrollUp(t)[Index(Rows - 1, c)] = Blank(t.current_attrs)
  <2>1. Index(Rows - 1, c) \in Row(Rows - 1)
    BY DEF Row
  <2>2. Index(Rows - 1, c) \in Cells /\ ~ (Index(Rows - 1, c) < (Rows - 1) * Cols)
    BY <1>1, <2>1, LastRow DEF Cells
  <2> QED
    BY <2>2 DEF ScrollUp
<1> QED
  BY <1>2, <1>3 DEF BufferLine, BlankLine

LEMMA ErasedLines ==
  ASSUME NEW t \in Terminals, NEW r \in 0 .. Rows - 1, NEW C \in SUBSET (0 .. Cols - 1)
  PROVE  /\ BufferLine(Erase(t, Stretch(r, C)), r) =
              ErasedLine(BufferLine(t.buffer, r), C, t.current_attrs)
         /\ \A q \in 0 .. Rows - 1 :
              q # r => BufferLine(Erase(t, Stretch(r, C)), q) = BufferLine(t.buffer, q)
<1> DEFINE d == Erase(t, Stretch(r, C))
<1>1. \A q \in 0 .. Rows - 1, e \in 0 .. Cols - 1 :
        Index(q, e) \in Stretch(r, C) <=> q = r /\ e \in C
  BY IndexInjective DEF Stretch
<1>2. \A q \in 0 .. Rows - 1, e \in 0 .. Cols - 1 :
        d[Index(q, e)] = IF q = r /\ e \in C THEN Blank(t.current_attrs) ELSE t.buffer[Index(q, e)]
  BY <1>1, IndexInjective DEF Erase
<1> HIDE DEF d
<1>3. BufferLine(d, r) = ErasedLine(BufferLine(t.buffer, r), C, t.current_attrs)
  BY <1>2 DEF BufferLine, ErasedLine
<1>4. \A q \in 0 .. Rows - 1 : q # r => BufferLine(d, q) = BufferLine(t.buffer, q)
  BY <1>2 DEF BufferLine
<1> QED
  BY <1>3, <1>4 DEF d

LEMMA ClearedLines ==
  ASSUME NEW t, NEW r \in 0 .. Rows - 1
  PROVE  BufferLine(Erase(t, Cells), r) = BlankLine(t.current_attrs)
BY IndexInjective DEF BufferLine, Erase, BlankLine

(* The paper's cells are the cells of the screen.                          *)
LEMMA PaperCells ==
  ASSUME NEW a \in Attrs, NEW c
  PROVE  /\ Abstract!Empty(a) = Blank(a)
         /\ Abstract!Written(c, a) = Glyph(c, a)
         /\ Abstract!EmptyLine(a) = BlankLine(a)
<1>1. Abstract!Empty(a) = Blank(a)
  BY DEF Abstract!Empty, Blank, Glyph, Space
<1>2. Abstract!Written(c, a) = Glyph(c, a)
  BY DEF Abstract!Written, Glyph
<1> QED
  BY <1>1, <1>2 DEF Abstract!EmptyLine, BlankLine, Abstract!Columns

-----------------------------------------------------------------------------

HistoryInv ==
  /\ Inv
  /\ TypeOK
  /\ ParserInv
  /\ above \in Seq(Line)

LEMMA HistoryTypes ==
  ASSUME HistoryInv
  PROVE  /\ Rows \in Nat \ {0} /\ Cols \in Nat \ {0} /\ Len(above) \in Nat
         /\ term \in Terminals
         /\ term.buffer \in [Cells -> Cell]
         /\ term.current_attrs \in Attrs
         /\ term.cursor_row \in 0 .. Rows - 1
         /\ term.cursor_col \in 0 .. Cols - 1
         /\ term = [f \in Fields |-> term[f]]
         /\ Roll = RollOf(above, term.buffer)
         /\ Abstract!LineOf(term.cursor_row) = Len(above) + term.cursor_row + 1
         /\ Roll[Len(above) + term.cursor_row + 1] = BufferLine(term.buffer, term.cursor_row)
<1>1. /\ Rows \in Nat \ {0} /\ Cols \in Nat \ {0} /\ Len(above) \in Nat
      /\ term \in Terminals
      /\ term.buffer \in [Cells -> Cell]
      /\ term.current_attrs \in Attrs
      /\ term.cursor_row \in 0 .. Rows - 1
      /\ term.cursor_col \in 0 .. Cols - 1
      /\ term = [f \in Fields |-> term[f]]
      /\ above \in Seq(Line)
  BY ScreenAssumption DEF HistoryInv, Inv, TermOK, ScreenOK, TypeOK, Terminals
<1>2. Roll = RollOf(above, term.buffer)
  BY DEF Roll, RollOf
<1>3. /\ Len(Roll) = Len(above) + Rows
      /\ Roll = [i \in 1 .. Len(above) + Rows |->
                   IF i <= Len(above) THEN above[i]
                                      ELSE BufferLine(term.buffer, i - Len(above) - 1)]
  BY <1>1, <1>2, RollLines
<1> HIDE DEF Roll
<1>4. Abstract!LineOf(term.cursor_row) = Len(above) + term.cursor_row + 1
  BY <1>1, <1>3 DEF Abstract!LineOf
<1>5. /\ Len(above) + term.cursor_row + 1 \in 1 .. Len(above) + Rows
      /\ ~ (Len(above) + term.cursor_row + 1 <= Len(above))
      /\ (Len(above) + term.cursor_row + 1) - Len(above) - 1 = term.cursor_row
  BY <1>1
<1>6. Roll[Len(above) + term.cursor_row + 1] = BufferLine(term.buffer, term.cursor_row)
  BY <1>3, <1>5
<1> QED
  BY <1>1, <1>2, <1>4, <1>6

(* Nothing the roll of paper shows changes.                                *)
LEMMA Stutters ==
  ASSUME term'.buffer = term.buffer, above' = above, term'.cursor_row = term.cursor_row,
         term'.cursor_col = term.cursor_col, term'.current_attrs = term.current_attrs
  PROVE  UNCHANGED Abstract!paperVars
<1>1. Roll' = Roll
  BY DEF Roll
<1> QED
  BY <1>1 DEF Abstract!paperVars

LEMMA Moves ==
  ASSUME HistoryInv', term'.buffer = term.buffer, above' = above,
         term'.current_attrs = term.current_attrs
  PROVE  Abstract!Next
<1>1. Roll' = Roll
  BY DEF Roll
<1>2. term'.cursor_row \in 0 .. Rows - 1 /\ term'.cursor_col \in 0 .. Cols - 1
  BY DEF HistoryInv, Inv, TermOK, ScreenOK
<1>3. Abstract!Move
  BY <1>1, <1>2 DEF Abstract!Move, Abstract!Columns
<1> QED
  BY <1>3 DEF Abstract!Next

(* terminal_newline in a terminal t whose roll is that of the step's first *)
(* state with the character of the step written.                           *)
LEMMA NewlineNextLine ==
  ASSUME HistoryInv, NEW t \in Terminals, RecordOK(t),
         t.cursor_row = term.cursor_row, t.current_attrs = term.current_attrs,
         term' = Newline(t),
         above' = IF term.cursor_row = Rows - 1
                  THEN Append(above, BufferLine(t.buffer, 0)) ELSE above
  PROVE  /\ Abstract!NextLine(RollOf(above, t.buffer))
         /\ term'.current_attrs = term.current_attrs
<1>1. /\ Rows \in Nat \ {0} /\ Cols \in Nat \ {0} /\ Len(above) \in Nat
      /\ term.current_attrs \in Attrs
      /\ term.cursor_row \in 0 .. Rows - 1
      /\ above \in Seq(Line)
      /\ t.buffer \in [Cells -> Cell]
      /\ t = [f \in Fields |-> t[f]]
  BY HistoryTypes DEF HistoryInv, Terminals, RecordOK
<1>2. Roll' = RollOf(above', term'.buffer)
  BY DEF Roll, RollOf
<1>3. CASE term.cursor_row = Rows - 1
  <2>1. /\ term'.cursor_col = 0 /\ term'.cursor_row = Rows - 1
        /\ term'.buffer = ScrollUp(t)
        /\ term'.current_attrs = term.current_attrs
    BY <1>1, <1>3 DEF Newline, Fields
  <2>2. ScrollUp(t) \in [Cells -> Cell]
    <3>1. Newline(t) \in Terminals
      BY NewlineType
    <3> QED
      BY <2>1, <3>1 DEF Terminals
  <2>3. Roll' = Append(RollOf(above, t.buffer), BufferLine(ScrollUp(t), Rows - 1))
    <3>1. above' = Append(above, BufferLine(t.buffer, 0))
      BY <1>3
    <3>2. \A r \in 0 .. Rows - 2 : BufferLine(ScrollUp(t), r) = BufferLine(t.buffer, r + 1)
      BY ScrolledLines
    <3> QED
      BY <1>1, <1>2, <2>1, <2>2, <3>1, <3>2, ScrolledRoll
  <2>4. BufferLine(ScrollUp(t), Rows - 1) = Abstract!EmptyLine(term.current_attrs)
    BY <1>1, ScrolledLines, PaperCells
  <2> QED
    BY <1>3, <2>1, <2>3, <2>4 DEF Abstract!NextLine
<1>4. CASE term.cursor_row # Rows - 1
  <2>1. term.cursor_row < Rows - 1 /\ ~ (t.cursor_row + 1 >= Rows)
    BY <1>1, <1>4
  <2>2. /\ term'.cursor_col = 0 /\ term'.cursor_row = term.cursor_row + 1
        /\ term'.buffer = t.buffer
        /\ term'.current_attrs = term.current_attrs
    BY <1>1, <2>1 DEF Newline, Fields
  <2>3. Roll' = RollOf(above, t.buffer)
    BY <1>2, <1>4, <2>2
  <2> QED
    BY <2>1, <2>2, <2>3 DEF Abstract!NextLine
<1> QED
  BY <1>3, <1>4

(* The roll when g is written in column c of row r of the buffer.          *)
LEMMA WrittenRoll ==
  ASSUME NEW a \in Seq(Line), NEW b \in [Cells -> Cell],
         NEW r \in 0 .. Rows - 1, NEW c \in 0 .. Cols - 1, NEW g \in Cell
  PROVE  RollOf(a, WithCellAt(b, r, c, g)) =
           WithLine(RollOf(a, b), Len(a) + r + 1, WithCell(BufferLine(b, r), c, g))
<1> DEFINE d == WithCellAt(b, r, c, g)
<1>1. /\ d \in [Cells -> Cell]
      /\ BufferLine(d, r) = WithCell(BufferLine(b, r), c, g)
      /\ \A q \in 0 .. Rows - 1 : q # r => BufferLine(d, q) = BufferLine(b, q)
  BY WrittenLines
<1> HIDE DEF d
<1>2. RollOf(a, d) = WithLine(RollOf(a, b), Len(a) + r + 1, BufferLine(d, r))
  BY <1>1, ChangedLine
<1> QED
  BY <1>1, <1>2 DEF d

(* The line that leaves the buffer when b is written in its last cell.     *)
LEMMA WrittenTopLine ==
  ASSUME HistoryInv, NEW b \in Printable,
         term.cursor_row = Rows - 1, term.cursor_col = Cols - 1
  PROVE  TopLine(b) = BufferLine(WithCellAt(term.buffer, term.cursor_row, term.cursor_col,
                                            Glyph(b, term.current_attrs)), 0)
<1> DEFINE g == Glyph(b, term.current_attrs)
           d == WithCellAt(term.buffer, Rows - 1, Cols - 1, g)
<1>1. /\ Rows \in Nat \ {0} /\ Cols \in Nat \ {0} /\ b # LF
      /\ Rows - 1 \in 0 .. Rows - 1 /\ Cols - 1 \in 0 .. Cols - 1 /\ 0 \in 0 .. Rows - 1
  BY ScreenAssumption DEF LF, Printable
<1>2. term.buffer \in [Cells -> Cell] /\ g \in Cell
  BY HistoryTypes DEF Glyph, Attrs, Cell
<1> HIDE DEF g
<1>3. /\ BufferLine(d, Rows - 1) = WithCell(BufferLine(term.buffer, Rows - 1), Cols - 1, g)
      /\ \A q \in 0 .. Rows - 1 : q # Rows - 1 => BufferLine(d, q) = BufferLine(term.buffer, q)
  BY <1>1, <1>2, WrittenLines
<1> HIDE DEF d
<1>4. TopLine(b) = BufferLine(d, 0)
  <2>1. CASE Rows = 1
    BY <1>1, <1>3, <2>1 DEF TopLine, WithCell, g
  <2>2. CASE Rows # 1
    BY <1>1, <1>3, <2>2 DEF TopLine
  <2> QED
    BY <2>1, <2>2
<1> QED
  BY <1>4 DEF d, g

(* terminal_put_char types a character on the paper.                       *)
LEMMA PutCharTypes ==
  ASSUME HistoryInv, NEW b \in NormalInput \cap Printable, term.parse_state = "NORMAL",
         term' = PutChar(term, b), Remember(b)
  PROVE  Abstract!Next
<1> DEFINE g == Glyph(b, term.current_attrs)
           d == WithCellAt(term.buffer, term.cursor_row, term.cursor_col, g)
           w == [term EXCEPT !.buffer = d, !.cursor_col = term.cursor_col + 1]
           p == WithLine(Roll, Len(above) + term.cursor_row + 1,
                         WithCell(BufferLine(term.buffer, term.cursor_row), term.cursor_col, g))
<1>1. /\ Rows \in Nat \ {0} /\ Cols \in Nat \ {0}
      /\ term \in Terminals
      /\ term.buffer \in [Cells -> Cell]
      /\ term.current_attrs \in Attrs
      /\ term.cursor_row \in 0 .. Rows - 1 /\ term.cursor_col \in 0 .. Cols - 1
      /\ term = [f \in Fields |-> term[f]]
      /\ Roll = RollOf(above, term.buffer)
  BY HistoryTypes
<1>2. above \in Seq(Line)
  BY DEF HistoryInv
<1>3. b # LF /\ b \in Printable
  BY DEF LF, Printable
<1>4. g \in Cell
  BY <1>1, <1>3 DEF Glyph, Attrs, Cell
<1>5. p = [Roll EXCEPT ![Abstract!LineOf(term.cursor_row)][term.cursor_col] =
             Abstract!Written(b, term.current_attrs)]
  BY <1>1, HistoryTypes, PaperCells DEF WithLine, WithCell
<1>6. PutChar(term, b) = IF term.cursor_col + 1 >= Cols THEN Newline(w) ELSE w
  <2>1. [term EXCEPT !.buffer[Index(term.cursor_row, term.cursor_col)] = g,
                     !.cursor_col = @ + 1] = w
    BY DEF WithCellAt
  <2>2. w.cursor_col = term.cursor_col + 1
    BY <1>1 DEF Fields
  <2>3. ~ (term.cursor_row >= Rows \/ term.cursor_col >= Cols)
    BY <1>1
  <2> QED
    BY <2>1, <2>2, <2>3 DEF PutChar
<1>7. /\ w \in Terminals /\ RecordOK(w)
      /\ w.cursor_row = term.cursor_row /\ w.cursor_col = term.cursor_col + 1
      /\ w.current_attrs = term.current_attrs
      /\ w.buffer = d
  <2>1. d \in [Cells -> Cell]
    BY <1>1, <1>4 DEF WithCellAt
  <2>2. term.cursor_col + 1 \in Ints
    BY <1>1, ScreenAssumption DEF Ints
  <2> HIDE DEF d
  <2> QED
    BY <1>1, <2>1, <2>2 DEF Terminals, RecordOK, Fields
<1>8. RollOf(above, d) = p
  <2> HIDE DEF g
  <2> QED
    BY <1>1, <1>2, <1>4, WrittenRoll
<1>9. term.cursor_row = Rows - 1 /\ term.cursor_col = Cols - 1 => TopLine(b) = BufferLine(d, 0)
  BY <1>3, WrittenTopLine
<1> HIDE DEF d, w, g, p
<1>10. CASE term.cursor_col < Cols - 1
  <2>1. term' = w /\ above' = above
    <3>1. ~ (term.cursor_col + 1 >= Cols) /\ ~ Scrolls(b)
      BY <1>1, <1>3, <1>10 DEF Scrolls
    <3> QED
      BY <1>6, <3>1 DEF Remember
  <2>2. Roll' = p
    <3>1. Roll' = RollOf(above', term'.buffer)
      BY DEF Roll, RollOf
    <3> QED
      BY <1>7, <1>8, <2>1, <3>1
  <2>3. Abstract!Type(b)
    BY <1>5, <1>7, <1>10, <2>1, <2>2 DEF Abstract!Type
  <2> QED
    BY <2>3 DEF Abstract!Next
<1>11. CASE term.cursor_col = Cols - 1
  <2>1. term' = Newline(w)
    BY <1>1, <1>6, <1>11
  <2>2. Scrolls(b) <=> term.cursor_row = Rows - 1
    BY <1>3, <1>11 DEF Scrolls
  <2>3. above' = IF term.cursor_row = Rows - 1
                 THEN Append(above, BufferLine(w.buffer, 0)) ELSE above
    BY <1>7, <1>9, <1>11, <2>2 DEF Remember
  <2>4. Abstract!NextLine(RollOf(above, w.buffer)) /\ term'.current_attrs = term.current_attrs
    BY <1>7, <2>1, <2>3, NewlineNextLine
  <2>5. Abstract!Type(b)
    BY <1>5, <1>7, <1>8, <1>11, <2>4 DEF Abstract!Type
  <2> QED
    BY <2>5 DEF Abstract!Next
<1> QED
  BY <1>1, <1>10, <1>11

LEMMA NormalStep ==
  ASSUME HistoryInv, HistoryInv', NEW b \in NormalInput, ReceiveNormal(b), Remember(b)
  PROVE  [Abstract!Next]_Abstract!paperVars
<1>1. /\ term = [f \in Fields |-> term[f]]
      /\ term.parse_state = "NORMAL"
      /\ term' = NormalByte(term, b)
  BY HistoryTypes DEF ReceiveNormal
<1>2. b # LF /\ b \notin Printable => above' = above
  BY DEF Remember, Scrolls
<1>3. CASE b = LF
  <2>1. term' = Newline(term)
    BY <1>1, <1>3 DEF NormalByte, ESC, LF, CR, BS, Printable
  <2>2. above' = IF term.cursor_row = Rows - 1
                 THEN Append(above, BufferLine(term.buffer, 0)) ELSE above
    BY <1>1, <1>3 DEF Remember, Scrolls, TopLine
  <2>3. term \in Terminals /\ RecordOK(term)
    BY HistoryTypes DEF RecordOK
  <2>4. Abstract!NextLine(RollOf(above, term.buffer)) /\ term'.current_attrs = term.current_attrs
    BY <2>1, <2>2, <2>3, NewlineNextLine
  <2>5. Abstract!Feed
    BY <2>4, HistoryTypes DEF Abstract!Feed
  <2> QED
    BY <2>5 DEF Abstract!Next
<1>4. CASE b = CR
  <2>1. b # LF /\ b \notin Printable /\ term' = [term EXCEPT !.cursor_col = 0]
    BY <1>1, <1>4 DEF NormalByte, ESC, LF, CR, BS, Printable
  <2>2. term'.buffer = term.buffer /\ term'.current_attrs = term.current_attrs
    BY <1>1, <2>1 DEF Fields
  <2> QED
    BY <1>2, <2>1, <2>2, Moves
<1>5. CASE b = BS
  <2>1. /\ b # LF /\ b \notin Printable
        /\ term' = [term EXCEPT !.cursor_col = IF @ > 0 THEN @ - 1 ELSE @]
    BY <1>1, <1>5 DEF NormalByte, ESC, LF, CR, BS, Printable
  <2>2. term'.buffer = term.buffer /\ term'.current_attrs = term.current_attrs
    BY <1>1, <2>1 DEF Fields
  <2> QED
    BY <1>2, <2>1, <2>2, Moves
<1>6. CASE b \in Printable
  <2>1. term' = PutChar(term, b)
    BY <1>1, <1>6 DEF NormalByte, BS, CR, LF, ESC, Printable
  <2> QED
    BY <1>1, <1>6, <2>1, PutCharTypes
<1>7. CASE b \notin {LF, CR, BS} \cup Printable
  <2>1. term' \in {term, [term EXCEPT !.parse_state = "ESC"]} /\ above' = above
    BY <1>1, <1>2, <1>7 DEF NormalByte
  <2>2. /\ term'.buffer = term.buffer /\ term'.current_attrs = term.current_attrs
        /\ term'.cursor_row = term.cursor_row /\ term'.cursor_col = term.cursor_col
    BY <1>1, <2>1 DEF Fields
  <2> QED
    BY <2>1, <2>2, Stutters
<1> QED
  BY <1>3, <1>4, <1>5, <1>6, <1>7

(* Reading a sequence does not show before it is executed.                 *)
LEMMA SequenceStep ==
  ASSUME HistoryInv, UNCHANGED above, NEW b,
         ReceiveEsc(b) \/ ReceiveDigit(b) \/ ReceiveSeparator(b)
  PROVE  UNCHANGED Abstract!paperVars
<1>1. term = [f \in Fields |-> term[f]]
  BY HistoryTypes
<1>2. /\ term'.buffer = term.buffer /\ term'.current_attrs = term.current_attrs
      /\ term'.cursor_row = term.cursor_row /\ term'.cursor_col = term.cursor_col
  BY <1>1 DEF Fields, ReceiveEsc, EscByte, ReceiveDigit, CsiDigit, ReceiveSeparator, CsiSeparator
<1> QED
  BY <1>2, Stutters

(* execute_erase_line erases a stretch that touches the cursor.            *)
LEMMA EraseLineErases ==
  ASSUME HistoryInv, UNCHANGED above, NEW C \in SUBSET (0 .. Cols - 1),
         NEW from \in 0 .. term.cursor_col, NEW to \in term.cursor_col .. Cols - 1,
         C = from .. to,
         term'.buffer = Erase(term, Stretch(term.cursor_row, C)),
         term'.cursor_row = term.cursor_row, term'.cursor_col = term.cursor_col,
         term'.current_attrs = term.current_attrs
  PROVE  Abstract!Next
<1> DEFINE d == Erase(term, Stretch(term.cursor_row, C))
           old == BufferLine(term.buffer, term.cursor_row)
           new == ErasedLine(old, C, term.current_attrs)
<1>1. /\ term \in Terminals
      /\ term.buffer \in [Cells -> Cell]
      /\ term.current_attrs \in Attrs
      /\ term.cursor_row \in 0 .. Rows - 1
      /\ Roll = RollOf(above, term.buffer)
      /\ Abstract!LineOf(term.cursor_row) = Len(above) + term.cursor_row + 1
      /\ Roll[Len(above) + term.cursor_row + 1] = old
      /\ above \in Seq(Line)
  BY HistoryTypes DEF HistoryInv
<1>2. d \in [Cells -> Cell]
  BY <1>1, BlankType DEF Erase
<1>3. /\ BufferLine(d, term.cursor_row) = new
      /\ \A q \in 0 .. Rows - 1 :
           q # term.cursor_row => BufferLine(d, q) = BufferLine(term.buffer, q)
  BY <1>1, ErasedLines
<1> HIDE DEF d
<1>4. RollOf(above, d) = WithLine(Roll, Len(above) + term.cursor_row + 1, new)
  <2> HIDE DEF new
  <2> QED
    BY <1>1, <1>2, <1>3, ChangedLine
<1>5. Roll' = RollOf(above, d)
  <2>1. Roll' = RollOf(above', term'.buffer)
    BY DEF Roll, RollOf
  <2> QED
    BY <2>1 DEF d
<1>6. new = [c \in Abstract!Columns |->
               IF c \in from .. to THEN Abstract!Empty(term.current_attrs) ELSE old[c]]
  BY <1>1, PaperCells DEF Abstract!Columns, ErasedLine
<1> HIDE DEF new, old
<1>7. Roll' = [Roll EXCEPT ![Abstract!LineOf(term.cursor_row)] =
                 [c \in Abstract!Columns |->
                    IF c \in from .. to THEN Abstract!Empty(term.current_attrs) ELSE @[c]]]
  BY <1>1, <1>4, <1>5, <1>6 DEF WithLine
<1>8. Abstract!EraseInLine
  BY <1>7 DEF Abstract!EraseInLine
<1> QED
  BY <1>8 DEF Abstract!Next

(* execute_erase_display with parameter 2 erases the window.               *)
LEMMA EraseDisplayErases ==
  ASSUME HistoryInv, UNCHANGED above,
         term'.buffer = Erase(term, Cells), term'.cursor_row = 0, term'.cursor_col = 0,
         term'.current_attrs = term.current_attrs
  PROVE  Abstract!Next
<1> DEFINE d == Erase(term, Cells)
           n == Len(above)
<1>1. /\ Rows \in Nat \ {0} /\ n \in Nat
      /\ term.buffer \in [Cells -> Cell]
      /\ term.current_attrs \in Attrs
      /\ Roll = RollOf(above, term.buffer)
      /\ above \in Seq(Line)
  BY HistoryTypes DEF HistoryInv
<1>2. d \in [Cells -> Cell]
  BY <1>1, BlankType DEF Erase
<1>3. \A r \in 0 .. Rows - 1 : BufferLine(d, r) = Abstract!EmptyLine(term.current_attrs)
  BY <1>1, ClearedLines, PaperCells
<1>4. Roll' = RollOf(above, d)
  BY DEF Roll, RollOf
<1> HIDE DEF d
<1>5. /\ Len(Roll) = n + Rows
      /\ Roll = [i \in 1 .. n + Rows |->
                   IF i <= n THEN above[i] ELSE BufferLine(term.buffer, i - n - 1)]
      /\ Roll' = [i \in 1 .. n + Rows |->
                   IF i <= n THEN above[i] ELSE BufferLine(d, i - n - 1)]
  BY <1>1, <1>2, <1>4, RollLines
<1> HIDE DEF n
<1>6. Roll' = [i \in DOMAIN Roll |->
                 IF i > Len(Roll) - Rows THEN Abstract!EmptyLine(term.current_attrs) ELSE Roll[i]]
  <2> DEFINE old == Roll
             new == Roll'
             empty == Abstract!EmptyLine(term.current_attrs)
  <2>1. DOMAIN old = 1 .. n + Rows
    BY <1>5
  <2>2. ASSUME NEW i \in 1 .. n + Rows
        PROVE  new[i] = IF i > Len(old) - Rows THEN empty ELSE old[i]
    <3>1. CASE i <= n
      BY <1>1, <1>5, <3>1
    <3>2. CASE ~ (i <= n)
      <4>1. i - n - 1 \in 0 .. Rows - 1 /\ i > Len(old) - Rows
        BY <1>1, <1>5, <3>2
      <4> QED
        BY <1>3, <1>5, <3>2, <4>1
    <3> QED
      BY <3>1, <3>2
  <2>3. new = [i \in 1 .. n + Rows |-> new[i]]
    BY <1>5
  <2> HIDE DEF old, new, empty
  <2>4. new = [i \in DOMAIN old |-> IF i > Len(old) - Rows THEN empty ELSE old[i]]
    BY <2>1, <2>2, <2>3
  <2> QED
    BY <2>4 DEF old, new, empty
<1>7. Abstract!EraseWindow
  BY <1>6 DEF Abstract!EraseWindow
<1> QED
  BY <1>7 DEF Abstract!Next

(* Executing a sequence.                                                   *)
LEMMA FinalStep ==
  ASSUME HistoryInv, HistoryInv', UNCHANGED above, NEW b, ReceiveFinal(b)
  PROVE  [Abstract!Next]_Abstract!paperVars
<1> DEFINE t == Closed(term)
           u == ExecuteCsi(t, b)
<1>1. /\ term' = [u EXCEPT !.parse_state = "NORMAL"]
      /\ term = [f \in Fields |-> term[f]]
      /\ term.cursor_row \in 0 .. Rows - 1 /\ term.cursor_col \in 0 .. Cols - 1
      /\ Rows \in Nat \ {0} /\ Cols \in Nat \ {0}
  BY HistoryTypes DEF ReceiveFinal, CsiFinal
<1>2. /\ RecordOK(t)
      /\ t.buffer = term.buffer
      /\ t.cursor_row = term.cursor_row /\ t.cursor_col = term.cursor_col
      /\ t.current_attrs = term.current_attrs
  BY <1>1 DEF RecordOK, Closed, Fields
<1>3. t = [f \in Fields |-> t[f]]
  BY <1>2 DEF RecordOK
<1> HIDE DEF t
<1>4. RecordOK(u)
  BY <1>2, ExecuteCsiKeepsParser
<1>5. /\ term'.buffer = u.buffer
      /\ term'.cursor_row = u.cursor_row /\ term'.cursor_col = u.cursor_col
      /\ term'.current_attrs = u.current_attrs
  <2> HIDE DEF u
  <2> QED
    BY <1>1, <1>4 DEF RecordOK, Fields
<1>6. CASE b = SGR
  <2>1. u = ExecuteSgr(t)
    BY <1>6 DEF ExecuteCsi, SGR, CUU, CUD, CUF, CUB, CUP, ED, EL
  <2>2. /\ u.buffer = t.buffer
        /\ u.cursor_row = t.cursor_row /\ u.cursor_col = t.cursor_col
    BY <1>3, <2>1 DEF ExecuteSgr, Fields
  <2>3. term'.current_attrs \in Attrs
    BY DEF HistoryInv, TypeOK, Terminals
  <2>4. Roll' = Roll
    BY <1>2, <1>5, <2>2 DEF Roll
  <2>5. Abstract!Restyle
    BY <1>2, <1>5, <2>2, <2>3, <2>4 DEF Abstract!Restyle
  <2> QED
    BY <2>5 DEF Abstract!Next
<1>7. CASE b \in {CUU, CUD, CUF, CUB} \cup CUP
  <2>1. u \in {ExecuteCursorMove(t, b), ExecuteCursorPosition(t)}
    BY <1>7 DEF ExecuteCsi, SGR, CUU, CUD, CUF, CUB, CUP, ED, EL
  <2>2. u.buffer = t.buffer /\ u.current_attrs = t.current_attrs
    <3>1. CASE u = ExecuteCursorPosition(t)
      BY <1>3, <3>1 DEF ExecuteCursorPosition, Fields
    <3>2. CASE b \in {CUU, CUD, CUF, CUB} /\ u = ExecuteCursorMove(t, b)
      BY <1>3, <3>2 DEF ExecuteCursorMove, CUU, CUD, CUF, CUB, Fields
    <3>3. CASE b \in CUP
      <4>1. u = ExecuteCursorPosition(t)
        BY <3>3 DEF ExecuteCsi, SGR, CUU, CUD, CUF, CUB, CUP, ED, EL
      <4> QED
        BY <3>1, <4>1
    <3> QED
      BY <1>7, <2>1, <3>1, <3>2, <3>3
  <2> HIDE DEF u
  <2> QED
    BY <1>2, <1>5, <2>2, Moves
<1>8. CASE b = ED
  <2>1. u = ExecuteEraseDisplay(t)
    BY <1>8 DEF ExecuteCsi, SGR, CUU, CUD, CUF, CUB, CUP, ED, EL
  <2>2. CASE Param(t, 0, 0) = 2
    <3>1. /\ u.buffer = Erase(t, Cells) /\ u.cursor_row = 0 /\ u.cursor_col = 0
          /\ u.current_attrs = t.current_attrs
      BY <1>3, <2>1, <2>2 DEF ExecuteEraseDisplay, Fields
    <3>2. Erase(t, Cells) = Erase(term, Cells)
      BY <1>2 DEF Erase
    <3> HIDE DEF u
    <3> QED
      BY <1>2, <1>5, <3>1, <3>2, EraseDisplayErases
  <2>3. CASE Param(t, 0, 0) # 2
    <3>1. u = t
      BY <2>1, <2>3 DEF ExecuteEraseDisplay
    <3> QED
      BY <1>2, <1>5, <3>1, Stutters
  <2> QED
    BY <2>2, <2>3
<1>9. CASE b = EL
  <2> DEFINE C == ErasedColumns(t)
  <2>1. u = ExecuteEraseLine(t)
    BY <1>9 DEF ExecuteCsi, SGR, CUU, CUD, CUF, CUB, CUP, ED, EL
  <2>2. /\ u.buffer = Erase(term, Stretch(term.cursor_row, C))
        /\ u.cursor_row = t.cursor_row /\ u.cursor_col = t.cursor_col
        /\ u.current_attrs = t.current_attrs
    BY <1>2, <1>3, <2>1 DEF ExecuteEraseLine, Erase, Stretch, Fields
  <2>3. \/ C = term.cursor_col .. Cols - 1
        \/ C = 0 .. term.cursor_col
        \/ C = 0 .. Cols - 1
        \/ C = {}
    BY <1>2 DEF ErasedColumns
  <2> HIDE DEF C, u
  <2>4. ASSUME NEW from \in 0 .. term.cursor_col, NEW to \in term.cursor_col .. Cols - 1,
               C = from .. to
        PROVE  Abstract!Next
    <3>1. C \in SUBSET (0 .. Cols - 1)
      BY <1>1, <2>4
    <3> QED
      BY <1>2, <1>5, <2>2, <2>4, <3>1, EraseLineErases
  <2>5. CASE C = {}
    <3>1. Erase(term, Stretch(term.cursor_row, C)) = term.buffer
      <4>1. term.buffer \in [Cells -> Cell]
        BY HistoryTypes
      <4> QED
        BY <2>5, <4>1 DEF Erase, Stretch
    <3> QED
      BY <1>2, <1>5, <2>2, <3>1, Stutters
  <2>6. /\ 0 \in 0 .. term.cursor_col /\ term.cursor_col \in 0 .. term.cursor_col
        /\ term.cursor_col \in term.cursor_col .. Cols - 1
        /\ Cols - 1 \in term.cursor_col .. Cols - 1
    BY <1>1
  <2> QED
    BY <2>3, <2>4, <2>5, <2>6
<1>10. CASE b \notin {SGR, CUU, CUD, CUF, CUB, ED, EL} \cup CUP
  <2>1. u = t
    BY <1>10 DEF ExecuteCsi
  <2> QED
    BY <1>2, <1>5, <2>1, Stutters
<1> QED
  BY <1>6, <1>7, <1>8, <1>9, <1>10

-----------------------------------------------------------------------------

(* Everything the proof assumes of a state holds in every reachable one.   *)
LEMMA HistoryInvInit == HistoryInit => HistoryInv
<1> SUFFICES ASSUME HistoryInit PROVE HistoryInv
  OBVIOUS
<1>1. above = <<>> /\ Init
  BY DEF HistoryInit
<1>2. above \in Seq(Line)
  BY <1>1
<1> QED
  BY <1>1, <1>2, InitOK, TypeInit, ParserInit DEF HistoryInv

LEMMA TopLineType ==
  ASSUME HistoryInv, NEW b \in NormalInput, Scrolls(b)
  PROVE  TopLine(b) \in Line
<1> DEFINE line == BufferLine(term.buffer, 0)
           g == Glyph(b, term.current_attrs)
<1>1. line \in Line
  BY HistoryTypes, BufferLineType
<1>2. b # LF => g \in Cell
  BY HistoryTypes DEF Scrolls, Glyph, Attrs, Cell
<1> HIDE DEF line, g
<1>3. [line EXCEPT ![Cols - 1] = g] \in Line \/ b = LF
  BY <1>1, <1>2 DEF Line
<1> QED
  BY <1>1, <1>3 DEF TopLine, line, g

LEMMA HistoryInvStep ==
  ASSUME ParamsFit
  PROVE  HistoryInv /\ [HistoryNext]_historyVars => HistoryInv'
<1> SUFFICES ASSUME HistoryInv, [HistoryNext]_historyVars PROVE HistoryInv'
  OBVIOUS
<1>1. Inv /\ TypeOK /\ ParserInv /\ above \in Seq(Line)
  BY DEF HistoryInv
<1>2. [Next]_vars
  BY DEF HistoryNext, historyVars, Next, vars
<1>3. Inv' /\ TypeOK' /\ ParserInv'
  BY <1>1, <1>2, StepOK, TypeStep, ParserStep
<1>4. above' \in Seq(Line)
  <2>1. ASSUME NEW b \in NormalInput, Remember(b) PROVE above' \in Seq(Line)
    <3>1. CASE Scrolls(b)
      BY <1>1, <2>1, <3>1, TopLineType, AppendProperties DEF Remember
    <3>2. CASE ~ Scrolls(b)
      BY <1>1, <2>1, <3>2 DEF Remember
    <3> QED
      BY <3>1, <3>2
  <2>2. CASE UNCHANGED above
    BY <1>1, <2>2
  <2> QED
    BY <2>1, <2>2 DEF HistoryNext, historyVars
<1> QED
  BY <1>3, <1>4 DEF HistoryInv

LEMMA PaperInit == HistoryInit => Abstract!Init
<1> SUFFICES ASSUME HistoryInit PROVE Abstract!Init
  OBVIOUS
<1>1. /\ Rows \in Nat \ {0} /\ Cols \in Nat \ {0}
      /\ above = <<>>
      /\ term = InitTerminal
  BY ScreenAssumption DEF HistoryInit, Init
<1>2. /\ term.buffer = [i \in Cells |-> Blank(DefaultAttrs)]
      /\ term.cursor_row = 0 /\ term.cursor_col = 0
      /\ term.current_attrs = DefaultAttrs
  BY <1>1 DEF InitTerminal
<1>3. DefaultAttrs \in Attrs
  BY DEF DefaultAttrs, Attrs
<1>4. term.buffer \in [Cells -> Cell]
  BY <1>2, <1>3, BlankType
<1>5. \A r \in 0 .. Rows - 1 : BufferLine(term.buffer, r) = Abstract!EmptyLine(DefaultAttrs)
  <2>1. \A r \in 0 .. Rows - 1, c \in 0 .. Cols - 1 :
          term.buffer[Index(r, c)] = Blank(DefaultAttrs)
    BY <1>2, IndexInjective
  <2>2. \A r \in 0 .. Rows - 1 : BufferLine(term.buffer, r) = BlankLine(DefaultAttrs)
    BY <2>1 DEF BufferLine, BlankLine
  <2> QED
    BY <1>3, <2>2, PaperCells
<1>6. Roll = [i \in 1 .. Rows |-> Abstract!EmptyLine(DefaultAttrs)]
  <2>1. Len(above) = 0 /\ above \in Seq(Line)
    BY <1>1
  <2>2. RollOf(above, term.buffer) =
          [i \in 1 .. 0 + Rows |-> IF i <= 0 THEN above[i] ELSE BufferLine(term.buffer, i - 0 - 1)]
    BY <1>4, <2>1, RollLines
  <2>3. \A i \in 1 .. Rows : ~ (i <= 0) /\ i - 0 - 1 \in 0 .. Rows - 1
    BY <1>1
  <2>4. RollOf(above, term.buffer) = [i \in 1 .. Rows |-> Abstract!EmptyLine(DefaultAttrs)]
    BY <1>1, <1>5, <2>2, <2>3
  <2> QED
    BY <2>4 DEF Roll, RollOf
<1> QED
  BY <1>2, <1>6 DEF Abstract!Init, DefaultAttrs

LEMMA PaperStep ==
  ASSUME HistoryInv, HistoryInv', [HistoryNext]_historyVars
  PROVE  [Abstract!Next]_Abstract!paperVars
<1>1. ASSUME NEW b \in NormalInput, ReceiveNormal(b), Remember(b)
      PROVE  [Abstract!Next]_Abstract!paperVars
  BY <1>1, NormalStep
<1>2. ASSUME UNCHANGED above, NEW b,
             ReceiveEsc(b) \/ ReceiveDigit(b) \/ ReceiveSeparator(b)
      PROVE  [Abstract!Next]_Abstract!paperVars
  BY <1>2, SequenceStep
<1>3. ASSUME UNCHANGED above, NEW b, ReceiveFinal(b)
      PROVE  [Abstract!Next]_Abstract!paperVars
  BY <1>3, FinalStep
<1>4. CASE UNCHANGED historyVars
  BY <1>4, Stutters DEF historyVars
<1> QED
  BY <1>1, <1>2, <1>3, <1>4 DEF HistoryNext

(* The flat buffer, its memmove and the cursor arithmetic implement the    *)
(* roll of paper for every size of the screen and however long the program *)
(* runs: nothing in the proof needs the bound MaxScroll.                   *)
THEOREM PaperImplemented ==
  ASSUME ParamsFit
  PROVE  HistorySpec => ImplementsPaper
<1>1. HistoryInv /\ [HistoryNext]_historyVars => HistoryInv'
  BY HistoryInvStep
<1>2. HistoryInv /\ HistoryInv' /\ [HistoryNext]_historyVars
        => [Abstract!Next]_Abstract!paperVars
  BY PaperStep
<1> QED
  BY <1>1, <1>2, HistoryInvInit, PaperInit, PTL DEF HistorySpec, ImplementsPaper, Abstract!Spec

-----------------------------------------------------------------------------
(* Stream: the parser keeps in step with a program that sends whole        *)
(* sequences, also when a parameter overflows.                             *)

StepInv ==
  /\ RecordOK(term)
  /\ sending \in {"text", "escape", "charset", "control"}
  /\ cut \in BOOLEAN
  /\ sending = "charset" => cut
  /\ sending = "escape" => ~ cut
  /\ InStep

(* The display of two terminals is the same.                               *)
SameDisplay(t, u) ==
  /\ u.buffer = t.buffer
  /\ u.cursor_row = t.cursor_row
  /\ u.cursor_col = t.cursor_col

LEMMA Alphabet ==
  /\ \A b \in Text : b # ESC
  /\ \A b \in Intermediates : b \notin {ESC, OpenBracket}
  /\ \A b \in Finals : b \notin {ESC, OpenBracket, Semicolon} \cup Digits
  /\ \A b \in Parameters : b \notin {ESC} \cup SupportedFinals
BY StreamAssumption
   DEF ESC, OpenBracket, Semicolon, Digits, SupportedFinals, CUU, CUD, CUF, CUB, CUP, ED, EL, SGR

LEMMA NormalState ==
  ASSUME NEW t, RecordOK(t), t.parse_state = "NORMAL", NEW b
  PROVE  /\ RecordOK(NormalByte(t, b))
         /\ NormalByte(t, b).parse_state = IF b = ESC THEN "ESC" ELSE "NORMAL"
         /\ b = ESC => SameDisplay(t, NormalByte(t, b))
<1> DEFINE u == NormalByte(t, b)
<1>1. CASE b = ESC
  <2>1. u = [t EXCEPT !.parse_state = "ESC"]
    BY <1>1 DEF NormalByte, ESC, LF, CR, BS, Printable
  <2> QED
    BY <1>1, <2>1 DEF RecordOK, Fields, SameDisplay
<1>2. CASE b # ESC
  <2>1. u \in {Newline(t), [t EXCEPT !.cursor_col = 0],
               [t EXCEPT !.cursor_col = IF @ > 0 THEN @ - 1 ELSE @], PutChar(t, b), t}
    BY <1>2 DEF NormalByte
  <2>2. RecordOK(u) /\ SameParser(t, u)
    <3>1. CASE u \in {Newline(t), PutChar(t, b), t}
      BY <3>1, NewlineKeepsParser, PutCharKeepsParser DEF SameParser
    <3>2. CASE u \in {[t EXCEPT !.cursor_col = 0],
                      [t EXCEPT !.cursor_col = IF @ > 0 THEN @ - 1 ELSE @]}
      BY <3>2 DEF RecordOK, Fields, SameParser
    <3> QED
      BY <2>1, <3>1, <3>2
  <2> QED
    BY <1>2, <2>2 DEF SameParser
<1> QED
  BY <1>1, <1>2

LEMMA EscState ==
  ASSUME NEW t, RecordOK(t), NEW b
  PROVE  /\ RecordOK(EscByte(t, b))
         /\ EscByte(t, b).parse_state = IF b = OpenBracket THEN "CSI" ELSE "NORMAL"
         /\ SameDisplay(t, EscByte(t, b))
BY DEF EscByte, RecordOK, Fields, SameDisplay

LEMMA CsiState ==
  ASSUME NEW t, RecordOK(t), NEW b
  PROVE  /\ RecordOK(CsiByte(t, b))
         /\ CsiByte(t, b).parse_state =
              IF b \in Digits \cup {Semicolon} THEN "CSI_PARAM" ELSE "NORMAL"
         /\ b \notin SupportedFinals => SameDisplay(t, CsiByte(t, b))
<1>1. CASE b \in Digits
  <2>1. CsiByte(t, b) = CsiDigit(t, b)
    BY <1>1 DEF CsiByte, Digits, Semicolon
  <2> QED
    BY <1>1, <2>1 DEF CsiDigit, RecordOK, Fields, SameDisplay
<1>2. CASE b = Semicolon
  <2>1. CsiByte(t, b) = CsiSeparator(t)
    BY <1>2 DEF CsiByte, Digits, Semicolon
  <2> QED
    BY <1>2, <2>1 DEF CsiSeparator, RecordOK, Fields, SameDisplay
<1>3. CASE b \notin Digits \cup {Semicolon}
  <2> DEFINE v == Closed(t)
             u == ExecuteCsi(v, b)
  <2>1. CsiByte(t, b) = [u EXCEPT !.parse_state = "NORMAL"]
    BY <1>3 DEF CsiByte, CsiFinal
  <2>2. RecordOK(v) /\ SameDisplay(t, v)
    BY DEF Closed, RecordOK, Fields, SameDisplay
  <2>3. b \notin SupportedFinals => u = v
    BY DEF ExecuteCsi, SupportedFinals
  <2> HIDE DEF v
  <2>4. RecordOK(u)
    BY <2>2, ExecuteCsiKeepsParser
  <2> HIDE DEF u
  <2>5. RecordOK(CsiByte(t, b)) /\ CsiByte(t, b).parse_state = "NORMAL"
    BY <2>1, <2>4 DEF RecordOK, Fields
  <2>6. SameDisplay(u, CsiByte(t, b))
    BY <2>1, <2>4 DEF RecordOK, Fields, SameDisplay
  <2> QED
    BY <1>3, <2>2, <2>3, <2>5, <2>6 DEF SameDisplay
<1> QED
  BY <1>1, <1>2, <1>3

LEMMA StepInvInit == StreamInit => StepInv
<1> SUFFICES ASSUME StreamInit PROVE StepInv
  OBVIOUS
<1>1. ParserInv /\ term.parse_state = "NORMAL"
  BY ParserInit DEF StreamInit, Init, InitTerminal
<1> QED
  BY <1>1 DEF StreamInit, StepInv, InStep, ParserInv

(* What a byte does in each of the parser's states.                        *)
LEMMA ByteState ==
  ASSUME StepInv, NEW b
  PROVE  /\ RecordOK(ProcessByte(term, b))
         /\ term.parse_state = "NORMAL" =>
              /\ ProcessByte(term, b).parse_state = IF b = ESC THEN "ESC" ELSE "NORMAL"
         /\ term.parse_state = "ESC" =>
              /\ ProcessByte(term, b).parse_state = IF b = OpenBracket THEN "CSI" ELSE "NORMAL"
              /\ SameDisplay(term, ProcessByte(term, b))
         /\ term.parse_state \in {"CSI", "CSI_PARAM"} =>
              /\ ProcessByte(term, b).parse_state =
                   IF b \in Digits \cup {Semicolon} THEN "CSI_PARAM" ELSE "NORMAL"
              /\ b \notin SupportedFinals => SameDisplay(term, ProcessByte(term, b))
<1>0. RecordOK(term)
  BY DEF StepInv
<1>1. CASE term.parse_state = "NORMAL"
  <2>1. ProcessByte(term, b) = NormalByte(term, b)
    BY <1>1 DEF ProcessByte
  <2> QED
    BY <1>0, <1>1, <2>1, NormalState
<1>2. CASE term.parse_state = "ESC"
  <2>1. ProcessByte(term, b) = EscByte(term, b)
    BY <1>2 DEF ProcessByte
  <2> QED
    BY <1>0, <1>2, <2>1, EscState
<1>3. CASE term.parse_state \in {"CSI", "CSI_PARAM"}
  <2>1. ProcessByte(term, b) = CsiByte(term, b)
    BY <1>3 DEF ProcessByte
  <2> QED
    BY <1>0, <1>3, <2>1, CsiState
<1> QED
  BY <1>1, <1>2, <1>3 DEF StepInv, InStep

LEMMA StepInvStep == StepInv /\ [StreamNext]_streamVars => StepInv'
<1> SUFFICES ASSUME StepInv, [StreamNext]_streamVars PROVE StepInv'
  OBVIOUS
<1> USE DEF StepInv, InStep, Send
<1>1. ASSUME NEW b \in Text, SendText(b) PROVE StepInv'
  BY <1>1, ByteState, Alphabet DEF SendText
<1>2. CASE SendEscape
  BY <1>2, ByteState DEF SendEscape
<1>3. ASSUME NEW b \in Intermediates, SendIntermediate(b) PROVE StepInv'
  BY <1>3, ByteState, Alphabet DEF SendIntermediate
<1>4. ASSUME NEW b \in Finals, SendEscapeFinal(b) PROVE StepInv'
  BY <1>4, ByteState, Alphabet DEF SendEscapeFinal
<1>5. CASE SendIntroducer
  BY <1>5, ByteState DEF SendIntroducer
<1>6. ASSUME NEW b \in Parameters, SendParameter(b) PROVE StepInv'
  BY <1>6, ByteState, Alphabet DEF SendParameter
<1>7. ASSUME NEW b \in Finals, SendFinal(b) PROVE StepInv'
  BY <1>7, ByteState, Alphabet DEF SendFinal
<1>8. CASE UNCHANGED streamVars
  BY <1>8 DEF streamVars
<1> QED
  BY <1>1, <1>2, <1>3, <1>4, <1>5, <1>6, <1>7, <1>8 DEF StreamNext

LEMMA StepInvHolds == StreamSpec => []StepInv
BY StepInvInit, StepInvStep, PTL DEF StreamSpec

(* Whatever sequences the program sends, the parser is back to text when   *)
(* the program is, and in a sequence it has not cut when the program is.   *)
THEOREM ParserKeepsInStep == StreamSpec => []InStep
<1>1. StepInv => InStep
  BY DEF StepInv
<1> QED
  BY <1>1, StepInvHolds, PTL

(* Nothing of a sequence is printed before the parser cuts it, and an      *)
(* unsupported one does not move the cursor.                               *)
THEOREM UncutSequencesNeverShow == StreamSpec => OnlyCutSequencesShow
<1>1. StepInv /\ [StreamNext]_streamVars
        => [sending # "text" /\ ~ cut /\ ~ (\E b \in Finals \cap SupportedFinals : SendFinal(b))
              => DisplayUnchanged]_streamVars
  <2> SUFFICES ASSUME StepInv, StreamNext, sending # "text", ~ cut,
                      ~ (\E b \in Finals \cap SupportedFinals : SendFinal(b))
               PROVE  DisplayUnchanged
    OBVIOUS
  <2> USE DEF StepInv, InStep, Send, DisplayUnchanged, SameDisplay
  <2>1. ASSUME NEW b, term' = ProcessByte(term, b), sending = "escape"
        PROVE  DisplayUnchanged
    BY <2>1, ByteState
  <2>2. ASSUME NEW b \in Parameters, SendParameter(b)
        PROVE  DisplayUnchanged
    BY <2>2, ByteState, Alphabet DEF SendParameter
  <2>3. ASSUME NEW b \in Finals, SendFinal(b)
        PROVE  DisplayUnchanged
    BY <2>3, ByteState DEF SendFinal
  <2> QED
    BY <2>1, <2>2, <2>3 DEF StreamNext, SendText, SendEscape, SendIntermediate, SendEscapeFinal,
       SendIntroducer
<1> QED
  BY <1>1, StepInvHolds, PTL DEF StreamSpec, OnlyCutSequencesShow

-----------------------------------------------------------------------------
(* RowScan. Nothing is assumed of what the reader thread does to the       *)
(* screen between two calls.                                               *)

(* The places the client will see or has seen.                             *)
Visible == {p \in Places : p[2] < BufLen - 1}

(* During a scan, a marker that stayed visible since it began is in a row  *)
(* still to come: the rows before held none when they were read.           *)
ScanInv ==
  /\ row \in Nat
  /\ kept \subseteq Places
  /\ scan = "scanning" => kept \subseteq Marked(term)
  /\ scan = "scanning" => \A p \in kept \cap Visible : p[1] >= row
  /\ scan = "missing" => kept \cap Visible = {}

LEMMA PlaceOnScreen ==
  ASSUME NEW p \in Places
  PROVE  p[1] \in 0 .. Rows - 1 /\ p[2] \in 0 .. Cols - 1
  BY DEF Places

(* A row that was read without a hit holds no marker that is visible.      *)
LEMMA ReadRowSeesAll ==
  ASSUME NEW p \in Marked(term) \cap Visible,
         p[1] = row
  PROVE  \E col \in 0 .. Copied - 1 : RowText(term, row)[col] = Marker
<1>1. p \in Places /\ term.buffer[Index(p[1], p[2])].ch = Marker
  BY DEF Marked
<1>2. p[2] \in 0 .. Cols - 1 /\ p[2] < BufLen - 1
  BY <1>1, PlaceOnScreen DEF Visible
<1>3. p[2] \in 0 .. Copied - 1
  BY <1>2, ScreenAssumption, RowScanAssumption DEF Copied
<1>4. RowText(term, row)[p[2]] = Marker
  BY <1>1, <1>3 DEF RowText
<1> QED
  BY <1>3, <1>4

LEMMA ScanInvStep ==
  ASSUME ScanInv, [ScanNext]_scanVars
  PROVE  ScanInv'
<1> USE DEF ScanInv
<1>0. Visible \subseteq Places /\ Marked(term) \subseteq Places /\ Marked(term') \subseteq Places
  BY DEF Visible, Marked
<1>1. CASE Begin
  <2>1. row' = 0 /\ kept' = Marked(term) /\ term' = term /\ scan' = "scanning"
    BY <1>1 DEF Begin
  <2>2. \A p \in Places : p[1] >= 0
    BY PlaceOnScreen
  <2>3. kept' \subseteq Marked(term') /\ kept' \subseteq Places
    BY <1>0, <2>1
  <2> QED
    BY <2>1, <2>2, <2>3
<1>2. CASE ReadRow
  <2>1. term' = term /\ kept' = kept /\ scan = "scanning"
    BY <1>2 DEF ReadRow
  <2>2. CASE scan' = "found"
    BY <1>2, <2>1, <2>2 DEF ReadRow
  <2>3. CASE row' = row + 1 /\ scan' = "scanning"
            /\ ~ \E col \in 0 .. Copied - 1 : RowText(term, row)[col] = Marker
    <3>1. ASSUME NEW p \in kept \cap Visible PROVE p[1] >= row + 1
      <4>1. p \in Marked(term) \cap Visible /\ p[1] >= row
        BY <2>1, <3>1
      <4>2. p[1] # row
        BY <2>3, <4>1, ReadRowSeesAll
      <4>3. p[1] \in Nat
        BY <1>0, <4>1, PlaceOnScreen, ScreenAssumption
      <4> QED
        BY <4>1, <4>2, <4>3
    <3> QED
      BY <2>1, <2>3, <3>1 DEF Visible, Marked
  <2> QED
    BY <1>2, <2>1, <2>2, <2>3 DEF ReadRow
<1>3. CASE EndOfScreen
  <2>1. scan = "scanning" /\ row = Rows /\ scan' = "missing" /\ kept' = kept /\ row' = row
    BY <1>3 DEF EndOfScreen
  <2>2. ASSUME NEW p \in kept \cap Visible PROVE FALSE
    <3>1. p[1] >= Rows
      BY <2>1, <2>2
    <3>2. p[1] \in 0 .. Rows - 1
      BY <1>0, <2>2, PlaceOnScreen
    <3> QED
      BY <3>1, <3>2, ScreenAssumption
  <2> QED
    BY <2>1, <2>2 DEF Visible
<1>4. CASE Again
  BY <1>4 DEF Again
<1>5. CASE Next /\ Overtaken
  <2>1. kept' = kept \cap Marked(term') /\ scan' = scan /\ row' = row
    BY <1>5 DEF Overtaken
  <2> QED
    BY <2>1 DEF Visible, Marked
<1>6. CASE UNCHANGED scanVars
  BY <1>6 DEF scanVars, Visible, Marked
<1> QED
  BY <1>1, <1>2, <1>3, <1>4, <1>5, <1>6 DEF ScanNext, ClientStep

(* A client that reads the screen row by row finds every text that stays   *)
(* where it is and within its buffer, whatever the program writes and      *)
(* however the bytes fall between the calls of ptywrap_get_row_text.       *)
THEOREM StableTextAlwaysFound == ScanSpec => []StableTextFound
<1>1. ScanInit => ScanInv
  BY DEF ScanInit, ScanInv, Visible
<1>2. ScanInv => StableTextFound
  <2> SUFFICES ASSUME ScanInv, scan = "missing", NEW p \in kept, ~ (p[2] >= BufLen - 1)
               PROVE  FALSE
    BY DEF StableTextFound
  <2>1. p \in Places
    BY DEF ScanInv
  <2>2. p[2] < BufLen - 1
    BY <2>1, PlaceOnScreen, ScreenAssumption, RowScanAssumption
  <2> QED
    BY <2>1, <2>2 DEF ScanInv, Visible
<1> QED
  BY <1>1, <1>2, ScanInvStep, PTL DEF ScanSpec

=============================================================================
