--------------------------- MODULE ScreenshotProofs --------------------------
(***************************************************************************)
(* Proofs about module Screenshot, for every size of the screen and every  *)
(* range of rows.                                                          *)
(***************************************************************************)
EXTENDS Screenshot, SequenceTheorems, FiniteSetTheorems, WellFoundedInduction, TLAPS

(* Only a range that starts below the screen, and is turned around, ends   *)
(* below it.                                                               *)
LEMMA RangeType ==
  ASSUME NEW first \in Int, NEW last \in Int
  PROVE  /\ Validate(first, last)[1] \in 0 .. Rows - 1
         /\ Validate(first, last)[2] \in Nat
         /\ Validate(first, last)[1] <= Validate(first, last)[2]
         /\ Validate(first, last)[2] >= Rows => first >= Rows
BY ScreenAssumption DEF Validate

RangeInv ==
  /\ start_row \in Int /\ end_row \in Int
  /\ pc \in {"call", "rows", "done", "outside"}
  /\ pc \in {"rows", "done"} => row \in RowRange[1] .. RowRange[2] + 1
  /\ pc = "outside" => start_row >= Rows

LEMMA RangeInvHolds == Spec => []RangeInv
<1>1. Init => RangeInv
  BY ScreenshotAssumption DEF Init, RangeInv
<1>2. RangeInv /\ [Next]_vars => RangeInv'
  <2> SUFFICES ASSUME RangeInv, [Next]_vars PROVE RangeInv'
    OBVIOUS
  <2>1. /\ RowRange[1] \in 0 .. Rows - 1
        /\ RowRange[2] \in Nat
        /\ RowRange[1] <= RowRange[2]
        /\ RowRange[2] >= Rows => start_row >= Rows
    BY RangeType DEF RangeInv, RowRange
  <2>2. UNCHANGED <<start_row, end_row>> /\ RowRange' = RowRange
    BY DEF Next, Call, Row, Finish, vars, RowRange
  <2>3. CASE Call
    BY <2>1, <2>2, <2>3 DEF Call, RangeInv
  <2>4. CASE Row
    BY <2>1, <2>2, <2>4, ScreenAssumption DEF Row, RangeInv
  <2>5. CASE Finish
    BY <2>1, <2>2, <2>5 DEF Finish, RangeInv
  <2>6. CASE UNCHANGED vars
    BY <2>2, <2>6 DEF vars, RangeInv
  <2> QED
    BY <2>3, <2>4, <2>5, <2>6 DEF Next
<1> QED
  BY <1>1, <1>2, PTL DEF Spec

(* A row outside the buffer is read only for a range that starts below the *)
(* screen ("Validate row ranges", src/screenshot.c).                       *)
THEOREM OnlyLateStartsOverrun == Spec => []OverrunNeedsLateStart
<1>1. RangeInv => OverrunNeedsLateStart
  BY DEF RangeInv, OverrunNeedsLateStart
<1> QED
  BY <1>1, RangeInvHolds, PTL

-----------------------------------------------------------------------------
(* Reading a text back. The loop of a reader and the loop over the cells   *)
(* are recursive functions; induction shows what they compute.             *)

(* Induction over the natural numbers, for a set instead of a predicate.   *)
LEMMA SetInduction ==
  ASSUME NEW S, 0 \in S, \A n \in Nat : n \in S => n + 1 \in S
  PROVE Nat \subseteq S
<1>1. SUFFICES ASSUME Nat \ S # {} PROVE FALSE
  OBVIOUS
<1> DEFINE T == Nat \ S
           R == OpToRel(<, Nat)
<1>2. PICK n \in T : \A y \in T : ~ (<<y, n>> \in R)
  <2>1. IsWellFoundedOn(R, Nat)
    BY NatLessThanWellFounded
  <2>2. T \subseteq Nat /\ T # {}
    BY <1>1
  <2> HIDE DEF T, R
  <2> QED
    BY <2>1, <2>2, WFMin
<1>3. \A y \in T : ~ (y < n)
  BY <1>2 DEF OpToRel
<1>4. n - 1 \in Nat /\ n - 1 < n
  OBVIOUS
<1>5. n - 1 \in S
  BY <1>3, <1>4
<1> QED
  BY <1>5, <1>4

LEMMA BoundedInduction ==
  ASSUME NEW S, NEW m \in Nat, 0 \in S, \A n \in 0 .. m - 1 : n \in S => n + 1 \in S
  PROVE  0 .. m \subseteq S
<1> DEFINE T == {n \in Nat : n <= m => n \in S}
<1>1. 0 \in T
  OBVIOUS
<1>2. \A n \in Nat : n \in T => n + 1 \in T
  OBVIOUS
<1> HIDE DEF T
<1>3. Nat \subseteq T
  BY <1>1, <1>2, SetInduction
<1> QED
  BY <1>3 DEF T

(* The recursive function Reading(s, text) satisfies its equation.         *)
LEMMA ReadingDef ==
  ASSUME NEW s, NEW text, Len(text) \in Nat
  PROVE  Reading(s, text) =
           [n \in 0 .. Len(text) |->
              IF n = 0 THEN s ELSE ReadToken(Reading(s, text)[n - 1], text[n])]
<1> DEFINE Loop(f, m) ==
             f = [n \in 0 .. m |-> IF n = 0 THEN s ELSE ReadToken(f[n - 1], text[n])]
           S == {m \in Nat : \E h : Loop(h, m)}
<1>1. 0 \in S
  <2>1. Loop([n \in 0 .. 0 |-> s], 0)
    OBVIOUS
  <2> QED
    BY <2>1
<1>2. ASSUME NEW m \in Nat, m \in S PROVE m + 1 \in S
  <2>1. PICK f : Loop(f, m)
    BY <1>2
  <2> DEFINE last == ReadToken(f[m], text[m + 1])
             g == [n \in 0 .. m + 1 |-> IF n = m + 1 THEN last ELSE f[n]]
  <2>2. ASSUME NEW n \in 0 .. m + 1
        PROVE  g[n] = IF n = 0 THEN s ELSE ReadToken(g[n - 1], text[n])
    <3>1. \A k \in 0 .. m : g[k] = f[k]
      BY DEF g
    <3>2. CASE n = m + 1
      <4>1. n # 0 /\ n - 1 = m /\ g[n - 1] = f[m]
        BY <3>1, <3>2
      <4> QED
        BY <3>2, <4>1
    <3>3. CASE n # m + 1
      <4>1. n \in 0 .. m
        BY <3>3
      <4>2. n # 0 => n - 1 \in 0 .. m
        BY <4>1
      <4>3. g[n] = f[n] /\ (n # 0 => g[n - 1] = f[n - 1])
        BY <3>1, <4>1, <4>2
      <4> QED
        BY <2>1, <4>1, <4>3
    <3> QED
      BY <3>2, <3>3
  <2>3. Loop(g, m + 1)
    BY <2>2
  <2> HIDE DEF g, Loop
  <2>4. \E h : Loop(h, m + 1)
    BY <2>3
  <2> QED
    BY <2>4
<1> HIDE DEF S
<1>3. Len(text) \in S
  BY <1>1, <1>2, SetInduction
<1>4. \E h : Loop(h, Len(text))
  BY <1>3 DEF S
<1> QED
  BY <1>4 DEF Reading

(* What an output is made of.                                              *)
NoteNames == {"bold", "underline", "reverse", "fg", "bg"}

Token ==
  [token : {"fence", "ch"} \cup NoteNames, n : Int]
    \cup [token : {"footer"}, rows : Int \X Int]

LEMMA ReadingStep ==
  ASSUME NEW s, NEW text \in Seq(Token)
  PROVE  /\ Reading(s, text)[0] = s
         /\ \A n \in 1 .. Len(text) :
              Reading(s, text)[n] = ReadToken(Reading(s, text)[n - 1], text[n])
<1>1. Len(text) \in Nat
  OBVIOUS
<1> DEFINE F == Reading(s, text)
<1>2. F = [n \in 0 .. Len(text) |-> IF n = 0 THEN s ELSE ReadToken(F[n - 1], text[n])]
  BY <1>1, ReadingDef
<1> HIDE DEF F
<1>3. F[0] = s
  BY <1>1, <1>2
<1>4. ASSUME NEW n \in 1 .. Len(text) PROVE F[n] = ReadToken(F[n - 1], text[n])
  BY <1>1, <1>2
<1> QED
  BY <1>3, <1>4 DEF F

LEMMA ReadNothing ==
  ASSUME NEW s
  PROVE  Read(s, <<>>) = s
<1>1. <<>> \in Seq(Token) /\ Len(<<>>) = 0
  OBVIOUS
<1>2. Reading(s, <<>>)[0] = s
  BY <1>1, ReadingStep
<1> QED
  BY <1>1, <1>2 DEF Read

LEMMA ReadOne ==
  ASSUME NEW s, NEW t \in Token
  PROVE  Read(s, <<t>>) = ReadToken(s, t)
<1> DEFINE text == <<t>>
<1>1. text \in Seq(Token) /\ Len(text) = 1 /\ text[1] = t
  OBVIOUS
<1> HIDE DEF text
<1>2. Reading(s, text)[0] = s /\ Reading(s, text)[1] = ReadToken(s, t)
  <2>1. Reading(s, text)[1] = ReadToken(Reading(s, text)[1 - 1], text[1])
    BY <1>1, ReadingStep
  <2> QED
    BY <1>1, <2>1, ReadingStep
<1> QED
  BY <1>1, <1>2 DEF Read, text

(* Reading a text that consists of two.                                    *)
LEMMA ReadConcat ==
  ASSUME NEW s, NEW a \in Seq(Token), NEW b \in Seq(Token)
  PROVE  Read(s, a \o b) = Read(Read(s, a), b)
<1> DEFINE c == a \o b
           x == Len(a)
           y == Len(b)
           F == Reading(s, c)
           G == Reading(s, a)
           H == Reading(Read(s, a), b)
<1>1. /\ x \in Nat /\ y \in Nat
      /\ c \in Seq(Token) /\ Len(c) = x + y
      /\ \A i \in 1 .. x : c[i] = a[i]
      /\ \A i \in 1 .. y : c[x + i] = b[i]
  OBVIOUS
<1>2. /\ F[0] = s /\ \A n \in 1 .. x + y : F[n] = ReadToken(F[n - 1], c[n])
      /\ G[0] = s /\ \A n \in 1 .. x : G[n] = ReadToken(G[n - 1], a[n])
      /\ H[0] = Read(s, a) /\ \A n \in 1 .. y : H[n] = ReadToken(H[n - 1], b[n])
  <2> HIDE DEF c
  <2>1. F[0] = s /\ \A n \in 1 .. Len(c) : F[n] = ReadToken(F[n - 1], c[n])
    BY <1>1, ReadingStep
  <2>2. G[0] = s /\ \A n \in 1 .. x : G[n] = ReadToken(G[n - 1], a[n])
    BY ReadingStep
  <2>3. H[0] = Read(s, a) /\ \A n \in 1 .. y : H[n] = ReadToken(H[n - 1], b[n])
    BY ReadingStep
  <2> QED
    BY <1>1, <2>1, <2>2, <2>3
<1>3. G[x] = Read(s, a) /\ H[y] = Read(Read(s, a), b) /\ F[x + y] = Read(s, c)
  BY <1>1 DEF Read
<1> HIDE DEF c, x, y, F, G, H
<1>4. \A n \in 0 .. x : F[n] = G[n]
  <2> DEFINE S == {n \in 0 .. x : F[n] = G[n]}
  <2>1. 0 \in S
    BY <1>1, <1>2
  <2>2. ASSUME NEW n \in 0 .. x - 1, n \in S PROVE n + 1 \in S
    <3>1. n + 1 \in 1 .. x /\ n + 1 \in 1 .. x + y /\ (n + 1) - 1 = n /\ n + 1 \in 0 .. x
      BY <1>1
    <3>2. F[n] = G[n]
      BY <2>2
    <3> QED
      BY <1>1, <1>2, <3>1, <3>2
  <2> HIDE DEF S
  <2>3. 0 .. x \subseteq S
    BY <1>1, <2>1, <2>2, BoundedInduction
  <2> QED
    BY <2>3 DEF S
<1>5. \A n \in 0 .. y : F[x + n] = H[n]
  <2> DEFINE S == {n \in 0 .. y : F[x + n] = H[n]}
  <2>1. 0 \in S
    <3>1. x \in 0 .. x /\ x + 0 = x
      BY <1>1
    <3> QED
      BY <1>1, <1>2, <1>3, <1>4, <3>1
  <2>2. ASSUME NEW n \in 0 .. y - 1, n \in S PROVE n + 1 \in S
    <3>1. /\ n + 1 \in 1 .. y /\ x + (n + 1) \in 1 .. x + y /\ (n + 1) - 1 = n
          /\ n + 1 \in 0 .. y /\ (x + (n + 1)) - 1 = x + n
      BY <1>1
    <3>2. F[x + n] = H[n]
      BY <2>2
    <3>3. F[x + (n + 1)] = ReadToken(F[x + n], b[n + 1])
      BY <1>1, <1>2, <3>1
    <3>4. H[n + 1] = ReadToken(H[n], b[n + 1])
      BY <1>2, <3>1
    <3> QED
      BY <3>1, <3>2, <3>3, <3>4
  <2> HIDE DEF S
  <2>3. 0 .. y \subseteq S
    BY <1>1, <2>1, <2>2, BoundedInduction
  <2> QED
    BY <2>3 DEF S
<1>6. F[x + y] = H[y]
  BY <1>1, <1>5
<1> QED
  BY <1>3, <1>6 DEF c

-----------------------------------------------------------------------------
(* What a reader makes of each token, and of the pieces of a text.         *)

ReaderAt(at, lines, line, depth, notes, rows) ==
  [lines |-> lines, line |-> line, at |-> at, depth |-> depth, notes |-> notes, rows |-> rows]

Reader(lines, line, depth, notes, rows) == ReaderAt("text", lines, line, depth, notes, rows)

Note(x, k) == [token |-> x, n |-> k]

(* A character as the reader sees it, and the lines of cells.              *)
Seen(c, notes, depth) == [ch |-> c, notes |-> notes, depth |-> depth]

Codes == 32 .. 126
Kinds == [ch : Codes, fg_color : 0 .. 255, bg_color : 0 .. 255, attrs : SUBSET Flags]
Shown == {ShownAs(cell) : cell \in Kinds}

LEMMA ReadTokens ==
  ASSUME NEW L, NEW l, NEW d, NEW N, NEW R
  PROVE  /\ ReadToken(Reader(L, l, d, N, R), EndOfLine) = Reader(Append(L, l), <<>>, d, N, R)
         /\ ReadToken(Reader(L, l, d, N, R), Open) = ReaderAt("marks", L, l, d + 1, {}, R)
         /\ ReadToken(Reader(L, l, d, N, R), Close) = Reader(L, l, d - 1, {}, R)
         /\ ReadToken(Reader(L, l, d, N, R), Fence) = Reader(L, l, d, N, R)
         /\ \A first, last : ReadToken(Reader(L, l, d, N, R), Footer(first, last)) =
                              Reader(L, l, d, N, <<first, last>>)
<1> USE DEF ReadToken, Reader, ReaderAt, EndOfLine, Open, Close, BeginNote, Fence, Str, Chr
<1>1. ReadToken(Reader(L, l, d, N, R), EndOfLine) = Reader(Append(L, l), <<>>, d, N, R)
  OBVIOUS
<1>2. ReadToken(Reader(L, l, d, N, R), Open) = ReaderAt("marks", L, l, d + 1, {}, R)
  <2> DEFINE s == Reader(L, l, d, N, R)
             t == Open
  <2>1. s.at = "text" /\ t.token = "ch" /\ Fence.token = "fence"
    OBVIOUS
  <2>2. t # EndOfLine /\ t # Close /\ t # BeginNote
    OBVIOUS
  <2>3. t # Fence /\ t.token # "footer"
    <3> HIDE DEF t, Fence
    <3> QED
      BY <2>1
  <2>4. [s EXCEPT !.depth = @ + 1, !.notes = {}, !.at = "marks"] = ReaderAt("marks", L, l, d + 1, {}, R)
    <3> DEFINE e == d + 1
    <3>1. s.depth + 1 = e
      OBVIOUS
    <3> HIDE DEF e
    <3> DEFINE s1 == ReaderAt("text", L, l, e, N, R)
               s2 == ReaderAt("text", L, l, e, {}, R)
    <3>2. [s EXCEPT !.depth = e] = s1
      OBVIOUS
    <3>3. [s1 EXCEPT !.notes = {}] = s2
      OBVIOUS
    <3>4. [s2 EXCEPT !.at = "marks"] = ReaderAt("marks", L, l, e, {}, R)
      OBVIOUS
    <3>5. [s EXCEPT !.depth = e, !.notes = {}, !.at = "marks"] =
            [[[s EXCEPT !.depth = e] EXCEPT !.notes = {}] EXCEPT !.at = "marks"]
      <4> HIDE DEF s
      <4> QED
        OBVIOUS
    <3>6. [s EXCEPT !.depth = e, !.notes = {}, !.at = "marks"] = ReaderAt("marks", L, l, e, {}, R)
      <4> HIDE DEF s, s1, s2, ReaderAt, Reader
      <4> QED
        BY <3>2, <3>3, <3>4, <3>5
    <3>7. [s EXCEPT !.depth = @ + 1, !.notes = {}, !.at = "marks"] =
            [s EXCEPT !.depth = e, !.notes = {}, !.at = "marks"]
      <4> HIDE DEF s
      <4> QED
        BY <3>1
    <3> HIDE DEF s
    <3> QED
      BY <3>6, <3>7 DEF e
  <2>5. t = Open
    OBVIOUS
  <2> HIDE DEF s, t, EndOfLine, Open, Close, BeginNote, Fence, Reader, ReaderAt
  <2>6. ReadToken(s, t) = [s EXCEPT !.depth = @ + 1, !.notes = {}, !.at = "marks"]
    BY <2>1, <2>2, <2>3, <2>5
  <2> QED
    BY <2>4, <2>6 DEF s, t
<1>3. ReadToken(Reader(L, l, d, N, R), Close) = Reader(L, l, d - 1, {}, R)
  <2> DEFINE s == Reader(L, l, d, N, R)
             t == Close
  <2>1. s.at = "text" /\ t.token = "ch" /\ Fence.token = "fence"
    OBVIOUS
  <2>2. t # EndOfLine /\ t # Open /\ t # BeginNote
    OBVIOUS
  <2>3. t # Fence /\ t.token # "footer"
    <3> HIDE DEF t, Fence
    <3> QED
      BY <2>1
  <2>4. [s EXCEPT !.depth = @ - 1, !.notes = {}, !.at = "text"] = Reader(L, l, d - 1, {}, R)
    <3> DEFINE e == d - 1
    <3>1. s.depth - 1 = e
      OBVIOUS
    <3> HIDE DEF e
    <3> DEFINE s1 == ReaderAt("text", L, l, e, N, R)
               s2 == ReaderAt("text", L, l, e, {}, R)
    <3>2. [s EXCEPT !.depth = e] = s1
      OBVIOUS
    <3>3. [s1 EXCEPT !.notes = {}] = s2
      OBVIOUS
    <3>4. [s2 EXCEPT !.at = "text"] = ReaderAt("text", L, l, e, {}, R)
      OBVIOUS
    <3>5. [s EXCEPT !.depth = e, !.notes = {}, !.at = "text"] =
            [[[s EXCEPT !.depth = e] EXCEPT !.notes = {}] EXCEPT !.at = "text"]
      <4> HIDE DEF s
      <4> QED
        OBVIOUS
    <3>6. [s EXCEPT !.depth = e, !.notes = {}, !.at = "text"] = ReaderAt("text", L, l, e, {}, R)
      <4> HIDE DEF s, s1, s2, ReaderAt, Reader
      <4> QED
        BY <3>2, <3>3, <3>4, <3>5
    <3>7. [s EXCEPT !.depth = @ - 1, !.notes = {}, !.at = "text"] =
            [s EXCEPT !.depth = e, !.notes = {}, !.at = "text"]
      <4> HIDE DEF s
      <4> QED
        BY <3>1
    <3> HIDE DEF s
    <3> QED
      BY <3>6, <3>7 DEF e
  <2>5. t = Close
    OBVIOUS
  <2> HIDE DEF s, t, EndOfLine, Open, Close, BeginNote, Fence, Reader, ReaderAt
  <2>6. ReadToken(s, t) = [s EXCEPT !.depth = @ - 1, !.notes = {}, !.at = "text"]
    BY <2>1, <2>2, <2>3, <2>5
  <2> QED
    BY <2>4, <2>6 DEF s, t
<1>4. ReadToken(Reader(L, l, d, N, R), Fence) = Reader(L, l, d, N, R)
  <2> DEFINE s == Reader(L, l, d, N, R)
  <2>1. Fence.token = "fence"
    OBVIOUS
  <2>2. EndOfLine.token = "ch" /\ Open.token = "ch" /\ Close.token = "ch" /\ BeginNote.token = "ch"
    OBVIOUS
  <2>3. s.at = "text"
    OBVIOUS
  <2>4. Fence # EndOfLine /\ Fence # Open /\ Fence # Close /\ Fence # BeginNote
    <3> HIDE DEF EndOfLine, Open, Close, BeginNote, Fence
    <3> QED
      BY <2>1, <2>2
  <2> HIDE DEF s, EndOfLine, Open, Close, BeginNote, Fence
  <2> QED
    BY <2>1, <2>3, <2>4
<1>5. ASSUME NEW first, NEW last
      PROVE  ReadToken(Reader(L, l, d, N, R), Footer(first, last)) =
               Reader(L, l, d, N, <<first, last>>)
  <2> DEFINE s == Reader(L, l, d, N, R)
             t == Footer(first, last)
  <2>1. t.token = "footer" /\ t.rows = <<first, last>>
    BY DEF Footer
  <2>2. /\ EndOfLine.token = "ch" /\ Open.token = "ch" /\ Close.token = "ch"
        /\ BeginNote.token = "ch" /\ Fence.token = "fence"
    OBVIOUS
  <2>3. s.at = "text"
    OBVIOUS
  <2>4. t # EndOfLine /\ t # Open /\ t # Close /\ t # BeginNote /\ t # Fence
    <3> HIDE DEF t, EndOfLine, Open, Close, BeginNote, Fence
    <3> QED
      BY <2>1, <2>2
  <2>5. [s EXCEPT !.rows = t.rows] = Reader(L, l, d, N, <<first, last>>)
    BY <2>1
  <2> HIDE DEF s, t, EndOfLine, Open, Close, BeginNote, Fence, Reader, ReaderAt
  <2>6. ReadToken(s, t) = [s EXCEPT !.rows = t.rows]
    BY <2>1, <2>3, <2>4
  <2> QED
    BY <2>5, <2>6 DEF s, t
<1> QED
  BY <1>1, <1>2, <1>3, <1>4, <1>5

LEMMA ReadNoteMarks ==
  ASSUME NEW L, NEW l, NEW d, NEW N, NEW R
  PROVE  /\ ReadToken(ReaderAt("marks", L, l, d, N, R), BeginNote) =
              ReaderAt("note", L, l, d, N, R)
         /\ ReadToken(ReaderAt("note", L, l, d, N, R), EndNote) =
              ReaderAt("marks", L, l, d, N, R)
<1> USE DEF ReadToken, ReadNote, ReaderAt, EndOfLine, BeginNote, EndNote, Chr
<1>1. ReadToken(ReaderAt("marks", L, l, d, N, R), BeginNote) = ReaderAt("note", L, l, d, N, R)
  BY DEF Open, Close, Fence, Str
<1>2. ReadToken(ReaderAt("note", L, l, d, N, R), EndNote) = ReaderAt("marks", L, l, d, N, R)
  OBVIOUS
<1> QED
  BY <1>1, <1>2

LEMMA ReadWord ==
  ASSUME NEW L, NEW l, NEW d, NEW N, NEW R, NEW x \in NoteNames, NEW k
  PROVE  ReadToken(ReaderAt("note", L, l, d, N, R), Note(x, k)) =
           ReaderAt("note", L, l, d, N \cup {<<x, k>>}, R)
BY DEF ReadToken, ReadNote, ReaderAt, EndOfLine, EndNote, Chr, Note, NoteNames

(* The places of a reader at which character c is not taken for a mark.   *)
Literal(at, c) ==
  /\ at \in {"text", "marks"}
  /\ Chr(c) \notin {Open, Close}
  /\ at = "marks" => Chr(c) # BeginNote

(* A character and its escape add one character to the line.               *)
LEMMA CharReads ==
  ASSUME NEW at, NEW L, NEW l \in Seq(Shown), NEW d, NEW N, NEW R, NEW c \in Codes,
         Literal(at, c)
  PROVE  /\ EscapedChar(c) \in Seq(Token)
         /\ Read(ReaderAt(at, L, l, d, N, R), EscapedChar(c)) =
              Reader(L, Append(l, Seen(c, N, d)), d, N, R)
<1> DEFINE s == ReaderAt(at, L, l, d, N, R)
           Y == Shown \cup {Seen(c, N, d), Seen(Backslash, N, d)}
<1>0. c \in Int /\ c # 10
  BY DEF Codes
<1>1. ASSUME NEW k \in Int, k # Backtick, k # 10, Literal(at, k)
      PROVE  ReadToken(s, Chr(k)) = Reader(L, l \o <<Seen(k, N, d)>>, d, N, R)
  <2>1. /\ s.at = at /\ at # "note"
        /\ Chr(k) # EndOfLine /\ Chr(k) # Open /\ Chr(k) # Close /\ Chr(k) # Fence
        /\ ~ (Chr(k) = BeginNote /\ s.at = "marks")
        /\ Chr(k).token # "footer" /\ Chr(k).n = k
    BY <1>1 DEF Literal, ReaderAt, Chr, EndOfLine, Fence, Str
  <2> HIDE DEF s
  <2>2. ReadToken(s, Chr(k)) = ReadChar(s, k)
    BY <2>1 DEF ReadToken
  <2>3. ReadChar(s, k) = Reader(L, l \o <<Seen(k, N, d)>>, d, N, R)
    <3>1. s.line = l /\ s.notes = N /\ s.depth = d
      BY DEF s, ReaderAt
    <3>2. ReadChar(s, k) = [s EXCEPT !.line = l \o <<Seen(k, N, d)>>, !.at = "text"]
      BY <1>1, <3>1 DEF ReadChar, Seen
    <3> QED
      BY <3>2 DEF s, Reader, ReaderAt
  <2> QED
    BY <2>2, <2>3
<1>2. l \in Seq(Y) /\ Len(l) \in Nat
  OBVIOUS
<1>3. \A k \in Int : Chr(k) \in Token
  BY DEF Chr, Token
<1>4. CASE c # Backtick
  <2>1. EscapedChar(c) = <<Chr(c)>>
    BY <1>4 DEF EscapedChar
  <2>2. Append(l, Seen(c, N, d)) = l \o <<Seen(c, N, d)>>
    BY <1>2, AppendIsConcat
  <2> QED
    BY <1>0, <1>1, <1>3, <1>4, <2>1, <2>2, ReadOne
<1>5. CASE c = Backtick
  <2> DEFINE m == Append(l, Seen(Backslash, N, d))
             u == Reader(L, m, d, N, R)
             a == <<Chr(Backslash)>>
             b == <<Chr(c)>>
  <2>1. EscapedChar(c) = a \o b
    BY <1>5 DEF EscapedChar
  <2>2. a \in Seq(Token) /\ b \in Seq(Token)
    BY <1>0, <1>3 DEF Backslash
  <2>3. Read(s, a) = u
    <3>1. m = l \o <<Seen(Backslash, N, d)>>
      BY <1>2, AppendIsConcat
    <3>2. /\ Backslash \in Int /\ Backslash # Backtick /\ Backslash # 10
          /\ Literal(at, Backslash)
      BY DEF Backslash, Backtick, Literal, Chr, Open, Close, BeginNote
    <3> QED
      BY <1>1, <1>3, <3>1, <3>2, ReadOne
  <2>4. /\ Len(m) = Len(l) + 1
        /\ m[Len(m)] = Seen(Backslash, N, d)
        /\ SubSeq(m, 1, Len(m) - 1) = l
    BY <1>2
  <2>5. ReadToken(u, Chr(c)) = Reader(L, l \o <<Seen(c, N, d)>>, d, N, R)
    <3> HIDE DEF m
    <3>1. Len(m) > 0 /\ m[Len(m)].ch = Backslash
      BY <1>2, <2>4 DEF Seen
    <3> QED
      <4>1. /\ u.at = "text"
            /\ Chr(c) # EndOfLine /\ Chr(c) # Open /\ Chr(c) # Close /\ Chr(c) # Fence
            /\ Chr(c).token # "footer" /\ Chr(c).n = c
        BY <1>5 DEF Backtick, Reader, ReaderAt, Chr, EndOfLine, Open, Close, Fence, Str
      <4>2. u.line = m /\ u.notes = N /\ u.depth = d
        BY DEF Reader, ReaderAt
      <4>3. ReadToken(u, Chr(c)) = ReadChar(u, c)
        <5> HIDE DEF u
        <5> QED
          BY <4>1 DEF ReadToken
      <4>4. ReadChar(u, c) = [u EXCEPT !.line = l \o <<Seen(c, N, d)>>, !.at = "text"]
        <5> HIDE DEF u
        <5> QED
          BY <1>5, <2>4, <3>1, <4>2 DEF ReadChar, Seen
      <4> QED
        BY <4>3, <4>4 DEF Reader, ReaderAt
  <2>6. Append(l, Seen(c, N, d)) = l \o <<Seen(c, N, d)>>
    BY <1>2, AppendIsConcat
  <2>7. Read(u, b) = ReadToken(u, Chr(c))
    BY <1>0, <1>3, ReadOne
  <2> HIDE DEF a, b, u, s
  <2>8. Read(s, EscapedChar(c)) = Read(u, b)
    BY <2>1, <2>2, <2>3, ReadConcat
  <2>9. EscapedChar(c) \in Seq(Token)
    BY <2>1, <2>2, ConcatProperties
  <2> QED
    BY <2>5, <2>6, <2>7, <2>8, <2>9 DEF s
<1> QED
  BY <1>4, <1>5

(* A text of two tokens.                                                   *)
LEMMA PairIsConcat ==
  ASSUME NEW x, NEW y
  PROVE  <<x, y>> = <<x>> \o <<y>>
<1> DEFINE a == <<x, y>>
           c == <<x>> \o <<y>>
<1>1. a \in Seq({x, y}) /\ Len(a) = 2 /\ a[1] = x /\ a[2] = y
  OBVIOUS
<1>2. c \in Seq({x, y}) /\ Len(c) = 2 /\ c[1] = x /\ c[2] = y
  OBVIOUS
<1> HIDE DEF a, c
<1>3. \A i \in 1 .. Len(a) : a[i] = c[i]
  BY <1>1, <1>2
<1>4. a = c
  BY <1>1, <1>2, <1>3, SeqEqual
<1> QED
  BY <1>4 DEF a, c

(* An annotation that is there or not, and what it adds.                   *)
Noted(x, k) == <<BeginNote, Note(x, k), EndNote>>

OptionalNote(text, notes, x, k) ==
  \/ text = Noted(x, k) /\ notes = {<<x, k>>}
  \/ text = <<>> /\ notes = {}

LEMMA NoteReads ==
  ASSUME NEW L, NEW l, NEW d, NEW N, NEW R, NEW x \in NoteNames, NEW k \in Int,
         NEW text, NEW notes, OptionalNote(text, notes, x, k)
  PROVE  /\ text \in Seq(Token)
         /\ Read(ReaderAt("marks", L, l, d, N, R), text) =
              ReaderAt("marks", L, l, d, N \cup notes, R)
<1> DEFINE a == <<BeginNote>>
           b == <<Note(x, k)>>
           c == <<EndNote>>
           s == ReaderAt("marks", L, l, d, N, R)
           s1 == ReaderAt("note", L, l, d, N, R)
           s2 == ReaderAt("note", L, l, d, N \cup {<<x, k>>}, R)
           s3 == ReaderAt("marks", L, l, d, N \cup {<<x, k>>}, R)
<1>1. BeginNote \in Token /\ Note(x, k) \in Token /\ EndNote \in Token
  BY DEF BeginNote, EndNote, Chr, Note, Token
<1>2. a \in Seq(Token) /\ Read(s, a) = s1
  <2>1. ReadToken(s, BeginNote) = s1
    BY ReadNoteMarks
  <2>2. Read(s, a) = ReadToken(s, BeginNote)
    BY <1>1, ReadOne
  <2> QED
    BY <1>1, <2>1, <2>2
<1>3. b \in Seq(Token) /\ Read(s1, b) = s2
  <2>1. ReadToken(s1, Note(x, k)) = s2
    BY ReadWord
  <2>2. Read(s1, b) = ReadToken(s1, Note(x, k))
    BY <1>1, ReadOne
  <2> QED
    BY <1>1, <2>1, <2>2
<1>4. c \in Seq(Token) /\ Read(s2, c) = s3
  <2>1. ReadToken(s2, EndNote) = s3
    BY ReadNoteMarks
  <2>2. Read(s2, c) = ReadToken(s2, EndNote)
    BY <1>1, ReadOne
  <2> QED
    BY <1>1, <2>1, <2>2
<1>5. Noted(x, k) = a \o b \o c
  <2> DEFINE p == <<BeginNote, Note(x, k)>>
  <2>1. p \in Seq(Token)
    BY <1>1
  <2>2. Noted(x, k) = Append(p, EndNote)
    BY DEF Noted
  <2>3. p = a \o b
    BY PairIsConcat
  <2> HIDE DEF p
  <2>4. Append(p, EndNote) = p \o c
    BY <2>1, AppendIsConcat
  <2> QED
    BY <2>2, <2>3, <2>4
<1>6. CASE text = Noted(x, k) /\ notes = {<<x, k>>}
  <2> HIDE DEF a, b, c, s1, s2, s3, s
  <2>1. a \o b \in Seq(Token) /\ Read(s, a \o b) = s2
    BY <1>2, <1>3, ReadConcat, ConcatProperties
  <2>2. a \o b \o c \in Seq(Token) /\ Read(s, a \o b \o c) = s3
    BY <1>4, <2>1, ReadConcat, ConcatProperties
  <2>3. text \in Seq(Token) /\ Read(s, text) = s3
    BY <1>5, <1>6, <2>2
  <2> QED
    BY <1>6, <2>3 DEF s, s3
<1>7. CASE text = <<>> /\ notes = {}
  BY <1>7, ReadNothing
<1> QED
  BY <1>6, <1>7 DEF OptionalNote

Styles == [fg_color : 0 .. 255, bg_color : 0 .. 255, attrs : SUBSET Flags]

(* The annotations of a style, read one after the other.                   *)
LEMMA ReadHints ==
  ASSUME NEW L, NEW l, NEW d, NEW R, NEW style \in Styles
  PROVE  /\ Hints(style) \in Seq(Token)
         /\ Read(ReaderAt("marks", L, l, d, {}, R), Hints(style)) =
              ReaderAt("marks", L, l, d, Notes(style), R)
<1> DEFINE fg == ColorName(style.fg_color)
           bg == ColorName(style.bg_color)
           Piece(c, x, k) == IF c THEN Noted(x, k) ELSE <<>>
           Added(c, x, k) == IF c THEN {<<x, k>>} ELSE {}
           h1 == Piece("bold" \in style.attrs, "bold", 0)
           h2 == Piece("underline" \in style.attrs, "underline", 0)
           h3 == Piece("reverse" \in style.attrs, "reverse", 0)
           h4 == Piece(style.fg_color # 7, "fg", fg)
           h5 == Piece(style.bg_color # 0, "bg", bg)
           n1 == Added("bold" \in style.attrs, "bold", 0)
           n2 == Added("underline" \in style.attrs, "underline", 0)
           n3 == Added("reverse" \in style.attrs, "reverse", 0)
           n4 == Added(style.fg_color # 7, "fg", fg)
           n5 == Added(style.bg_color # 0, "bg", bg)
           s0 == ReaderAt("marks", L, l, d, {}, R)
           s1 == ReaderAt("marks", L, l, d, {} \cup n1, R)
           s2 == ReaderAt("marks", L, l, d, ({} \cup n1) \cup n2, R)
           s3 == ReaderAt("marks", L, l, d, (({} \cup n1) \cup n2) \cup n3, R)
           s4 == ReaderAt("marks", L, l, d, ((({} \cup n1) \cup n2) \cup n3) \cup n4, R)
           s5 == ReaderAt("marks", L, l, d, (((({} \cup n1) \cup n2) \cup n3) \cup n4) \cup n5, R)
<1>1. /\ fg \in Int /\ bg \in Int /\ 0 \in Int
      /\ "bold" \in NoteNames /\ "underline" \in NoteNames /\ "reverse" \in NoteNames
      /\ "fg" \in NoteNames /\ "bg" \in NoteNames
  BY DEF Styles, ColorName, NoteNames
<1>2. Hints(style) = h1 \o h2 \o h3 \o h4 \o h5
  BY DEF Hints, Str, Note, Noted
<1>3. Notes(style) = (((({} \cup n1) \cup n2) \cup n3) \cup n4) \cup n5
  <2>1. style.attrs \ {"blink"} \subseteq {"bold", "underline", "reverse"}
    BY DEF Styles, Flags
  <2>2. {<<f, 0>> : f \in style.attrs \ {"blink"}} = n1 \cup n2 \cup n3
    BY <2>1
  <2>3. {<<"fg", ColorName(c)>> : c \in {style.fg_color} \ {7}} = n4
    OBVIOUS
  <2>4. {<<"bg", ColorName(c)>> : c \in {style.bg_color} \ {0}} = n5
    OBVIOUS
  <2> HIDE DEF n1, n2, n3, n4, n5
  <2> QED
    BY <2>2, <2>3, <2>4 DEF Notes
<1>4. /\ OptionalNote(h1, n1, "bold", 0)
      /\ OptionalNote(h2, n2, "underline", 0)
      /\ OptionalNote(h3, n3, "reverse", 0)
      /\ OptionalNote(h4, n4, "fg", fg)
      /\ OptionalNote(h5, n5, "bg", bg)
  BY DEF OptionalNote
<1> HIDE DEF h1, h2, h3, h4, h5, n1, n2, n3, n4, n5, fg, bg
<1>5. h1 \in Seq(Token) /\ Read(s0, h1) = s1
  BY <1>1, <1>4, NoteReads
<1>6. h2 \in Seq(Token) /\ Read(s1, h2) = s2
  BY <1>1, <1>4, NoteReads
<1>7. h3 \in Seq(Token) /\ Read(s2, h3) = s3
  BY <1>1, <1>4, NoteReads
<1>8. h4 \in Seq(Token) /\ Read(s3, h4) = s4
  <2> DEFINE N == (({} \cup n1) \cup n2) \cup n3
  <2>1. s3 = ReaderAt("marks", L, l, d, N, R) /\ s4 = ReaderAt("marks", L, l, d, N \cup n4, R)
    OBVIOUS
  <2> HIDE DEF N, s3, s4
  <2>2. h4 \in Seq(Token)
    BY <1>1, <1>4, NoteReads
  <2>3. Read(ReaderAt("marks", L, l, d, N, R), h4) = ReaderAt("marks", L, l, d, N \cup n4, R)
    BY <1>1, <1>4, NoteReads
  <2> QED
    BY <2>1, <2>2, <2>3
<1>9. h5 \in Seq(Token) /\ Read(s4, h5) = s5
  BY <1>1, <1>4, NoteReads
<1>10. s5 = ReaderAt("marks", L, l, d, Notes(style), R)
  BY <1>3
<1> HIDE DEF s0, s1, s2, s3, s4, s5
<1>11. h1 \o h2 \in Seq(Token) /\ Read(s0, h1 \o h2) = s2
  BY <1>5, <1>6, ReadConcat, ConcatProperties
<1>12. h1 \o h2 \o h3 \in Seq(Token) /\ Read(s0, h1 \o h2 \o h3) = s3
  BY <1>7, <1>11, ReadConcat, ConcatProperties
<1>13. h1 \o h2 \o h3 \o h4 \in Seq(Token) /\ Read(s0, h1 \o h2 \o h3 \o h4) = s4
  BY <1>8, <1>12, ReadConcat, ConcatProperties
<1>14. /\ h1 \o h2 \o h3 \o h4 \o h5 \in Seq(Token)
       /\ Read(s0, h1 \o h2 \o h3 \o h4 \o h5) = s5
  BY <1>9, <1>13, ReadConcat, ConcatProperties
<1> QED
  BY <1>2, <1>10, <1>14 DEF s0

-----------------------------------------------------------------------------
(* Printing a row.                                                         *)

(* What the loop over the cells keeps up: a section is open exactly while  *)
(* the style is not the default one.                                       *)
PrintOK(p) ==
  /\ p.text \in Seq(Token)
  /\ p.style \in Styles
  /\ p.in_styled_section <=> p.style # DefaultAttrs

LEMMA DefaultStyle ==
  /\ DefaultAttrs \in Styles
  /\ Notes(DefaultAttrs) = {}
  /\ Depth(DefaultAttrs) = 0
<1>1. DefaultAttrs.attrs = {} /\ DefaultAttrs.fg_color = 7 /\ DefaultAttrs.bg_color = 0
  BY DEF DefaultAttrs
<1>2. Notes(DefaultAttrs) = {}
  BY <1>1 DEF Notes
<1> QED
  BY <1>2 DEF DefaultAttrs, Styles, Depth

LEMMA ReadSection ==
  ASSUME NEW L, NEW l, NEW N, NEW R
  PROVE  /\ <<Open>> \in Seq(Token) /\ <<Close>> \in Seq(Token)
         /\ Read(Reader(L, l, 1, N, R), <<Close>>) = Reader(L, l, 0, {}, R)
         /\ Read(Reader(L, l, 0, N, R), <<Open>>) = ReaderAt("marks", L, l, 1, {}, R)
<1>1. Open \in Token /\ Close \in Token
  BY DEF Open, Close, Chr, Token
<1>2. Read(Reader(L, l, 1, N, R), <<Close>>) = ReadToken(Reader(L, l, 1, N, R), Close)
  BY <1>1, ReadOne
<1>3. Read(Reader(L, l, 0, N, R), <<Open>>) = ReadToken(Reader(L, l, 0, N, R), Open)
  BY <1>1, ReadOne
<1>4. ReadToken(Reader(L, l, 1, N, R), Close) = Reader(L, l, 1 - 1, {}, R)
  BY ReadTokens
<1>5. ReadToken(Reader(L, l, 0, N, R), Open) = ReaderAt("marks", L, l, 0 + 1, {}, R)
  BY ReadTokens
<1>6. 1 - 1 = 0 /\ 0 + 1 = 1
  OBVIOUS
<1>7. <<Open>> \in Seq(Token) /\ <<Close>> \in Seq(Token)
  BY <1>1
<1> QED
  BY <1>2, <1>3, <1>4, <1>5, <1>6, <1>7

(* The text between two cells of different styles.                         *)
Closing(style) == IF style # DefaultAttrs THEN <<Close>> ELSE <<>>
Opening(style) == IF style # DefaultAttrs THEN <<Open>> \o Hints(style) ELSE <<>>

LEMMA ReadClosing ==
  ASSUME NEW L, NEW l, NEW R, NEW style
  PROVE  /\ Closing(style) \in Seq(Token)
         /\ Read(Reader(L, l, Depth(style), Notes(style), R), Closing(style)) =
              Reader(L, l, 0, {}, R)
<1>1. CASE style # DefaultAttrs
  <2>1. Closing(style) = <<Close>> /\ Depth(style) = 1
    BY <1>1 DEF Closing, Depth
  <2> QED
    BY <2>1, ReadSection
<1>2. CASE style = DefaultAttrs
  <2>1. Closing(style) = <<>> /\ Depth(style) = 0 /\ Notes(style) = {}
    BY <1>2, DefaultStyle DEF Closing
  <2>2. <<>> \in Seq(Token)
    OBVIOUS
  <2> QED
    BY <2>1, <2>2, ReadNothing
<1> QED
  BY <1>1, <1>2

(* Where the reader is before the first cell of a style.                   *)
Beginning(style) == IF style = DefaultAttrs THEN "text" ELSE "marks"

LEMMA ReadOpening ==
  ASSUME NEW L, NEW l, NEW R, NEW style \in Styles
  PROVE  /\ Opening(style) \in Seq(Token)
         /\ Read(Reader(L, l, 0, {}, R), Opening(style)) =
              ReaderAt(Beginning(style), L, l, Depth(style), Notes(style), R)
<1>1. CASE style # DefaultAttrs
  <2>1. /\ Opening(style) = <<Open>> \o Hints(style)
        /\ Depth(style) = 1 /\ Beginning(style) = "marks"
    BY <1>1 DEF Opening, Depth, Beginning
  <2>2. /\ <<Open>> \in Seq(Token)
        /\ Read(Reader(L, l, 0, {}, R), <<Open>>) = ReaderAt("marks", L, l, 1, {}, R)
    BY ReadSection
  <2>3. /\ Hints(style) \in Seq(Token)
        /\ Read(ReaderAt("marks", L, l, 1, {}, R), Hints(style)) =
             ReaderAt("marks", L, l, 1, Notes(style), R)
    BY ReadHints
  <2>4. <<Open>> \o Hints(style) \in Seq(Token)
    BY <2>2, <2>3, ConcatProperties
  <2>5. Read(Reader(L, l, 0, {}, R), <<Open>> \o Hints(style)) =
          Read(Read(Reader(L, l, 0, {}, R), <<Open>>), Hints(style))
    BY <2>2, <2>3, ReadConcat
  <2> QED
    BY <2>1, <2>2, <2>3, <2>4, <2>5
<1>2. CASE style = DefaultAttrs
  <2>1. /\ Opening(style) = <<>> /\ Depth(style) = 0 /\ Notes(style) = {}
        /\ Beginning(style) = "text"
    BY <1>2, DefaultStyle DEF Opening, Beginning
  <2>2. <<>> \in Seq(Token)
    OBVIOUS
  <2> QED
    BY <2>1, <2>2, ReadNothing DEF Reader
<1> QED
  BY <1>1, <1>2

(* A line with one cell more.                                              *)
Longer(line, cell) == Append(line, ShownAs(cell))

(* A reader that started in state s and has read the text of p is in the   *)
(* line l, in the section of p's style.                                    *)
Reached(s, p, L, l, R) ==
  /\ PrintOK(p)
  /\ Read(s, p.text) = Reader(L, l, Depth(p.style), Notes(p.style), R)

(* The text of one cell takes a reader that knows the style so far to one  *)
(* that knows the style of the cell, with one more character.              *)
LEMMA PrintCellReads ==
  ASSUME NEW p, NEW cell \in Kinds, NEW s, NEW L, NEW l \in Seq(Shown), NEW R,
         Reached(s, p, L, l, R), ReadsAsItself(cell)
  PROVE  Reached(s, PrintCell(p, cell), L, Longer(l, cell), R)
<1> DEFINE style == Style(cell)
           q == PrintCell(p, cell)
           char == EscapedChar(cell.ch)
           s0 == Reader(L, l, Depth(p.style), Notes(p.style), R)
           s1 == Reader(L, l, 0, {}, R)
           s2 == ReaderAt(Beginning(style), L, l, Depth(style), Notes(style), R)
           s3 == Reader(L, Longer(l, cell), Depth(style), Notes(style), R)
<1>0. PrintOK(p) /\ Read(s, p.text) = s0
  BY DEF Reached
<1>1. style \in Styles /\ cell.ch \in Codes
  BY DEF Kinds, Codes, Styles, Style
<1>2. q.style = style /\ (q.in_styled_section <=> style # DefaultAttrs)
  BY <1>0 DEF PrintCell, PrintOK
<1>3. p.text \in Seq(Token) /\ Read(s, p.text) = s0
  BY <1>0 DEF PrintOK
<1>4. /\ char \in Seq(Token) /\ Read(s2, char) = s3
      /\ style = p.style => Read(s0, char) = s3
  <2>1. ShownAs(cell) = Seen(cell.ch, Notes(style), Depth(style))
    BY DEF ShownAs, Seen
  <2>2. Literal("text", cell.ch) /\ Literal(Beginning(style), cell.ch)
    BY DEF Literal, Beginning, ReadsAsItself
  <2> HIDE DEF style
  <2>3. ASSUME NEW at, Literal(at, cell.ch)
        PROVE  /\ EscapedChar(cell.ch) \in Seq(Token)
               /\ Read(ReaderAt(at, L, l, Depth(style), Notes(style), R), EscapedChar(cell.ch)) =
                    Reader(L, Append(l, Seen(cell.ch, Notes(style), Depth(style))),
                           Depth(style), Notes(style), R)
    BY <1>1, <2>3, CharReads
  <2>4. Longer(l, cell) = Append(l, Seen(cell.ch, Notes(style), Depth(style)))
    BY <2>1 DEF Longer
  <2>5. style = p.style => s0 = ReaderAt("text", L, l, Depth(style), Notes(style), R)
    BY DEF Reader
  <2> QED
    BY <2>2, <2>3, <2>4, <2>5
<1> DEFINE text == p.text
           close == Closing(p.style)
           open == Opening(style)
<1>5. close \in Seq(Token) /\ Read(s0, close) = s1
  BY ReadClosing
<1>6. open \in Seq(Token) /\ Read(s1, open) = s2
  BY <1>1, ReadOpening
<1>7. \/ q.text = text \o char /\ style = p.style
      \/ q.text = text \o close \o open \o char
  <2>1. CASE style = p.style
    <3>1. q.text = text \o <<>> \o <<>> \o char
      BY <2>1 DEF PrintCell
    <3>2. text \o <<>> = text
      BY <1>3
    <3> QED
      BY <2>1, <3>1, <3>2
  <2>2. CASE style # p.style
    BY <1>0, <2>2 DEF PrintCell, PrintOK, Closing, Opening
  <2> QED
    BY <2>1, <2>2
<1>8. text \in Seq(Token) /\ Read(s, text) = s0
  BY <1>3
<1> HIDE DEF q, style, char, text, close, open, s0, s1, s2, s3
<1>9. text \o close \in Seq(Token) /\ Read(s, text \o close) = s1
  BY <1>5, <1>8, ReadConcat, ConcatProperties
<1>10. text \o close \o open \in Seq(Token) /\ Read(s, text \o close \o open) = s2
  BY <1>6, <1>9, ReadConcat, ConcatProperties
<1>11. /\ text \o close \o open \o char \in Seq(Token)
       /\ Read(s, text \o close \o open \o char) = s3
  BY <1>4, <1>10, ReadConcat, ConcatProperties
<1>12. style = p.style => text \o char \in Seq(Token) /\ Read(s, text \o char) = s3
  BY <1>4, <1>8, ReadConcat, ConcatProperties
<1>13. q.text \in Seq(Token) /\ Read(s, q.text) = s3
  BY <1>7, <1>11, <1>12
<1>14. PrintOK(q)
  BY <1>1, <1>2, <1>13 DEF PrintOK
<1> QED
  BY <1>2, <1>13, <1>14 DEF Reached, q, s3

(* The recursive function CellLoop(r) satisfies its equation.              *)
FirstPrint == [text |-> <<>>, style |-> DefaultAttrs, in_styled_section |-> FALSE]

LEMMA CellLoopDef ==
  ASSUME NEW r
  PROVE  CellLoop(r) =
           [n \in 0 .. Cols |->
              IF n = 0 THEN FirstPrint
              ELSE PrintCell(CellLoop(r)[n - 1], buffer[Index(r, n - 1)])]
<1> DEFINE Loop(f, m) ==
             f = [n \in 0 .. m |->
                    IF n = 0 THEN FirstPrint
                    ELSE PrintCell(f[n - 1], buffer[Index(r, n - 1)])]
           S == {m \in Nat : \E h : Loop(h, m)}
<1>1. 0 \in S
  <2>1. Loop([n \in 0 .. 0 |-> FirstPrint], 0)
    OBVIOUS
  <2> QED
    BY <2>1
<1>2. ASSUME NEW m \in Nat, m \in S PROVE m + 1 \in S
  <2>1. PICK f : Loop(f, m)
    BY <1>2
  <2> DEFINE last == PrintCell(f[m], buffer[Index(r, m)])
             g == [n \in 0 .. m + 1 |-> IF n = m + 1 THEN last ELSE f[n]]
  <2>2. ASSUME NEW n \in 0 .. m + 1
        PROVE  g[n] = IF n = 0 THEN FirstPrint
                      ELSE PrintCell(g[n - 1], buffer[Index(r, n - 1)])
    <3>1. \A k \in 0 .. m : g[k] = f[k]
      BY DEF g
    <3>2. CASE n = m + 1
      <4>1. n # 0 /\ n - 1 = m /\ g[n - 1] = f[m]
        BY <3>1, <3>2
      <4> QED
        BY <3>2, <4>1
    <3>3. CASE n # m + 1
      <4>1. n \in 0 .. m
        BY <3>3
      <4>2. n # 0 => n - 1 \in 0 .. m
        BY <4>1
      <4>3. g[n] = f[n] /\ (n # 0 => g[n - 1] = f[n - 1])
        BY <3>1, <4>1, <4>2
      <4> QED
        BY <2>1, <4>1, <4>3
    <3> QED
      BY <3>2, <3>3
  <2>3. Loop(g, m + 1)
    BY <2>2
  <2> HIDE DEF g, Loop
  <2>4. \E h : Loop(h, m + 1)
    BY <2>3
  <2> QED
    BY <2>4
<1> HIDE DEF S
<1>3. Cols \in S
  BY <1>1, <1>2, SetInduction, ScreenAssumption
<1>4. \E h : Loop(h, Cols)
  BY <1>3 DEF S
<1> QED
  BY <1>4 DEF CellLoop, FirstPrint

LEMMA CellLoopStep ==
  ASSUME NEW r
  PROVE  /\ CellLoop(r)[0] = FirstPrint
         /\ \A n \in 1 .. Cols :
              CellLoop(r)[n] = PrintCell(CellLoop(r)[n - 1], buffer[Index(r, n - 1)])
<1> DEFINE F == CellLoop(r)
<1>1. F = [n \in 0 .. Cols |-> IF n = 0 THEN FirstPrint
                               ELSE PrintCell(F[n - 1], buffer[Index(r, n - 1)])]
  BY CellLoopDef
<1> HIDE DEF F
<1>2. Cols \in Nat
  BY ScreenAssumption
<1>3. F[0] = FirstPrint
  BY <1>1, <1>2
<1>4. ASSUME NEW n \in 1 .. Cols
      PROVE  F[n] = PrintCell(F[n - 1], buffer[Index(r, n - 1)])
  BY <1>1, <1>2
<1> QED
  BY <1>3, <1>4 DEF F

LEMMA CellOfRow ==
  ASSUME NEW r \in 0 .. Rows - 1, NEW col \in 0 .. Cols - 1,
         buffer \in [Cells -> CellKinds]
  PROVE  buffer[Index(r, col)] \in Kinds
<1>1. Rows \in Nat \ {0} /\ Cols \in Nat \ {0}
  BY ScreenAssumption
<1>2. \A a, b \in Nat : a <= b => a * Cols <= b * Cols
  BY <1>1
<1>3. r * Cols <= (Rows - 1) * Cols
  BY <1>1, <1>2
<1>4. (Rows - 1) * Cols + Cols = Rows * Cols
  BY <1>1
<1>5. r * Cols \in Nat /\ (Rows - 1) * Cols \in Nat /\ Rows * Cols \in Nat
  BY <1>1
<1>6. r * Cols + col \in 0 .. Rows * Cols - 1
  BY <1>1, <1>3, <1>4, <1>5
<1>7. Index(r, col) \in Cells
  BY <1>6 DEF Index, Cells
<1> QED
  BY <1>7, ScreenshotAssumption DEF Kinds, Codes

(* What the first n cells of row r should read as.                         *)
ShownCells(r, n) == [col \in 1 .. n |-> ShownAs(buffer[Index(r, col - 1)])]

LEMMA ShownCellsGrow ==
  ASSUME NEW r \in 0 .. Rows - 1, buffer \in [Cells -> CellKinds], NEW n \in 0 .. Cols - 1
  PROVE  /\ ShownCells(r, n) \in Seq(Shown)
         /\ Longer(ShownCells(r, n), buffer[Index(r, n)]) = ShownCells(r, n + 1)
<1>1. n \in Nat /\ Cols \in Nat
  BY ScreenAssumption
<1>2. \A col \in 1 .. n + 1 : buffer[Index(r, col - 1)] \in Kinds
  BY <1>1, CellOfRow
<1> DEFINE cell(col) == ShownAs(buffer[Index(r, col - 1)])
<1>3. \A col \in 1 .. n + 1 : cell(col) \in Shown
  BY <1>2 DEF Shown
<1>4. cell(n + 1) = ShownAs(buffer[Index(r, n)])
  BY <1>1
<1> DEFINE a == [col \in 1 .. n |-> cell(col)]
           b == [col \in 1 .. n + 1 |-> cell(col)]
<1>5. a = ShownCells(r, n) /\ b = ShownCells(r, n + 1)
  BY DEF ShownCells
<1> HIDE DEF cell
<1>6. a \in Seq(Shown) /\ b \in Seq(Shown) /\ Len(a) = n /\ Len(b) = n + 1
  BY <1>1, <1>3
<1>7. Append(a, cell(n + 1)) = b
  <2>1. Append(a, cell(n + 1)) \in Seq(Shown)
    BY <1>1, <1>3, <1>6
  <2>2. Len(Append(a, cell(n + 1))) = n + 1
    BY <1>6
  <2>3. ASSUME NEW i \in 1 .. n + 1 PROVE Append(a, cell(n + 1))[i] = b[i]
    BY <1>1, <1>6
  <2> HIDE DEF a, b
  <2> QED
    BY <1>1, <1>6, <2>1, <2>2, <2>3, SeqEqual
<1> QED
  BY <1>4, <1>5, <1>6, <1>7 DEF Longer

LegibleRow(r) == \A col \in 0 .. Cols - 1 : ReadsAsItself(buffer[Index(r, col)])

(* The loop over the cells of a row: after n cells the reader has the      *)
(* characters of n cells, and is in the section of the last of them.       *)
LEMMA CellLoopReads ==
  ASSUME NEW r \in 0 .. Rows - 1, buffer \in [Cells -> CellKinds], LegibleRow(r),
         NEW L, NEW R, NEW n \in 0 .. Cols
  PROVE  Reached(Reader(L, <<>>, 0, {}, R), CellLoop(r)[n], L, ShownCells(r, n), R)
<1> DEFINE F == CellLoop(r)
           s == Reader(L, <<>>, 0, {}, R)
           S == {k \in 0 .. Cols : Reached(s, F[k], L, ShownCells(r, k), R)}
<1>1. F[0] = FirstPrint /\ \A k \in 1 .. Cols : F[k] = PrintCell(F[k - 1], buffer[Index(r, k - 1)])
  BY CellLoopStep
<1> HIDE DEF F
<1>2. Cols \in Nat
  BY ScreenAssumption
<1>3. 0 \in S
  <2>1. /\ FirstPrint.text = <<>> /\ FirstPrint.style = DefaultAttrs
        /\ FirstPrint.in_styled_section = FALSE
    BY DEF FirstPrint
  <2>2. PrintOK(FirstPrint)
    <3>1. <<>> \in Seq(Token)
      OBVIOUS
    <3> QED
      BY <2>1, <3>1, DefaultStyle DEF PrintOK
  <2>3. ShownCells(r, 0) = <<>>
    BY DEF ShownCells
  <2>4. Read(s, <<>>) = s
    BY ReadNothing
  <2>5. Read(s, <<>>) = Reader(L, ShownCells(r, 0), Depth(DefaultAttrs), Notes(DefaultAttrs), R)
    BY <2>3, <2>4, DefaultStyle
  <2>6. Reached(s, FirstPrint, L, ShownCells(r, 0), R)
    BY <2>1, <2>2, <2>5 DEF Reached
  <2> QED
    BY <1>1, <1>2, <2>6
<1>4. ASSUME NEW k \in 0 .. Cols - 1, k \in S PROVE k + 1 \in S
  <2> DEFINE cell == buffer[Index(r, k)]
             l == ShownCells(r, k)
  <2>1. Reached(s, F[k], L, l, R)
    BY <1>4
  <2>2. k + 1 \in 1 .. Cols /\ (k + 1) - 1 = k
    BY <1>2
  <2>3. F[k + 1] = PrintCell(F[k], cell)
    BY <1>1, <2>2
  <2>4. cell \in Kinds /\ ReadsAsItself(cell)
    BY CellOfRow DEF LegibleRow
  <2>5. l \in Seq(Shown) /\ Longer(l, cell) = ShownCells(r, k + 1)
    BY ShownCellsGrow
  <2> HIDE DEF cell, l, s
  <2>6. Reached(s, PrintCell(F[k], cell), L, Longer(l, cell), R)
    BY <2>1, <2>4, <2>5, PrintCellReads
  <2> QED
    BY <2>2, <2>3, <2>5, <2>6
<1> HIDE DEF S
<1>5. 0 .. Cols \subseteq S
  BY <1>2, <1>3, <1>4, BoundedInduction
<1>6. n \in S
  BY <1>5
<1> QED
  BY <1>6 DEF S, F, s

(* A row reads as one line, and leaves no section open.                    *)
LEMMA PrintRowReads ==
  ASSUME NEW r \in 0 .. Rows - 1, buffer \in [Cells -> CellKinds], LegibleRow(r),
         NEW L, NEW R
  PROVE  /\ PrintRow(r) \in Seq(Token)
         /\ Read(Reader(L, <<>>, 0, {}, R), PrintRow(r)) =
              Reader(Append(L, ShownLine(r)), <<>>, 0, {}, R)
<1> DEFINE p == CellLoop(r)[Cols]
           text == p.text
           close == Closing(p.style)
           end == <<EndOfLine>>
           s == Reader(L, <<>>, 0, {}, R)
           s1 == Reader(L, ShownLine(r), Depth(p.style), Notes(p.style), R)
           s2 == Reader(L, ShownLine(r), 0, {}, R)
           s3 == Reader(Append(L, ShownLine(r)), <<>>, 0, {}, R)
<1>1. Cols \in 0 .. Cols /\ ShownCells(r, Cols) = ShownLine(r)
  BY ScreenAssumption DEF ShownCells, ShownLine
<1>2. PrintOK(p) /\ Read(s, text) = s1
  BY <1>1, CellLoopReads DEF Reached
<1>3. PrintRow(r) = text \o close \o end
  BY <1>2 DEF PrintRow, PrintOK, Closing
<1>4. close \in Seq(Token) /\ Read(s1, close) = s2
  BY ReadClosing
<1>5. end \in Seq(Token) /\ Read(s2, end) = s3
  <2>1. EndOfLine \in Token
    BY DEF EndOfLine, Chr, Token
  <2>2. ReadToken(s2, EndOfLine) = s3
    BY ReadTokens
  <2>3. Read(s2, end) = ReadToken(s2, EndOfLine)
    BY <2>1, ReadOne
  <2> QED
    BY <2>1, <2>2, <2>3
<1>6. text \in Seq(Token)
  BY <1>2 DEF PrintOK
<1> HIDE DEF text, close, end, s, s1, s2, s3
<1>7. text \o close \in Seq(Token) /\ Read(s, text \o close) = s2
  BY <1>2, <1>4, <1>6, ReadConcat, ConcatProperties
<1>8. text \o close \o end \in Seq(Token) /\ Read(s, text \o close \o end) = s3
  BY <1>5, <1>7, ReadConcat, ConcatProperties
<1> QED
  BY <1>3, <1>8 DEF s, s3

-----------------------------------------------------------------------------
(* The whole text.                                                         *)

LineOf(b, r) == [col \in 1 .. Cols |-> ShownAs(b[Index(r, col - 1)])]

(* The lines read before row k is printed, in a range that starts at first.*)
LinesOf(b, first, k) ==
  [i \in 1 .. k - first + 1 |-> IF i = 1 THEN <<>> ELSE LineOf(b, first + i - 2)]

LEMMA LinesGrow ==
  ASSUME NEW b, NEW first \in Int, NEW k \in Int, first <= k
  PROVE  Append(LinesOf(b, first, k), LineOf(b, k)) = LinesOf(b, first, k + 1)
<1> DEFINE line(i) == IF i = 1 THEN <<>> ELSE LineOf(b, first + i - 2)
           m == k - first + 1
           X == {line(i) : i \in Int}
           p == [i \in 1 .. m |-> line(i)]
           q == [i \in 1 .. m + 1 |-> line(i)]
<1>1. m \in Nat \ {0}
  OBVIOUS
<1>2. line(m + 1) = LineOf(b, k)
  <2>1. m + 1 # 1 /\ first + (m + 1) - 2 = k
    OBVIOUS
  <2> HIDE DEF m
  <2> QED
    BY <2>1
<1>3. LinesOf(b, first, k) = p /\ LinesOf(b, first, k + 1) = q
  <2>1. (k + 1) - first + 1 = m + 1
    OBVIOUS
  <2> QED
    BY <2>1 DEF LinesOf
<1>4. \A i \in Int : line(i) \in X
  OBVIOUS
<1> HIDE DEF line, X, m
<1>5. p \in Seq(X) /\ q \in Seq(X) /\ Len(p) = m /\ Len(q) = m + 1
  BY <1>1, <1>4
<1>6. Append(p, line(m + 1)) = q
  <2>1. Append(p, line(m + 1)) \in Seq(X)
    BY <1>1, <1>4, <1>5
  <2>2. Len(Append(p, line(m + 1))) = m + 1
    <3> HIDE DEF p
    <3> QED
      BY <1>1, <1>4, <1>5
  <2>3. ASSUME NEW i \in 1 .. m + 1 PROVE Append(p, line(m + 1))[i] = q[i]
    BY <1>1, <1>5
  <2> HIDE DEF p, q
  <2> QED
    BY <1>1, <1>5, <2>1, <2>2, <2>3, SeqEqual
<1> QED
  BY <1>2, <1>3, <1>6

(* The text before the rows.                                               *)
LEMMA ReadHead ==
  ASSUME NEW b, NEW first \in Int
  PROVE  /\ <<Fence, EndOfLine>> \in Seq(Token)
         /\ Read(Reader(<<>>, <<>>, 0, {}, <<>>), <<Fence, EndOfLine>>) =
              Reader(LinesOf(b, first, first), <<>>, 0, {}, <<>>)
<1> DEFINE s == Reader(<<>>, <<>>, 0, {}, <<>>)
           fence == <<Fence>>
           end == <<EndOfLine>>
           u == Reader(<<(<<>>)>>, <<>>, 0, {}, <<>>)
<1>1. Fence \in Token /\ EndOfLine \in Token
  BY DEF Fence, EndOfLine, Chr, Str, Token
<1>2. ReadToken(s, Fence) = s
  BY ReadTokens
<1>3. ReadToken(s, EndOfLine) = u
  <2>1. ReadToken(s, EndOfLine) = Reader(Append(<<>>, <<>>), <<>>, 0, {}, <<>>)
    <3> DEFINE L == <<>>
    <3> HIDE DEF L
    <3>1. ReadToken(Reader(L, <<>>, 0, {}, <<>>), EndOfLine) =
            Reader(Append(L, <<>>), <<>>, 0, {}, <<>>)
      BY ReadTokens
    <3> QED
      BY <3>1 DEF L
  <2>2. Append(<<>>, <<>>) = <<(<<>>)>>
    OBVIOUS
  <2> QED
    BY <2>1, <2>2
<1>4. fence \in Seq(Token) /\ Read(s, fence) = s
  BY <1>1, <1>2, ReadOne
<1>5. end \in Seq(Token) /\ Read(s, end) = u
  BY <1>1, <1>3, ReadOne
<1>6. <<Fence, EndOfLine>> = fence \o end
  BY PairIsConcat
<1>7. LinesOf(b, first, first) = <<(<<>>)>>
  <2>1. first - first + 1 = 1
    OBVIOUS
  <2>2. LinesOf(b, first, first) = [i \in 1 .. 1 |-> <<>>]
    BY <2>1 DEF LinesOf
  <2> QED
    BY <2>2
<1> HIDE DEF fence, end, s, u
<1>8. fence \o end \in Seq(Token) /\ Read(s, fence \o end) = u
  BY <1>4, <1>5, ReadConcat, ConcatProperties
<1> QED
  BY <1>6, <1>7, <1>8 DEF s, u

(* The text after the rows.                                                *)
LEMMA ReadTail ==
  ASSUME NEW L, NEW first \in Int, NEW last \in Int
  PROVE  /\ <<Fence, EndOfLine, Footer(first, last)>> \in Seq(Token)
         /\ Read(Reader(L, <<>>, 0, {}, <<>>), <<Fence, EndOfLine, Footer(first, last)>>) =
              Reader(Append(L, <<>>), <<>>, 0, {}, <<first, last>>)
<1> DEFINE s == Reader(L, <<>>, 0, {}, <<>>)
           u == Reader(Append(L, <<>>), <<>>, 0, {}, <<>>)
           v == Reader(Append(L, <<>>), <<>>, 0, {}, <<first, last>>)
           fence == <<Fence>>
           end == <<EndOfLine>>
           footer == <<Footer(first, last)>>
<1>1. Fence \in Token /\ EndOfLine \in Token /\ Footer(first, last) \in Token
  BY DEF Fence, EndOfLine, Footer, Chr, Str, Token
<1>2. ReadToken(s, Fence) = s /\ ReadToken(s, EndOfLine) = u
  BY ReadTokens
<1>3. ReadToken(u, Footer(first, last)) = v
  BY ReadTokens
<1>4. fence \in Seq(Token) /\ Read(s, fence) = s
  BY <1>1, <1>2, ReadOne
<1>5. end \in Seq(Token) /\ Read(s, end) = u
  BY <1>1, <1>2, ReadOne
<1>6. footer \in Seq(Token) /\ Read(u, footer) = v
  BY <1>1, <1>3, ReadOne
<1>7. <<Fence, EndOfLine, Footer(first, last)>> = fence \o end \o footer
  OBVIOUS
<1> HIDE DEF fence, end, footer, s, u, v
<1>8. fence \o end \in Seq(Token) /\ Read(s, fence \o end) = u
  BY <1>4, <1>5, ReadConcat, ConcatProperties
<1>9. fence \o end \o footer \in Seq(Token) /\ Read(s, fence \o end \o footer) = v
  BY <1>6, <1>8, ReadConcat, ConcatProperties
<1> QED
  BY <1>7, <1>9 DEF s, v

(* The rows that are printed were asked for.                               *)
LEMMA PrintedRows ==
  ASSUME start_row \in Int, end_row \in Int,
         NEW r \in 0 .. Rows - 1, RowRange[1] <= r, r <= RowRange[2]
  PROVE  r \in Asked
BY ScreenAssumption DEF Asked, RowRange, Validate

(* What has been read after each row.                                      *)
MarkInv ==
  /\ RangeInv
  /\ buffer \in [Cells -> CellKinds]
  /\ pc \in {"rows", "done"} => row <= Rows
  /\ pc = "done" => row = RowRange[2] + 1
  /\ Legible =>
       /\ output \in Seq(Token)
       /\ pc = "rows" => ReadBack = Reader(LinesOf(buffer, RowRange[1], row), <<>>, 0, {}, <<>>)
       /\ pc = "done" =>
            ReadBack = Reader(Append(LinesOf(buffer, RowRange[1], row), <<>>), <<>>, 0, {},
                              <<RowRange[1], RowRange[2]>>)

(* The part of the invariant about a text that can be read back.           *)
LEMMA MarkInvStep ==
  ASSUME MarkInv, RangeInv', Call \/ Row \/ Finish, Legible
  PROVE  /\ output' \in Seq(Token)
         /\ pc' = "rows" =>
              ReadBack' = Reader(LinesOf(buffer, RowRange[1], row'), <<>>, 0, {}, <<>>)
         /\ pc' = "done" =>
              ReadBack' = Reader(Append(LinesOf(buffer, RowRange[1], row'), <<>>), <<>>, 0, {},
                                 <<RowRange[1], RowRange[2]>>)
<1> DEFINE first == RowRange[1]
           last == RowRange[2]
           start == Reader(<<>>, <<>>, 0, {}, <<>>)
<1>1. /\ first \in 0 .. Rows - 1 /\ last \in Nat /\ first <= last
      /\ first \in Int /\ last \in Int /\ Rows \in Int
  BY RangeType, ScreenAssumption DEF MarkInv, RangeInv, RowRange
<1>2. ReadBack = Read(start, output) /\ ReadBack' = Read(start, output')
  BY DEF ReadBack, Reader, ReaderAt
<1>3. output \in Seq(Token)
  BY DEF MarkInv
<1>4. CASE Call
  <2>1. pc' = "rows" /\ row' = first /\ output' = <<Fence, EndOfLine>>
    BY <1>4 DEF Call
  <2>2. /\ output' \in Seq(Token)
        /\ Read(start, output') = Reader(LinesOf(buffer, first, first), <<>>, 0, {}, <<>>)
    BY <1>1, <2>1, ReadHead
  <2> QED
    BY <1>2, <2>1, <2>2
<1>5. CASE Row /\ row < Rows
  <2>1. /\ pc = "rows" /\ pc' = "rows" /\ row' = row + 1 /\ row <= last
        /\ output' = output \o PrintRow(row)
    BY <1>5 DEF Row
  <2>2. row \in Int /\ first <= row /\ row \in 0 .. Rows - 1
    BY <1>1, <1>5, <2>1 DEF MarkInv, RangeInv
  <2> DEFINE L == LinesOf(buffer, first, row)
             M == LinesOf(buffer, first, row + 1)
  <2>3. Read(start, output) = Reader(L, <<>>, 0, {}, <<>>)
    BY <1>2, <2>1 DEF MarkInv
  <2>4. ShownLine(row) = LineOf(buffer, row)
    BY DEF ShownLine, LineOf
  <2>5. Append(L, ShownLine(row)) = M
    BY <1>1, <2>2, <2>4, LinesGrow
  <2>6. row \in Asked
    BY <2>1, <2>2, PrintedRows DEF MarkInv, RangeInv
  <2>7. LegibleRow(row)
    BY <2>6 DEF Legible, LegibleRow
  <2>8. /\ PrintRow(row) \in Seq(Token)
        /\ Read(Reader(L, <<>>, 0, {}, <<>>), PrintRow(row)) =
             Reader(Append(L, ShownLine(row)), <<>>, 0, {}, <<>>)
    BY <2>2, <2>7, PrintRowReads DEF MarkInv
  <2>9. output' \in Seq(Token) /\ Read(start, output') = Reader(M, <<>>, 0, {}, <<>>)
    <3> HIDE DEF L, M, start
    <3> QED
      BY <1>3, <2>1, <2>3, <2>5, <2>8, ReadConcat, ConcatProperties
  <2> QED
    BY <1>2, <2>1, <2>9
<1>6. CASE Row /\ ~ (row < Rows)
  BY <1>3, <1>6 DEF Row
<1>7. CASE Finish
  <2>1. /\ pc = "rows" /\ pc' = "done" /\ row' = row
        /\ output' = output \o <<Fence, EndOfLine, Footer(first, last)>>
    BY <1>7 DEF Finish
  <2> DEFINE L == LinesOf(buffer, first, row)
             tail == <<Fence, EndOfLine, Footer(first, last)>>
             end == Reader(Append(L, <<>>), <<>>, 0, {}, <<first, last>>)
             before == Reader(L, <<>>, 0, {}, <<>>)
  <2>2. Read(start, output) = before
    BY <1>2, <2>1 DEF MarkInv
  <2>3. tail \in Seq(Token) /\ Read(before, tail) = end
    BY <1>1, ReadTail
  <2>4. output' \in Seq(Token) /\ Read(start, output') = end
    <3>1. output' = output \o tail
      BY <2>1
    <3> HIDE DEF tail, end, before, start
    <3> QED
      BY <1>3, <2>2, <2>3, <3>1, ReadConcat, ConcatProperties
  <2> QED
    BY <1>2, <2>1, <2>4
<1> QED
  BY <1>4, <1>5, <1>6, <1>7

LEMMA MarkInvHolds == Spec => []MarkInv
<1>1. Init => MarkInv
  <2>1. <<>> \in Seq(Token)
    OBVIOUS
  <2> QED
    BY <2>1, ScreenshotAssumption DEF Init, MarkInv, RangeInv
<1>2. MarkInv /\ RangeInv' /\ [Next]_vars => MarkInv'
  <2> SUFFICES ASSUME MarkInv, RangeInv', [Next]_vars PROVE MarkInv'
    OBVIOUS
  <2>1. /\ RowRange[1] \in 0 .. Rows - 1 /\ RowRange[2] \in Nat
        /\ RowRange[1] <= RowRange[2] /\ Rows \in Int
    BY RangeType, ScreenAssumption DEF MarkInv, RangeInv, RowRange
  <2>2. UNCHANGED <<buffer, start_row, end_row>> /\ RowRange' = RowRange
    BY DEF Next, Call, Row, Finish, vars, RowRange
  <2>3. Legible' <=> Legible
    BY <2>2 DEF Legible, Asked
  <2>5. CASE Call \/ Row \/ Finish
    <3>1. /\ pc' \in {"rows", "done"} => row' <= Rows
          /\ pc' = "done" => row' = RowRange[2] + 1
      <4>1. CASE Call
        BY <2>1, <4>1 DEF Call
      <4>2. CASE Row
        BY <2>1, <4>2 DEF Row, MarkInv, RangeInv
      <4>3. CASE Finish
        BY <2>1, <4>3 DEF Finish, MarkInv, RangeInv
      <4> QED
        BY <2>5, <4>1, <4>2, <4>3
    <3>2. ASSUME Legible
          PROVE  /\ output' \in Seq(Token)
                 /\ pc' = "rows" =>
                      ReadBack' = Reader(LinesOf(buffer, RowRange[1], row'), <<>>, 0, {}, <<>>)
                 /\ pc' = "done" =>
                      ReadBack' = Reader(Append(LinesOf(buffer, RowRange[1], row'), <<>>),
                                         <<>>, 0, {}, <<RowRange[1], RowRange[2]>>)
      BY <2>5, <3>2, MarkInvStep
    <3> QED
      BY <2>2, <2>3, <3>1, <3>2 DEF MarkInv
  <2>6. CASE UNCHANGED vars
    <3>1. ReadBack' = ReadBack /\ output' = output /\ row' = row /\ pc' = pc
      BY <2>6 DEF vars, ReadBack
    <3> QED
      BY <2>2, <2>3, <3>1 DEF MarkInv
  <2> QED
    BY <2>5, <2>6 DEF Next
<1> QED
  BY <1>1, <1>2, RangeInvHolds, PTL DEF Spec

(* The rows that are asked for, and printed.                               *)
LEMMA AskedRows ==
  ASSUME start_row \in Int, end_row \in Int, RowRange[2] < Rows
  PROVE  Asked = RowRange[1] .. RowRange[2]
BY ScreenAssumption DEF Asked, RowRange, Validate

(* Read back, the text of screenshot_to_markdown gives every cell of the   *)
(* rows asked for its character and its annotations, on a line of its own  *)
(* for each row, as long as no cell of them looks like a mark of the text  *)
(* (Legible): brackets and parentheses of the screen are not escaped.      *)
THEOREM MarkdownAlwaysFaithful == Spec => []MarkdownFaithful
<1>1. MarkInv => MarkdownFaithful
  <2> SUFFICES ASSUME MarkInv, pc = "done", Legible PROVE MarkdownFaithful
    BY DEF MarkdownFaithful
  <2> DEFINE first == RowRange[1]
             last == RowRange[2]
             lines == ReadBack.lines
             above(r) == {q \in Asked : q < r}
             printed == LinesOf(buffer, first, last + 1)
  <2>1. /\ first \in Nat /\ last \in Nat /\ first <= last
    BY RangeType, ScreenAssumption DEF MarkInv, RangeInv, RowRange
  <2>2. row <= Rows /\ row = last + 1
    BY DEF MarkInv
  <2>3. Asked = first .. last
    BY <2>1, <2>2, ScreenAssumption, AskedRows DEF MarkInv, RangeInv
  <2>4. lines = Append(printed, <<>>) /\ ReadBack.rows = <<first, last>>
    BY <2>2 DEF MarkInv, Reader, ReaderAt
  <2> HIDE DEF first, last, lines
  <2>5. Cardinality(Asked) = last - first + 1
    BY <2>1, <2>3, FS_Interval
  <2>6. /\ DOMAIN printed = 1 .. last - first + 2
        /\ \A i \in 1 .. last - first + 2 :
             printed[i] = IF i = 1 THEN <<>> ELSE LineOf(buffer, first + i - 2)
    BY <2>1 DEF LinesOf
  <2> DEFINE m == last - first + 2
             X == {printed[i] : i \in 1 .. m} \cup {<<>>}
  <2>7. m \in Nat /\ printed \in Seq(X) /\ Len(printed) = m
    <3>1. m \in Nat /\ DOMAIN printed = 1 .. m
      BY <2>1, <2>6
    <3>2. printed = [i \in 1 .. m |-> printed[i]]
      BY <2>1, <2>6 DEF LinesOf
    <3>3. \A i \in 1 .. m : printed[i] \in X
      OBVIOUS
    <3> HIDE DEF printed, m, X
    <3>4. printed \in [1 .. m -> X]
      BY <3>2, <3>3
    <3> QED
      BY <3>1, <3>4
  <2>8. /\ Len(lines) = m + 1
        /\ \A i \in 1 .. m : lines[i] = printed[i]
        /\ lines[m + 1] = <<>>
    <3> HIDE DEF printed
    <3>1. <<>> \in X
      OBVIOUS
    <3> HIDE DEF X, m
    <3> QED
      BY <2>4, <2>7, <3>1
  <2>9. ASSUME NEW r \in Asked
        PROVE  lines[Cardinality(above(r)) + 2] = ShownLine(r)
    <3>1. r \in Nat /\ first <= r /\ r <= last
      BY <2>1, <2>3
    <3>2. above(r) = first .. r - 1
      BY <2>1, <2>3, <3>1
    <3>3. Cardinality(above(r)) = r - first
      <4>1. Cardinality(first .. r - 1) = r - first
        <5>1. r - 1 \in Int /\ first \in Int
          BY <2>1, <3>1
        <5>2. Cardinality(first .. r - 1) = IF first > r - 1 THEN 0 ELSE (r - 1) - first + 1
          BY <5>1, FS_Interval
        <5> QED
          BY <2>1, <3>1, <5>2
      <4> QED
        BY <3>2, <4>1
    <3> DEFINE i == r - first + 2
    <3>4. i \in 1 .. m /\ i # 1 /\ first + i - 2 = r
      BY <2>1, <3>1
    <3>5. lines[i] = LineOf(buffer, r)
      BY <2>6, <2>8, <3>4
    <3> QED
      BY <3>3, <3>5 DEF LineOf, ShownLine
  <2>10. lines[1] = <<>> /\ lines[Len(lines)] = <<>>
    BY <2>1, <2>6, <2>8
  <2>11. Len(lines) = Cardinality(Asked) + 2
    BY <2>1, <2>5, <2>8
  <2>12. /\ ReadBack.rows[1] \in Asked /\ ReadBack.rows[2] \in Asked
         /\ \A r \in Asked : ReadBack.rows[1] <= r /\ r <= ReadBack.rows[2]
    BY <2>1, <2>3, <2>4
  <2> QED
    BY <2>9, <2>10, <2>11, <2>12 DEF MarkdownFaithful, lines
<1> QED
  BY <1>1, MarkInvHolds, PTL

=============================================================================
