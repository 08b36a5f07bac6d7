--------------------------- MODULE TerminalProofs ---------------------------
(***************************************************************************)
(* Proofs about modules Terminal and SgrReference, for every size of the   *)
(* screen, every number of parameter slots and every alphabet.             *)
(*                                                                         *)
(* CursorOnScreen does not hold of the code without a condition: a         *)
(* parameter that does not fit an int wraps around (MCTerminal_wrap.cfg    *)
(* shows it). The theorems about the screen assume ParamsFit, which says   *)
(* that the program at the other end keeps its parameters within what an   *)
(* int holds; those about the parser alone need no assumption.             *)
(***************************************************************************)
EXTENDS SgrReference, WellFoundedInduction, TLAPS

ParamsFit ==
  /\ MaxParam + Rows <= MaxInt
  /\ MaxParam + Cols <= MaxInt
  /\ Rows < MaxInt
  /\ Cols < MaxInt

-----------------------------------------------------------------------------
(* The inductive invariant. It leaves out what cells and attributes hold:  *)
(* only their place matters to the cursor and to the parser.               *)

Fields == {"buffer", "cursor_row", "cursor_col", "current_attrs",
           "parse_state", "csi_params", "csi_param_count"}

ScreenOK(t) ==
  /\ t = [f \in Fields |-> t[f]]
  /\ t.buffer = [i \in Cells |-> t.buffer[i]]
  /\ t.cursor_row \in 0 .. Rows - 1
  /\ t.cursor_col \in 0 .. Cols - 1

ParamsOK(t) ==
  /\ t.csi_params \in [0 .. NParams - 1 -> 0 .. MaxParam]
  /\ t.csi_param_count \in 0 .. NParams

StateOK(t) ==
  /\ t.parse_state \in {"NORMAL", "ESC", "CSI", "CSI_PARAM"}
  /\ t.parse_state \in {"CSI", "CSI_PARAM"} =>
       /\ t.csi_param_count < NParams
       /\ \A i \in 0 .. NParams - 1 : i > t.csi_param_count => t.csi_params[i] = 0
  /\ t.parse_state = "CSI" => t.csi_param_count = 0 /\ t.csi_params[0] = 0

TermOK(t) == ScreenOK(t) /\ ParamsOK(t) /\ StateOK(t)

Inv == TermOK(term)

(* The fields of the parser are the same in two terminals.                 *)
SameParser(t, u) ==
  /\ u.parse_state = t.parse_state
  /\ u.csi_params = t.csi_params
  /\ u.csi_param_count = t.csi_param_count

-----------------------------------------------------------------------------
(* Integers                                                                *)

(* A remainder of a number below the divisor is the number.                *)
LEMMA ModSmall ==
  ASSUME NEW m \in Nat \ {0}, NEW y \in 0 .. m - 1
  PROVE  y % m = y
OBVIOUS

(* An int keeps every value in its range.                                  *)
LEMMA IntWrapFits ==
  ASSUME NEW x \in -(MaxInt + 1) .. MaxInt
  PROVE  IntWrap(x) = x
<1>1. MaxInt \in Nat
  BY ScreenAssumption
<1>2. /\ 2 * MaxInt + 2 \in Nat \ {0}
      /\ x + MaxInt + 1 \in 0 .. (2 * MaxInt + 2) - 1
  BY <1>1
<1>3. (x + MaxInt + 1) % (2 * MaxInt + 2) = x + MaxInt + 1
  BY <1>2, ModSmall
<1> QED
  BY <1>1, <1>3 DEF IntWrap

-----------------------------------------------------------------------------
(* The operators of module Screen                                          *)

(* terminal_newline keeps the cursor on the screen and leaves the parser   *)
(* alone.                                                                  *)
LEMMA NewlineOK ==
  ASSUME NEW t, ScreenOK(t)
  PROVE  ScreenOK(Newline(t)) /\ SameParser(t, Newline(t))
<1> DEFINE n == Newline(t)
<1>1. t = [f \in Fields |-> t[f]] /\ t.cursor_row \in 0 .. Rows - 1
  BY DEF ScreenOK
<1>2. Rows \in Nat \ {0} /\ Cols \in Nat \ {0}
  BY ScreenAssumption
<1>3. /\ n = [f \in Fields |-> n[f]]
      /\ n.cursor_col = 0
      /\ SameParser(t, n)
  BY <1>1 DEF Newline, Fields, SameParser
<1>4. CASE t.cursor_row + 1 >= Rows
  <2>1. n.cursor_row = Rows - 1 /\ n.buffer = ScrollUp(t)
    BY <1>1, <1>4 DEF Newline, Fields
  <2>2. n.buffer = [i \in Cells |-> n.buffer[i]]
    BY <2>1 DEF ScrollUp
  <2> QED
    BY <1>2, <1>3, <2>1, <2>2 DEF ScreenOK
<1>5. CASE ~(t.cursor_row + 1 >= Rows)
  <2>1. n.cursor_row = t.cursor_row + 1 /\ n.buffer = t.buffer
    BY <1>1, <1>5 DEF Newline, Fields
  <2> QED
    BY <1>1, <1>2, <1>3, <1>5, <2>1 DEF ScreenOK
<1> QED
  BY <1>4, <1>5

(* So does terminal_put_char: the wrap at the last column keeps the next   *)
(* character on the screen.                                                *)
LEMMA PutCharOK ==
  ASSUME NEW t, NEW ch, ScreenOK(t)
  PROVE  ScreenOK(PutChar(t, ch)) /\ SameParser(t, PutChar(t, ch))
<1> DEFINE w == [t EXCEPT !.buffer[Index(t.cursor_row, t.cursor_col)] =
                            Glyph(ch, t.current_attrs),
                          !.cursor_col = @ + 1]
<1>1. /\ t = [f \in Fields |-> t[f]]
      /\ t.buffer = [i \in Cells |-> t.buffer[i]]
      /\ t.cursor_row \in 0 .. Rows - 1
      /\ t.cursor_col \in 0 .. Cols - 1
  BY DEF ScreenOK
<1>2. Rows \in Nat \ {0} /\ Cols \in Nat \ {0}
  BY ScreenAssumption
<1>3. PutChar(t, ch) = IF w.cursor_col >= Cols THEN Newline(w) ELSE w
  BY <1>1, <1>2 DEF PutChar
<1>4. /\ w = [f \in Fields |-> w[f]]
      /\ w.buffer = [i \in Cells |-> w.buffer[i]]
      /\ w.cursor_row = t.cursor_row
      /\ w.cursor_col = t.cursor_col + 1
      /\ SameParser(t, w)
  BY <1>1 DEF Fields, SameParser
<1> HIDE DEF w
<1>5. CASE w.cursor_col >= Cols
  <2> DEFINE v == [w EXCEPT !.cursor_col = 0]
  <2>1. /\ ScreenOK(v)
        /\ v.cursor_row = w.cursor_row
        /\ v.current_attrs = w.current_attrs
        /\ v.buffer = w.buffer
        /\ SameParser(w, v)
    BY <1>1, <1>2, <1>4 DEF ScreenOK, Fields, SameParser
  <2>2. Newline(w) = Newline(v)
    BY <1>1, <1>4, <2>1 DEF Newline, ScrollUp, Fields
  <2> HIDE DEF v
  <2>3. ScreenOK(Newline(v)) /\ SameParser(v, Newline(v))
    BY <2>1, NewlineOK
  <2> QED
    BY <1>3, <1>4, <1>5, <2>1, <2>2, <2>3 DEF SameParser
<1>6. CASE ~(w.cursor_col >= Cols)
  BY <1>1, <1>2, <1>3, <1>4, <1>6 DEF ScreenOK
<1> QED
  BY <1>5, <1>6

-----------------------------------------------------------------------------
(* The control sequences of module Parser                                  *)

(* execute_cursor_move and execute_cursor_position: parameters that fit    *)
(* leave the cursor on the screen, whichever edge is clamped.              *)
LEMMA CursorMoveOK ==
  ASSUME ParamsFit, NEW t, ScreenOK(t), ParamsOK(t),
         NEW cmd \in {CUU, CUD, CUF, CUB}
  PROVE  ScreenOK(ExecuteCursorMove(t, cmd)) /\ SameParser(t, ExecuteCursorMove(t, cmd))
<1> DEFINE u == ExecuteCursorMove(t, cmd)
           p == Param(t, 0, 1)
           n == IF p = 0 THEN 1 ELSE p
<1>1. /\ t = [f \in Fields |-> t[f]]
      /\ t.buffer = [i \in Cells |-> t.buffer[i]]
      /\ t.cursor_row \in 0 .. Rows - 1
      /\ t.cursor_col \in 0 .. Cols - 1
  BY DEF ScreenOK
<1>2. /\ Rows \in Nat \ {0} /\ Cols \in Nat \ {0}
      /\ NParams \in Nat \ {0} /\ MaxInt \in Nat \ {0} /\ MaxParam \in Nat
  BY ScreenAssumption, TerminalAssumption
<1>3. n \in Nat \ {0} /\ n + Rows <= MaxInt /\ n + Cols <= MaxInt
  <2>1. p = 1 \/ p \in 0 .. MaxParam
    BY <1>2 DEF ParamsOK, Param
  <2> QED
    BY <1>2, <2>1 DEF ParamsFit
<1> HIDE DEF n
<1>4. /\ IntWrap(t.cursor_row - n) = t.cursor_row - n
      /\ IntWrap(t.cursor_row + n) = t.cursor_row + n
      /\ IntWrap(t.cursor_col + n) = t.cursor_col + n
      /\ IntWrap(t.cursor_col - n) = t.cursor_col - n
  <2>1. /\ t.cursor_row - n \in -(MaxInt + 1) .. MaxInt
        /\ t.cursor_row + n \in -(MaxInt + 1) .. MaxInt
        /\ t.cursor_col + n \in -(MaxInt + 1) .. MaxInt
        /\ t.cursor_col - n \in -(MaxInt + 1) .. MaxInt
    BY <1>1, <1>2, <1>3
  <2> QED
    BY <2>1, IntWrapFits
<1>5. CASE cmd = CUU
  <2>1. u = [t EXCEPT !.cursor_row = IF t.cursor_row - n < 0 THEN 0 ELSE t.cursor_row - n]
    BY <1>4, <1>5 DEF ExecuteCursorMove, n, CUU, CUD, CUF, CUB
  <2> QED
    BY <1>1, <1>2, <1>3, <2>1 DEF ScreenOK, Fields, SameParser
<1>6. CASE cmd = CUD
  <2>1. u = [t EXCEPT !.cursor_row = IF t.cursor_row + n >= Rows THEN Rows - 1
                                                                 ELSE t.cursor_row + n]
    BY <1>4, <1>6 DEF ExecuteCursorMove, n, CUU, CUD, CUF, CUB
  <2> QED
    BY <1>1, <1>2, <1>3, <2>1 DEF ScreenOK, Fields, SameParser
<1>7. CASE cmd = CUF
  <2>1. u = [t EXCEPT !.cursor_col = IF t.cursor_col + n >= Cols THEN Cols - 1
                                                                 ELSE t.cursor_col + n]
    BY <1>4, <1>7 DEF ExecuteCursorMove, n, CUU, CUD, CUF, CUB
  <2> QED
    BY <1>1, <1>2, <1>3, <2>1 DEF ScreenOK, Fields, SameParser
<1>8. CASE cmd = CUB
  <2>1. u = [t EXCEPT !.cursor_col = IF t.cursor_col - n < 0 THEN 0 ELSE t.cursor_col - n]
    BY <1>4, <1>8 DEF ExecuteCursorMove, n, CUU, CUD, CUF, CUB
  <2> QED
    BY <1>1, <1>2, <1>3, <2>1 DEF ScreenOK, Fields, SameParser
<1> QED
  BY <1>5, <1>6, <1>7, <1>8

LEMMA CursorPositionOK ==
  ASSUME NEW t, ScreenOK(t), ParamsOK(t), ParamsFit
  PROVE  ScreenOK(ExecuteCursorPosition(t)) /\ SameParser(t, ExecuteCursorPosition(t))
<1> DEFINE u == ExecuteCursorPosition(t)
           r == Param(t, 0, 1)
           c == Param(t, 1, 1)
<1>1. /\ t = [f \in Fields |-> t[f]]
      /\ t.buffer = [i \in Cells |-> t.buffer[i]]
  BY DEF ScreenOK
<1>2. /\ Rows \in Nat \ {0} /\ Cols \in Nat \ {0}
      /\ NParams \in Nat \ {0} /\ MaxInt \in Nat \ {0} /\ MaxParam \in Nat
  BY ScreenAssumption, TerminalAssumption
<1>3. IntWrap(r - 1) \in Int /\ IntWrap(c - 1) \in Int
  <2>1. r \in 0 .. MaxInt /\ c \in 0 .. MaxInt
    BY <1>2 DEF ParamsOK, Param, ParamsFit
  <2>2. r - 1 \in -(MaxInt + 1) .. MaxInt /\ c - 1 \in -(MaxInt + 1) .. MaxInt
    BY <1>2, <2>1
  <2> QED
    BY <2>2, <1>2, IntWrapFits
<1>4. /\ Clamp(IntWrap(r - 1), Rows) \in 0 .. Rows - 1
      /\ Clamp(IntWrap(c - 1), Cols) \in 0 .. Cols - 1
  BY <1>2, <1>3 DEF Clamp
<1>5. u = [t EXCEPT !.cursor_row = Clamp(IntWrap(r - 1), Rows),
                    !.cursor_col = Clamp(IntWrap(c - 1), Cols)]
  BY DEF ExecuteCursorPosition
<1> QED
  BY <1>1, <1>4, <1>5 DEF ScreenOK, Fields, SameParser

(* The erase commands; their cells are the business of RowConfinement.     *)
LEMMA EraseOK ==
  ASSUME NEW t, ScreenOK(t)
  PROVE  /\ ScreenOK(ExecuteEraseDisplay(t)) /\ SameParser(t, ExecuteEraseDisplay(t))
         /\ ScreenOK(ExecuteEraseLine(t)) /\ SameParser(t, ExecuteEraseLine(t))
<1>1. /\ t = [f \in Fields |-> t[f]]
      /\ t.buffer = [i \in Cells |-> t.buffer[i]]
      /\ t.cursor_row \in 0 .. Rows - 1
      /\ t.cursor_col \in 0 .. Cols - 1
  BY DEF ScreenOK
<1>2. Rows \in Nat \ {0} /\ Cols \in Nat \ {0}
  BY ScreenAssumption
<1>3. \A S : Erase(t, S) = [i \in Cells |-> Erase(t, S)[i]]
  BY DEF Erase
<1>4. ScreenOK(ExecuteEraseDisplay(t)) /\ SameParser(t, ExecuteEraseDisplay(t))
  <2> DEFINE cleared == [t EXCEPT !.buffer = Erase(t, Cells), !.cursor_row = 0,
                                  !.cursor_col = 0]
  <2>1. /\ cleared = [f \in Fields |-> cleared[f]]
        /\ cleared.buffer = Erase(t, Cells)
        /\ cleared.cursor_row = 0 /\ cleared.cursor_col = 0
        /\ SameParser(t, cleared)
    BY <1>1 DEF Fields, SameParser
  <2>2. SameParser(t, t)
    BY DEF SameParser
  <2> HIDE DEF cleared
  <2>3. ScreenOK(cleared)
    BY <1>2, <1>3, <2>1 DEF ScreenOK
  <2>4. ExecuteEraseDisplay(t) \in {cleared, t}
    BY DEF ExecuteEraseDisplay, cleared
  <2> QED
    BY <2>1, <2>2, <2>3, <2>4
<1>5. ScreenOK(ExecuteEraseLine(t)) /\ SameParser(t, ExecuteEraseLine(t))
  BY <1>1, <1>3 DEF ScreenOK, Fields, SameParser, ExecuteEraseLine
<1> QED
  BY <1>4, <1>5

(* parser_execute_csi                                                      *)
LEMMA ExecuteCsiOK ==
  ASSUME ParamsFit, NEW t, ScreenOK(t), ParamsOK(t), NEW cmd
  PROVE  ScreenOK(ExecuteCsi(t, cmd)) /\ SameParser(t, ExecuteCsi(t, cmd))
<1>1. CASE cmd = SGR
  <2>1. ExecuteCsi(t, cmd) = ExecuteSgr(t)
    BY <1>1 DEF ExecuteCsi, SGR, CUU, CUD, CUF, CUB, CUP, ED, EL
  <2>2. t = [f \in Fields |-> t[f]]
    BY DEF ScreenOK
  <2> QED
    BY <2>1, <2>2 DEF ExecuteSgr, ScreenOK, Fields, SameParser
<1>2. CASE cmd \in {CUU, CUD, CUF, CUB}
  <2>1. ExecuteCsi(t, cmd) = ExecuteCursorMove(t, cmd)
    BY <1>2 DEF ExecuteCsi, SGR, CUU, CUD, CUF, CUB, CUP, ED, EL
  <2> QED
    BY <1>2, <2>1, CursorMoveOK
<1>3. CASE cmd \in CUP
  <2>1. ExecuteCsi(t, cmd) = ExecuteCursorPosition(t)
    BY <1>3 DEF ExecuteCsi, SGR, CUU, CUD, CUF, CUB, CUP, ED, EL
  <2> QED
    BY <2>1, CursorPositionOK
<1>4. CASE cmd = ED
  <2>1. ExecuteCsi(t, cmd) = ExecuteEraseDisplay(t)
    BY <1>4 DEF ExecuteCsi, SGR, CUU, CUD, CUF, CUB, CUP, ED, EL
  <2> QED
    BY <2>1, EraseOK
<1>5. CASE cmd = EL
  <2>1. ExecuteCsi(t, cmd) = ExecuteEraseLine(t)
    BY <1>5 DEF ExecuteCsi, SGR, CUU, CUD, CUF, CUB, CUP, ED, EL
  <2> QED
    BY <2>1, EraseOK
<1>6. CASE cmd \notin {SGR, CUU, CUD, CUF, CUB, ED, EL} \cup CUP
  <2>1. ExecuteCsi(t, cmd) = t
    BY <1>6 DEF ExecuteCsi
  <2> QED
    BY <2>1 DEF SameParser
<1> QED
  BY <1>1, <1>2, <1>3, <1>4, <1>5, <1>6

-----------------------------------------------------------------------------
(* The steps: one lemma per action                                         *)

(* The parser's part of the invariant depends on the parser's fields only. *)
LEMMA SameParserOK ==
  ASSUME NEW t, NEW u, SameParser(t, u), ParamsOK(t), StateOK(t)
  PROVE  ParamsOK(u) /\ StateOK(u)
BY DEF SameParser, ParamsOK, StateOK

LEMMA InitOK == Init => Inv
<1> SUFFICES ASSUME Init PROVE Inv
  OBVIOUS
<1>1. /\ Rows \in Nat \ {0} /\ Cols \in Nat \ {0}
      /\ NParams \in Nat \ {0} /\ MaxParam \in Nat
  BY ScreenAssumption, TerminalAssumption
<1>2. ScreenOK(term)
  BY <1>1 DEF Init, InitTerminal, ScreenOK, Fields
<1>3. ParamsOK(term) /\ StateOK(term)
  BY <1>1 DEF Init, InitTerminal, ParamsOK, StateOK
<1> QED
  BY <1>2, <1>3 DEF Inv, TermOK

LEMMA NormalOK ==
  ASSUME Inv, NEW b, ReceiveNormal(b)
  PROVE  Inv'
<1>1. /\ ScreenOK(term) /\ ParamsOK(term) /\ StateOK(term)
      /\ term' = NormalByte(term, b)
      /\ term = [f \in Fields |-> term[f]]
  BY DEF Inv, TermOK, ReceiveNormal, ScreenOK
<1>2. SUFFICES \/ ScreenOK(term') /\ SameParser(term, term')
               \/ term' = [term EXCEPT !.parse_state = "ESC"]
  <2>1. CASE ScreenOK(term') /\ SameParser(term, term')
    <3>1. ParamsOK(term') /\ StateOK(term')
      BY <1>1, <2>1, SameParserOK
    <3> QED
      BY <2>1, <3>1 DEF Inv, TermOK
  <2>2. CASE term' = [term EXCEPT !.parse_state = "ESC"]
    <3>1. ScreenOK(term')
      BY <1>1, <2>2 DEF ScreenOK, Fields
    <3>2. ParamsOK(term') /\ StateOK(term')
      BY <1>1, <2>2 DEF ParamsOK, StateOK, Fields
    <3> QED
      BY <3>1, <3>2 DEF Inv, TermOK
  <2> QED
    BY <2>1, <2>2
<1>3. CASE b = ESC
  BY <1>1, <1>3 DEF NormalByte, ESC, LF, CR, BS, Printable
<1>4. CASE b = LF
  <2>1. term' = Newline(term)
    BY <1>1, <1>4 DEF NormalByte, ESC, LF, CR, BS, Printable
  <2> QED
    BY <1>1, <2>1, NewlineOK
<1>5. CASE b = CR
  <2>1. term' = [term EXCEPT !.cursor_col = 0]
    BY <1>1, <1>5 DEF NormalByte, ESC, LF, CR, BS, Printable
  <2> QED
    BY <1>1, <2>1, ScreenAssumption DEF ScreenOK, Fields, SameParser
<1>6. CASE b = BS
  <2>1. term' = [term EXCEPT !.cursor_col = IF @ > 0 THEN @ - 1 ELSE @]
    BY <1>1, <1>6 DEF NormalByte, ESC, LF, CR, BS, Printable
  <2> QED
    BY <1>1, <2>1, ScreenAssumption DEF ScreenOK, Fields, SameParser
<1>7. CASE b \in Printable
  <2>1. term' = PutChar(term, b)
    BY <1>1, <1>7 DEF NormalByte, ESC, LF, CR, BS, Printable
  <2> QED
    BY <1>1, <2>1, PutCharOK
<1>8. CASE b \notin {ESC, LF, CR, BS} \cup Printable
  <2>1. term' = term
    BY <1>1, <1>8 DEF NormalByte
  <2> QED
    BY <1>1, <2>1 DEF SameParser
<1> QED
  BY <1>3, <1>4, <1>5, <1>6, <1>7, <1>8

LEMMA EscOK ==
  ASSUME Inv, NEW b, ReceiveEsc(b)
  PROVE  Inv'
<1>1. /\ ScreenOK(term) /\ ParamsOK(term) /\ StateOK(term)
      /\ term' = EscByte(term, b)
      /\ term = [f \in Fields |-> term[f]]
  BY DEF Inv, TermOK, ReceiveEsc, ScreenOK
<1>2. NParams \in Nat \ {0} /\ MaxParam \in Nat
  BY ScreenAssumption, TerminalAssumption
<1>3. ScreenOK(term')
  BY <1>1 DEF EscByte, ScreenOK, Fields
<1>4. ParamsOK(term') /\ StateOK(term')
  BY <1>1, <1>2 DEF EscByte, ParamsOK, StateOK, Fields
<1> QED
  BY <1>3, <1>4 DEF Inv, TermOK

LEMMA DigitOK ==
  ASSUME ParamsFit, Inv, NEW b, ReceiveDigit(b)
  PROVE  Inv'
<1> DEFINE i == term.csi_param_count
           value == term.csi_params[i] * 10 + (b - 48)
<1>1. /\ ScreenOK(term) /\ ParamsOK(term) /\ StateOK(term)
      /\ term' = CsiDigit(term, b)
      /\ term = [f \in Fields |-> term[f]]
      /\ term.parse_state \in {"CSI", "CSI_PARAM"}
      /\ b \in Digits
      /\ value <= MaxParam
  BY DEF Inv, TermOK, ReceiveDigit, ScreenOK, InCsi, WithinMaxParam
<1>2. /\ NParams \in Nat \ {0} /\ MaxParam \in Nat
      /\ Rows \in Nat \ {0} /\ MaxInt \in Nat \ {0}
  BY ScreenAssumption, TerminalAssumption
<1>3. /\ i \in 0 .. NParams - 1
      /\ \A j \in 0 .. NParams - 1 : j > i => term.csi_params[j] = 0
  BY <1>1, <1>2 DEF ParamsOK, StateOK
<1>4. IntWrap(value) = value /\ value \in 0 .. MaxParam
  <2>1. value \in 0 .. MaxParam
    <3>1. term.csi_params[i] \in Nat
      BY <1>1, <1>2, <1>3 DEF ParamsOK
    <3>2. b - 48 \in Nat
      BY <1>1 DEF Digits
    <3> QED
      BY <1>1, <1>2, <3>1, <3>2
  <2>2. value \in -(MaxInt + 1) .. MaxInt
    BY <1>2, <2>1 DEF ParamsFit
  <2> QED
    BY <2>1, <2>2, IntWrapFits
<1>5. /\ term'.csi_params = [term.csi_params EXCEPT ![i] = value]
      /\ term'.csi_param_count = i
      /\ term'.parse_state = "CSI_PARAM"
      /\ ScreenOK(term')
  BY <1>1, <1>4 DEF CsiDigit, ScreenOK, Fields
<1>6. ParamsOK(term')
  BY <1>1, <1>4, <1>5 DEF ParamsOK
<1>7. StateOK(term')
  <2>1. \A j \in 0 .. NParams - 1 : j > i => term'.csi_params[j] = 0
    <3>1. \A j \in 0 .. NParams - 1 : j # i => term'.csi_params[j] = term.csi_params[j]
      BY <1>1, <1>5 DEF ParamsOK
    <3> QED
      BY <1>2, <1>3, <1>5, <3>1
  <2>2. i < NParams
    BY <1>2, <1>3
  <2> QED
    BY <1>5, <2>1, <2>2 DEF StateOK
<1> QED
  BY <1>5, <1>6, <1>7 DEF Inv, TermOK

LEMMA SeparatorOK ==
  ASSUME Inv, NEW b, ReceiveSeparator(b)
  PROVE  Inv'
<1>1. /\ ScreenOK(term) /\ ParamsOK(term) /\ StateOK(term)
      /\ term' = CsiSeparator(term)
      /\ term = [f \in Fields |-> term[f]]
      /\ term.parse_state \in {"CSI", "CSI_PARAM"}
  BY DEF Inv, TermOK, ReceiveSeparator, ScreenOK, InCsi
<1>2. NParams \in Nat \ {0}
  BY ScreenAssumption
<1>3. /\ term'.csi_param_count = IF term.csi_param_count + 1 >= NParams
                                  THEN NParams - 1 ELSE term.csi_param_count + 1
      /\ term'.csi_params = term.csi_params
      /\ term'.parse_state = "CSI_PARAM"
      /\ ScreenOK(term')
  BY <1>1 DEF CsiSeparator, ScreenOK, Fields
<1>4. /\ term'.csi_param_count \in 0 .. NParams - 1
      /\ \A j \in 0 .. NParams - 1 :
           j > term'.csi_param_count => j > term.csi_param_count
  BY <1>1, <1>2, <1>3 DEF ParamsOK
<1>5. ParamsOK(term')
  BY <1>1, <1>2, <1>3, <1>4 DEF ParamsOK
<1>6. StateOK(term')
  BY <1>1, <1>2, <1>3, <1>4 DEF StateOK
<1> QED
  BY <1>3, <1>5, <1>6 DEF Inv, TermOK

LEMMA FinalOK ==
  ASSUME ParamsFit, Inv, NEW b, ReceiveFinal(b)
  PROVE  Inv'
<1> DEFINE t == Closed(term)
           u == ExecuteCsi(t, b)
<1>1. /\ ScreenOK(term) /\ ParamsOK(term) /\ StateOK(term)
      /\ term' = [u EXCEPT !.parse_state = "NORMAL"]
      /\ term = [f \in Fields |-> term[f]]
      /\ term.parse_state \in {"CSI", "CSI_PARAM"}
  BY DEF Inv, TermOK, ReceiveFinal, CsiFinal, ScreenOK, InCsi
<1>2. NParams \in Nat \ {0}
  BY ScreenAssumption
<1>3. ScreenOK(t)
  BY <1>1 DEF Closed, ScreenOK, Fields
<1>4. ParamsOK(t)
  BY <1>1, <1>2 DEF Closed, ParamsOK, StateOK, Fields
<1> HIDE DEF t
<1>5. ScreenOK(u) /\ SameParser(t, u)
  BY <1>3, <1>4, ExecuteCsiOK
<1> HIDE DEF u
<1>6. /\ ScreenOK(term')
      /\ term'.parse_state = "NORMAL"
      /\ term'.csi_params = t.csi_params
      /\ term'.csi_param_count = t.csi_param_count
  BY <1>1, <1>5 DEF ScreenOK, SameParser, Fields
<1>7. ParamsOK(term') /\ StateOK(term')
  BY <1>4, <1>6 DEF ParamsOK, StateOK
<1> QED
  BY <1>6, <1>7 DEF Inv, TermOK

LEMMA StepOK ==
  ASSUME ParamsFit
  PROVE  Inv /\ [Next]_vars => Inv'
<1> SUFFICES ASSUME Inv, [Next]_vars PROVE Inv'
  OBVIOUS
<1>1. ASSUME NEW b, ReceiveNormal(b) PROVE Inv'
  BY <1>1, NormalOK
<1>2. ASSUME NEW b, ReceiveEsc(b) PROVE Inv'
  BY <1>2, EscOK
<1>3. ASSUME NEW b, ReceiveDigit(b) PROVE Inv'
  BY <1>3, DigitOK
<1>4. ASSUME NEW b, ReceiveSeparator(b) PROVE Inv'
  BY <1>4, SeparatorOK
<1>5. ASSUME NEW b, ReceiveFinal(b) PROVE Inv'
  BY <1>5, FinalOK
<1>6. CASE UNCHANGED vars
  BY <1>6 DEF vars, Inv
<1> QED
  BY <1>1, <1>2, <1>3, <1>4, <1>5, <1>6 DEF Next

(* The terminal keeps its shape, its cursor on the screen and its          *)
(* parameters within MaxParam through every byte terminal_process_bytes    *)
(* takes.                                                                  *)
THEOREM InvHolds ==
  ASSUME ParamsFit
  PROVE  Spec => []Inv
<1>1. Init => Inv
  BY InitOK
<1>2. Inv /\ [Next]_vars => Inv'
  BY StepOK
<1> QED
  BY <1>1, <1>2, PTL DEF Spec

-----------------------------------------------------------------------------
(* The invariants of module Terminal                                       *)

(* Whatever the program sends, the cursor stays on the screen as long as   *)
(* its parameters fit an int, so that terminal.c and parser.c never index  *)
(* outside the buffer.                                                     *)
THEOREM CursorStaysOnScreen ==
  ASSUME ParamsFit
  PROVE  Spec => []CursorOnScreen
<1>1. Inv => CursorOnScreen
  BY DEF Inv, TermOK, ScreenOK, CursorOnScreen
<1> QED
  BY <1>1, InvHolds, PTL

-----------------------------------------------------------------------------
(* The flat buffer: rows do not overlap                                    *)

(* The arithmetic of the last row of the flat array.                       *)
LEMMA LastRow ==
  /\ (Rows - 1) * Cols + Cols = Rows * Cols
  /\ \A i \in Row(Rows - 1) : i \in Cells /\ i >= (Rows - 1) * Cols
  /\ Index(Rows - 1, Cols - 1) = Rows * Cols - 1
  /\ (Rows - 1) * Cols \in Nat
<1>1. Rows \in Nat \ {0} /\ Cols \in Nat \ {0}
  BY ScreenAssumption
<1>2. (Rows - 1) * Cols + Cols = Rows * Cols /\ (Rows - 1) * Cols \in Nat
  BY <1>1
<1>3. Index(Rows - 1, Cols - 1) = Rows * Cols - 1
  BY <1>1, <1>2 DEF Index
<1>4. ASSUME NEW i \in Row(Rows - 1) PROVE i \in Cells /\ i >= (Rows - 1) * Cols
  <2>1. PICK c \in 0 .. Cols - 1 : i = (Rows - 1) * Cols + c
    BY <1>4 DEF Row, Index
  <2> QED
    BY <1>1, <1>2, <2>1 DEF Cells
<1> QED
  BY <1>2, <1>3, <1>4

(* A newline leaves the buffer alone, or moves every line up by one.       *)
LEMMA NewlineBuffer ==
  ASSUME NEW t, ScreenOK(t)
  PROVE  \/ Newline(t).buffer = t.buffer
         \/ /\ t.cursor_row = Rows - 1
            /\ Newline(t).buffer = ScrollUp(t)
<1>1. t = [f \in Fields |-> t[f]] /\ t.cursor_row \in 0 .. Rows - 1
  BY DEF ScreenOK
<1>2. CASE t.cursor_row + 1 >= Rows
  <2>1. Newline(t).buffer = ScrollUp(t)
    BY <1>1, <1>2 DEF Newline, Fields
  <2> QED
    BY <1>1, <1>2, <2>1, ScreenAssumption
<1>3. CASE ~(t.cursor_row + 1 >= Rows)
  BY <1>1, <1>3 DEF Newline, Fields
<1> QED
  BY <1>2, <1>3

(* What a scroll leaves in the lines, when the buffer differs from that of *)
(* the state before in its last cell only.                                 *)
LEMMA ScrollMovesUp ==
  ASSUME NEW t, ScreenOK(term), term.cursor_row = Rows - 1,
         \A i \in Cells : i # Rows * Cols - 1 => t.buffer[i] = term.buffer[i],
         t.current_attrs = term.current_attrs,
         term'.buffer = ScrollUp(t)
  PROVE  MovedUp
<1>1. Rows \in Nat \ {0} /\ Cols \in Nat \ {0}
  BY ScreenAssumption
<1>2. ASSUME NEW i \in Cells, i < (Rows - 1) * Cols - 1
      PROVE  term'.buffer[i] = term.buffer[i + Cols]
  <2>1. term'.buffer[i] = t.buffer[i + Cols]
    BY <1>1, <1>2, LastRow DEF ScrollUp, Cells
  <2>2. i + Cols \in Cells /\ i + Cols # Rows * Cols - 1
    <3>1. i \in Nat /\ i + Cols < (Rows - 1) * Cols + Cols - 1
      BY <1>1, <1>2, LastRow DEF Cells
    <3>2. i + Cols \in Nat /\ i + Cols < Rows * Cols - 1
      BY <1>1, <3>1, LastRow
    <3> QED
      BY <1>1, <3>2 DEF Cells
  <2> QED
    BY <2>1, <2>2
<1>3. ASSUME NEW i \in Row(Rows - 1)
      PROVE  term'.buffer[i] = Blank(term.current_attrs)
  <2>1. i \in Cells /\ ~(i < (Rows - 1) * Cols)
    BY <1>1, LastRow DEF Cells
  <2>2. term'.buffer[i] = Blank(t.current_attrs)
    BY <2>1 DEF ScrollUp
  <2> QED
    BY <2>2
<1> QED
  BY <1>2, <1>3 DEF MovedUp

LEMMA SameBuffer ==
  ASSUME term'.buffer = term.buffer
  PROVE  OnlyCursorRow
BY DEF OnlyCursorRow

(* A newline and a printed character, as steps.                            *)
LEMMA NewlineConfined ==
  ASSUME ScreenOK(term), term' = Newline(term)
  PROVE  OnlyCursorRow \/ MovedUp
<1>1. CASE term'.buffer = term.buffer
  BY <1>1, SameBuffer
<1>2. CASE term.cursor_row = Rows - 1 /\ term'.buffer = ScrollUp(term)
  BY <1>2, ScrollMovesUp
<1> QED
  BY <1>1, <1>2, NewlineBuffer

LEMMA PutCharConfined ==
  ASSUME ScreenOK(term), NEW ch, term' = PutChar(term, ch)
  PROVE  OnlyCursorRow \/ MovedUp
<1> DEFINE at == Index(term.cursor_row, term.cursor_col)
           w  == [term EXCEPT !.buffer[at] = Glyph(ch, term.current_attrs),
                              !.cursor_col = @ + 1]
<1>1. /\ term = [f \in Fields |-> term[f]]
      /\ term.buffer = [i \in Cells |-> term.buffer[i]]
      /\ term.cursor_row \in 0 .. Rows - 1
      /\ term.cursor_col \in 0 .. Cols - 1
  BY DEF ScreenOK
<1>2. Rows \in Nat \ {0} /\ Cols \in Nat \ {0}
  BY ScreenAssumption
<1>3. term' = IF w.cursor_col >= Cols THEN Newline(w) ELSE w
  BY <1>1, <1>2 DEF PutChar
<1>4. /\ w = [f \in Fields |-> w[f]]
      /\ w.cursor_row = term.cursor_row
      /\ w.cursor_col = term.cursor_col + 1
      /\ w.current_attrs = term.current_attrs
      /\ \A i \in Cells : i # at => w.buffer[i] = term.buffer[i]
  BY <1>1 DEF Fields
<1>5. at \in Row(term.cursor_row)
  BY <1>1 DEF Row
<1> HIDE DEF w
<1>6. CASE ~(w.cursor_col >= Cols)
  <2>1. \A i \in Cells \ Row(term.cursor_row) : term'.buffer[i] = term.buffer[i]
    BY <1>3, <1>4, <1>5, <1>6
  <2> QED
    BY <2>1 DEF OnlyCursorRow
<1>7. CASE w.cursor_col >= Cols
  <2>1. term.cursor_col = Cols - 1
    BY <1>1, <1>2, <1>4, <1>7
  <2>2. CASE term.cursor_row = Rows - 1
    <3>1. term'.buffer = ScrollUp(w)
      BY <1>2, <1>3, <1>4, <1>7, <2>2 DEF Newline, Fields
    <3>2. at = Rows * Cols - 1
      BY <2>1, <2>2, LastRow
    <3> QED
      BY <1>4, <2>2, <3>1, <3>2, ScrollMovesUp
  <2>3. CASE term.cursor_row # Rows - 1
    <3>1. ~(w.cursor_row + 1 >= Rows)
      BY <1>1, <1>2, <1>4, <2>3
    <3>2. term'.buffer = w.buffer
      BY <1>3, <1>4, <1>7, <3>1 DEF Newline, Fields
    <3>3. \A i \in Cells \ Row(term.cursor_row) : term'.buffer[i] = term.buffer[i]
      BY <1>4, <1>5, <3>2
    <3> QED
      BY <3>3 DEF OnlyCursorRow
  <2> QED
    BY <2>2, <2>3
<1> QED
  BY <1>6, <1>7

LEMMA NormalConfined ==
  ASSUME Inv, NEW b, ReceiveNormal(b)
  PROVE  OnlyCursorRow \/ MovedUp
<1>1. /\ ScreenOK(term)
      /\ term' = NormalByte(term, b)
      /\ term = [f \in Fields |-> term[f]]
  BY DEF Inv, TermOK, ReceiveNormal, ScreenOK
<1>2. CASE b = LF
  <2>1. term' = Newline(term)
    BY <1>1, <1>2 DEF NormalByte, ESC, LF, CR, BS, Printable
  <2> QED
    BY <1>1, <2>1, NewlineConfined
<1>3. CASE b \in Printable
  <2>1. term' = PutChar(term, b)
    BY <1>1, <1>3 DEF NormalByte, ESC, LF, CR, BS, Printable
  <2> QED
    BY <1>1, <2>1, PutCharConfined
<1>4. CASE b \notin {LF} \cup Printable
  <2>1. term'.buffer = term.buffer
    BY <1>1, <1>4 DEF NormalByte, ESC, LF, CR, BS, Fields
  <2> QED
    BY <2>1, SameBuffer
<1> QED
  BY <1>2, <1>3, <1>4

LEMMA FinalConfined ==
  ASSUME Inv, NEW b, ReceiveFinal(b)
  PROVE  OnlyCursorRow \/ Cleared
<1> DEFINE t == Closed(term)
           u == ExecuteCsi(t, b)
<1>1. /\ ScreenOK(term)
      /\ term' = [u EXCEPT !.parse_state = "NORMAL"]
      /\ term = [f \in Fields |-> term[f]]
  BY DEF Inv, TermOK, ReceiveFinal, CsiFinal, ScreenOK
<1>2. /\ t = [f \in Fields |-> t[f]]
      /\ t.buffer = term.buffer
      /\ t.cursor_row = term.cursor_row
      /\ t.cursor_col \in 0 .. Cols - 1
      /\ t.current_attrs = term.current_attrs
  BY <1>1 DEF Closed, Fields, ScreenOK
<1> HIDE DEF t
<1>3. CASE b = ED
  <2>1. u = ExecuteEraseDisplay(t)
    BY <1>3 DEF ExecuteCsi, SGR, CUU, CUD, CUF, CUB, CUP, ED, EL
  <2>2. CASE Param(t, 0, 0) = 2
    <3>1. term'.buffer = Erase(t, Cells)
      BY <1>1, <1>2, <2>1, <2>2 DEF ExecuteEraseDisplay, Fields
    <3> QED
      BY <1>2, <3>1 DEF Cleared, Erase
  <2>3. CASE Param(t, 0, 0) # 2
    <3>1. term'.buffer = term.buffer
      BY <1>1, <1>2, <2>1, <2>3 DEF ExecuteEraseDisplay, Fields
    <3> QED
      BY <3>1, SameBuffer
  <2> QED
    BY <2>2, <2>3
<1>4. CASE b = EL
  <2> DEFINE S == {Index(t.cursor_row, col) : col \in ErasedColumns(t)}
  <2>1. u = ExecuteEraseLine(t)
    BY <1>4 DEF ExecuteCsi, SGR, CUU, CUD, CUF, CUB, CUP, ED, EL
  <2>2. term'.buffer = Erase(t, S)
    BY <1>1, <1>2, <2>1 DEF ExecuteEraseLine, Fields
  <2>3. ErasedColumns(t) \subseteq 0 .. Cols - 1
    BY <1>2, ScreenAssumption DEF ErasedColumns
  <2>4. S \subseteq Row(term.cursor_row)
    BY <1>2, <2>3 DEF Row
  <2> QED
    BY <1>2, <2>2, <2>4 DEF OnlyCursorRow, Erase
<1>5. CASE b \notin {ED, EL}
  <2>1. u.buffer = t.buffer /\ DOMAIN u = Fields
    BY <1>2, <1>5 DEF ExecuteCsi, ExecuteSgr, ExecuteCursorMove, ExecuteCursorPosition,
                      CUU, CUD, CUF, CUB, Fields
  <2>2. term'.buffer = term.buffer
    BY <1>1, <1>2, <2>1 DEF Fields
  <2> QED
    BY <2>2, SameBuffer
<1> QED
  BY <1>3, <1>4, <1>5

(* One byte changes at most the line the cursor is on, unless it scrolls   *)
(* the screen by exactly one line or clears it: the flat array never lets  *)
(* an erase or a wrapped character spill into a neighbouring line.         *)
THEOREM RowsStayConfined ==
  ASSUME ParamsFit
  PROVE  Spec => RowConfinement
<1>1. ASSUME Inv, [Next]_vars
      PROVE  [OnlyCursorRow \/ MovedUp \/ Cleared]_vars
  <2>1. ASSUME NEW b, ReceiveNormal(b) PROVE OnlyCursorRow \/ MovedUp
    BY <1>1, <2>1, NormalConfined
  <2>2. ASSUME NEW b, ReceiveEsc(b) PROVE OnlyCursorRow
    BY <1>1, <2>2, SameBuffer DEF Inv, TermOK, ScreenOK, Fields, ReceiveEsc, EscByte
  <2>3. ASSUME NEW b, ReceiveDigit(b) PROVE OnlyCursorRow
    BY <1>1, <2>3, SameBuffer DEF Inv, TermOK, ScreenOK, Fields, ReceiveDigit, CsiDigit
  <2>4. ASSUME NEW b, ReceiveSeparator(b) PROVE OnlyCursorRow
    BY <1>1, <2>4, SameBuffer
       DEF Inv, TermOK, ScreenOK, Fields, ReceiveSeparator, CsiSeparator
  <2>5. ASSUME NEW b, ReceiveFinal(b) PROVE OnlyCursorRow \/ Cleared
    BY <1>1, <2>5, FinalConfined
  <2> QED
    BY <1>1, <2>1, <2>2, <2>3, <2>4, <2>5 DEF Next
<1> QED
  BY <1>1, InvHolds, PTL DEF Spec, RowConfinement

-----------------------------------------------------------------------------
(* The parser on its own: what it needs holds even of a program whose      *)
(* parameters overflow, because no command writes the parser's fields.     *)

RecordOK(t) == t = [f \in Fields |-> t[f]]

ParserInv ==
  /\ RecordOK(term)
  /\ term.csi_params \in [0 .. NParams - 1 -> Int]
  /\ term.csi_param_count \in 0 .. NParams
  /\ StateOK(term)

LEMMA NewlineKeepsParser ==
  ASSUME NEW t, RecordOK(t)
  PROVE  RecordOK(Newline(t)) /\ SameParser(t, Newline(t))
BY DEF RecordOK, Newline, Fields, SameParser

LEMMA PutCharKeepsParser ==
  ASSUME NEW t, NEW ch, RecordOK(t)
  PROVE  RecordOK(PutChar(t, ch)) /\ SameParser(t, PutChar(t, ch))
<1> DEFINE w == [t EXCEPT !.buffer[Index(t.cursor_row, t.cursor_col)] =
                            Glyph(ch, t.current_attrs),
                          !.cursor_col = @ + 1]
<1>1. PutChar(t, ch) \in {t, w, Newline(w)}
  BY DEF PutChar
<1>2. RecordOK(w) /\ SameParser(t, w)
  BY DEF RecordOK, Fields, SameParser
<1>3. SameParser(t, t)
  BY DEF SameParser
<1> HIDE DEF w
<1>4. RecordOK(Newline(w)) /\ SameParser(w, Newline(w))
  BY <1>2, NewlineKeepsParser
<1> QED
  BY <1>1, <1>2, <1>3, <1>4 DEF SameParser

LEMMA ExecuteCsiKeepsParser ==
  ASSUME NEW t, NEW cmd, RecordOK(t)
  PROVE  RecordOK(ExecuteCsi(t, cmd)) /\ SameParser(t, ExecuteCsi(t, cmd))
<1>1. CASE cmd \in {CUU, CUD, CUF, CUB}
  <2>1. ExecuteCsi(t, cmd) = ExecuteCursorMove(t, cmd)
    BY <1>1 DEF ExecuteCsi, SGR, CUU, CUD, CUF, CUB, CUP, ED, EL
  <2> SUFFICES RecordOK(ExecuteCursorMove(t, cmd)) /\ SameParser(t, ExecuteCursorMove(t, cmd))
    BY <2>1
  <2>2. CASE cmd = CUU
    BY <2>2 DEF ExecuteCursorMove, CUU, CUD, CUF, CUB, RecordOK, Fields, SameParser
  <2>3. CASE cmd = CUD
    BY <2>3 DEF ExecuteCursorMove, CUU, CUD, CUF, CUB, RecordOK, Fields, SameParser
  <2>4. CASE cmd = CUF
    BY <2>4 DEF ExecuteCursorMove, CUU, CUD, CUF, CUB, RecordOK, Fields, SameParser
  <2>5. CASE cmd = CUB
    BY <2>5 DEF ExecuteCursorMove, CUU, CUD, CUF, CUB, RecordOK, Fields, SameParser
  <2> QED
    BY <1>1, <2>2, <2>3, <2>4, <2>5
<1>2. CASE cmd \notin {CUU, CUD, CUF, CUB}
  <2>1. ExecuteCsi(t, cmd) \in {ExecuteSgr(t), ExecuteCursorPosition(t),
                                ExecuteEraseDisplay(t), ExecuteEraseLine(t), t}
    BY <1>2 DEF ExecuteCsi
  <2>2. RecordOK(ExecuteSgr(t)) /\ SameParser(t, ExecuteSgr(t))
    BY DEF ExecuteSgr, RecordOK, Fields, SameParser
  <2>3. RecordOK(ExecuteCursorPosition(t)) /\ SameParser(t, ExecuteCursorPosition(t))
    BY DEF ExecuteCursorPosition, RecordOK, Fields, SameParser
  <2>4. RecordOK(ExecuteEraseDisplay(t)) /\ SameParser(t, ExecuteEraseDisplay(t))
    BY DEF ExecuteEraseDisplay, RecordOK, Fields, SameParser
  <2>5. RecordOK(ExecuteEraseLine(t)) /\ SameParser(t, ExecuteEraseLine(t))
    BY DEF ExecuteEraseLine, RecordOK, Fields, SameParser
  <2> QED
    BY <2>1, <2>2, <2>3, <2>4, <2>5 DEF SameParser
<1> QED
  BY <1>1, <1>2

(* An int stays an int.                                                    *)
LEMMA IntWrapType ==
  ASSUME NEW x \in Int
  PROVE  IntWrap(x) \in Int
<1>1. MaxInt \in Nat
  BY ScreenAssumption
<1>2. x + MaxInt + 1 \in Int /\ 2 * MaxInt + 2 \in Nat \ {0}
  BY <1>1
<1>3. (x + MaxInt + 1) % (2 * MaxInt + 2) \in Int
  BY <1>2
<1> QED
  BY <1>1, <1>3 DEF IntWrap

LEMMA ParserInit == Init => ParserInv
BY ScreenAssumption DEF Init, InitTerminal, ParserInv, RecordOK, Fields, StateOK

LEMMA ParserStep == ParserInv /\ [Next]_vars => ParserInv'
<1> SUFFICES ASSUME ParserInv, [Next]_vars PROVE ParserInv'
  OBVIOUS
<1>1. /\ RecordOK(term)
      /\ term.csi_params \in [0 .. NParams - 1 -> Int]
      /\ term.csi_param_count \in 0 .. NParams
      /\ StateOK(term)
      /\ NParams \in Nat \ {0}
  BY ScreenAssumption DEF ParserInv
<1>2. ASSUME NEW b, ReceiveNormal(b) PROVE ParserInv'
  <2>1. \/ RecordOK(term') /\ SameParser(term, term')
        \/ term' = [term EXCEPT !.parse_state = "ESC"]
    <3>1. term' = NormalByte(term, b)
      BY <1>2 DEF ReceiveNormal
    <3>2. CASE b = LF \/ b \in Printable
      <4>1. term' \in {Newline(term), PutChar(term, b)}
        BY <3>1, <3>2 DEF NormalByte, ESC, LF, CR, BS, Printable
      <4> QED
        BY <1>1, <4>1, NewlineKeepsParser, PutCharKeepsParser
    <3>3. CASE b = ESC
      BY <3>1, <3>3 DEF NormalByte, ESC, LF, CR, BS, Printable
    <3>4. CASE b = CR
      <4>1. term' = [term EXCEPT !.cursor_col = 0]
        BY <3>1, <3>4 DEF NormalByte, ESC, LF, CR, BS, Printable
      <4> QED
        BY <1>1, <4>1 DEF RecordOK, Fields, SameParser
    <3>5. CASE b = BS
      <4>1. term' = [term EXCEPT !.cursor_col = IF @ > 0 THEN @ - 1 ELSE @]
        BY <3>1, <3>5 DEF NormalByte, ESC, LF, CR, BS, Printable
      <4> QED
        BY <1>1, <4>1 DEF RecordOK, Fields, SameParser
    <3>6. CASE b \notin {ESC, LF, CR, BS} \cup Printable
      <4>1. term' = term
        BY <3>1, <3>6 DEF NormalByte
      <4> QED
        BY <1>1, <4>1 DEF SameParser
    <3> QED
      BY <3>2, <3>3, <3>4, <3>5, <3>6
  <2>2. CASE RecordOK(term') /\ SameParser(term, term')
    BY <1>1, <2>2 DEF ParserInv, SameParser, StateOK
  <2>3. CASE term' = [term EXCEPT !.parse_state = "ESC"]
    BY <1>1, <2>3 DEF ParserInv, RecordOK, Fields, StateOK
  <2> QED
    BY <2>1, <2>2, <2>3
<1>3. ASSUME NEW b, ReceiveEsc(b) PROVE ParserInv'
  <2>1. term' = EscByte(term, b)
    BY <1>3 DEF ReceiveEsc
  <2>2. CASE b = OpenBracket
    <3>1. /\ RecordOK(term')
          /\ term'.csi_params = [i \in 0 .. NParams - 1 |-> 0]
          /\ term'.csi_param_count = 0
          /\ term'.parse_state = "CSI"
      BY <1>1, <2>1, <2>2 DEF EscByte, RecordOK, Fields
    <3> QED
      BY <1>1, <3>1 DEF ParserInv, StateOK
  <2>3. CASE b # OpenBracket
    <3>1. /\ RecordOK(term')
          /\ term'.csi_params = term.csi_params
          /\ term'.csi_param_count = term.csi_param_count
          /\ term'.parse_state = "NORMAL"
      BY <1>1, <2>1, <2>3 DEF EscByte, RecordOK, Fields
    <3> QED
      BY <1>1, <3>1 DEF ParserInv, StateOK
  <2> QED
    BY <2>2, <2>3
<1>4. ASSUME NEW b, ReceiveDigit(b) PROVE ParserInv'
  <2> DEFINE i == term.csi_param_count
             value == IntWrap(term.csi_params[i] * 10 + (b - 48))
  <2>1. /\ i \in 0 .. NParams - 1
        /\ \A j \in 0 .. NParams - 1 : j > i => term.csi_params[j] = 0
    BY <1>1, <1>4 DEF ReceiveDigit, InCsi, StateOK
  <2>2. value \in Int
    <3>1. term.csi_params[i] * 10 + (b - 48) \in Int
      BY <1>1, <1>4, <2>1 DEF ReceiveDigit, Digits
    <3> QED
      BY <3>1, IntWrapType
  <2> HIDE DEF value
  <2>3. /\ RecordOK(term')
        /\ term'.csi_params = [term.csi_params EXCEPT ![i] = value]
        /\ term'.csi_param_count = i
        /\ term'.parse_state = "CSI_PARAM"
    BY <1>1, <1>4 DEF ReceiveDigit, CsiDigit, RecordOK, Fields, value
  <2>4. term'.csi_params \in [0 .. NParams - 1 -> Int]
    BY <1>1, <2>2, <2>3
  <2>5. \A j \in 0 .. NParams - 1 : j # i => term'.csi_params[j] = term.csi_params[j]
    BY <1>1, <2>3
  <2> QED
    BY <1>1, <2>1, <2>3, <2>4, <2>5 DEF ParserInv, StateOK
<1>5. ASSUME NEW b, ReceiveSeparator(b) PROVE ParserInv'
  <2>1. /\ RecordOK(term')
        /\ term'.csi_param_count = IF term.csi_param_count + 1 >= NParams
                                    THEN NParams - 1 ELSE term.csi_param_count + 1
        /\ term'.csi_params = term.csi_params
        /\ term'.parse_state = "CSI_PARAM"
        /\ \A j \in 0 .. NParams - 1 : j > term.csi_param_count => term.csi_params[j] = 0
    BY <1>1, <1>5 DEF ReceiveSeparator, CsiSeparator, RecordOK, Fields, InCsi, StateOK
  <2>2. /\ term'.csi_param_count \in 0 .. NParams - 1
        /\ \A j \in 0 .. NParams - 1 :
             j > term'.csi_param_count => j > term.csi_param_count
    BY <1>1, <2>1
  <2> QED
    BY <1>1, <2>1, <2>2 DEF ParserInv, StateOK
<1>6. ASSUME NEW b, ReceiveFinal(b) PROVE ParserInv'
  <2> DEFINE t == Closed(term)
             u == ExecuteCsi(t, b)
  <2>1. term' = [u EXCEPT !.parse_state = "NORMAL"]
    BY <1>6 DEF ReceiveFinal, CsiFinal
  <2>2. /\ RecordOK(t)
        /\ t.csi_params = term.csi_params
        /\ t.csi_param_count \in 0 .. NParams
    <3>1. term.csi_param_count < NParams
      BY <1>1, <1>6 DEF ReceiveFinal, InCsi, StateOK
    <3>2. /\ RecordOK(t)
          /\ t.csi_params = term.csi_params
          /\ t.csi_param_count \in {term.csi_param_count, term.csi_param_count + 1}
      BY <1>1 DEF Closed, RecordOK, Fields
    <3> QED
      BY <1>1, <3>1, <3>2
  <2> HIDE DEF t
  <2>3. RecordOK(u) /\ SameParser(t, u)
    BY <2>2, ExecuteCsiKeepsParser
  <2> HIDE DEF u
  <2>4. /\ RecordOK(term')
        /\ term'.parse_state = "NORMAL"
        /\ term'.csi_params = t.csi_params
        /\ term'.csi_param_count = t.csi_param_count
    BY <2>1, <2>3 DEF RecordOK, SameParser, Fields
  <2> QED
    BY <1>1, <2>2, <2>4 DEF ParserInv, StateOK
<1>7. CASE UNCHANGED vars
  BY <1>7 DEF vars, ParserInv
<1> QED
  BY <1>2, <1>3, <1>4, <1>5, <1>6, <1>7 DEF Next

(* What each state of terminal_process_bytes says of csi_params and        *)
(* csi_param_count holds after every byte, also when a parameter overflows.*)
THEOREM ParserInvHolds == Spec => []ParserInv
BY ParserInit, ParserStep, PTL DEF Spec

(* However many parameters a sequence has and however large they are,      *)
(* csi_params is indexed inside the array.                                 *)
THEOREM SlotAlwaysExists == Spec => []SlotExists
<1>1. ParserInv => SlotExists
  <2> SUFFICES ASSUME ParserInv PROVE SlotExists
    OBVIOUS
  <2>1. term.csi_param_count \in 0 .. NParams
    BY DEF ParserInv
  <2>2. InCsi => term.csi_param_count < NParams
    BY DEF ParserInv, StateOK, InCsi
  <2> QED
    BY <2>1, <2>2, ScreenAssumption DEF SlotExists
<1> QED
  BY <1>1, ParserInvHolds, PTL

(* No sequence reads a parameter that an earlier one left behind.          *)
THEOREM ParamsAlwaysFresh == Spec => []FreshParams
<1>1. ParserInv => FreshParams
  BY DEF ParserInv, StateOK, FreshParams, InCsi
<1> QED
  BY <1>1, ParserInvHolds, PTL

-----------------------------------------------------------------------------
(* execute_sgr: its loop is a recursive function over the parameters, and  *)
(* what it computes is proved by induction over their number.              *)

(* Induction over the natural numbers, for a set instead of a predicate.   *)
LEMMA SetInduction ==
  ASSUME NEW S, 0 \in S, \A n \in Nat : n \in S => n + 1 \in S
  PROVE Nat \subseteq S
<1>1. SUFFICES ASSUME Nat \ S # {} PROVE FALSE
  OBVIOUS
<1> DEFINE T == Nat \ S
           R == OpToRel(<, Nat)
<1>2. PICK n \in T : \A y \in T : ~ (<<y, n>> \in R)
  <2>1. IsWellFoundedOn(R, Nat)
    BY NatLessThanWellFounded
  <2>2. T \subseteq Nat /\ T # {}
    BY <1>1
  <2> HIDE DEF T, R
  <2> QED
    BY <2>1, <2>2, WFMin
<1>3. \A y \in T : ~ (y < n)
  BY <1>2 DEF OpToRel
<1>4. n - 1 \in Nat /\ n - 1 < n
  OBVIOUS
<1>5. n - 1 \in S
  BY <1>3, <1>4
<1> QED
  BY <1>5, <1>4

LEMMA BoundedInduction ==
  ASSUME NEW S, NEW m \in Nat, 0 \in S, \A n \in 0 .. m - 1 : n \in S => n + 1 \in S
  PROVE  0 .. m \subseteq S
<1> DEFINE T == {n \in Nat : n <= m => n \in S}
<1>1. 0 \in T
  OBVIOUS
<1>2. \A n \in Nat : n \in T => n + 1 \in T
  OBVIOUS
<1> HIDE DEF T
<1>3. Nat \subseteq T
  BY <1>1, <1>2, SetInduction
<1> QED
  BY <1>3 DEF T

(* The recursive function SgrLoop(t) satisfies its equation.               *)
LEMMA SgrLoopDef ==
  ASSUME NEW t, t.csi_param_count \in Nat
  PROVE  SgrLoop(t) = [n \in 0 .. t.csi_param_count |->
           IF n = 0 THEN [skip |-> 0, attrs |-> t.current_attrs]
                    ELSE SgrParam(t, SgrLoop(t)[n - 1], n - 1)]
<1> DEFINE base == [skip |-> 0, attrs |-> t.current_attrs]
           Loop(f, m) == f = [n \in 0 .. m |-> IF n = 0 THEN base ELSE SgrParam(t, f[n - 1], n - 1)]
           S == {m \in Nat : \E h : Loop(h, m)}
<1>1. 0 \in S
  <2>1. Loop([n \in 0 .. 0 |-> base], 0)
    OBVIOUS
  <2> QED
    BY <2>1
<1>2. ASSUME NEW m \in Nat, m \in S PROVE m + 1 \in S
  <2>1. PICK f : Loop(f, m)
    BY <1>2
  <2> DEFINE g == [n \in 0 .. m + 1 |-> IF n = m + 1 THEN SgrParam(t, f[m], m) ELSE f[n]]
  <2>2. ASSUME NEW n \in 0 .. m + 1
        PROVE  g[n] = IF n = 0 THEN base ELSE SgrParam(t, g[n - 1], n - 1)
    <3>1. \A k \in 0 .. m : g[k] = f[k]
      BY DEF g
    <3>2. CASE n = m + 1
      <4>1. n # 0 /\ n - 1 = m /\ g[n - 1] = f[m]
        BY <3>1, <3>2
      <4> QED
        BY <3>2, <4>1
    <3>3. CASE n # m + 1
      <4>1. n \in 0 .. m
        BY <3>3
      <4>2. n # 0 => n - 1 \in 0 .. m
        BY <4>1
      <4>3. g[n] = f[n] /\ (n # 0 => g[n - 1] = f[n - 1])
        BY <3>1, <4>1, <4>2
      <4> QED
        BY <2>1, <4>1, <4>3
    <3> QED
      BY <3>2, <3>3
  <2>3. Loop(g, m + 1)
    BY <2>2
  <2> HIDE DEF g, Loop
  <2>4. \E h : Loop(h, m + 1)
    BY <2>3
  <2> QED
    BY <2>4
<1> HIDE DEF S
<1>3. t.csi_param_count \in S
  BY <1>1, <1>2, SetInduction
<1>4. \E h : Loop(h, t.csi_param_count)
  BY <1>3 DEF S
<1> QED
  BY <1>4 DEF SgrLoop

(* The parameters of the sequence t executes, as SgrReference lists them.  *)
List(t) == [i \in 1 .. t.csi_param_count |-> t.csi_params[i - 1]]

(* The fields execute_sgr reads have their types.                          *)
SgrOK(t) ==
  /\ t.current_attrs \in Attrs
  /\ t.csi_param_count \in 0 .. NParams
  /\ t.csi_params \in [0 .. NParams - 1 -> Int]

Acc == [skip : 0 .. 2, attrs : Attrs]

LEMMA FlagTables ==
  /\ DOMAIN FlagOn = {1, 4, 5, 7} /\ DOMAIN FlagOff = {22, 24, 25, 27}
  /\ FlagOn[1] = "bold" /\ FlagOn[4] = "underline"
  /\ FlagOn[5] = "blink" /\ FlagOn[7] = "reverse"
  /\ FlagOff[22] = "bold" /\ FlagOff[24] = "underline"
  /\ FlagOff[25] = "blink" /\ FlagOff[27] = "reverse"
BY DEF FlagOn, FlagOff

LEMMA SgrSingleType ==
  ASSUME NEW a \in Attrs, NEW p \in Int
  PROVE  SgrSingle(a, p) \in Attrs
<1>1. DefaultAttrs \in Attrs
  BY DEF DefaultAttrs, Attrs
<1>2. CASE p \in DOMAIN FlagOn \cup DOMAIN FlagOff
  <2>1. \A q \in DOMAIN FlagOn : FlagOn[q] \in Flags
    BY DEF FlagOn, Flags
  <2> QED
    BY <1>2, <2>1, FlagTables DEF SgrSingle, Attrs
<1>3. CASE p \in 30 .. 37
  BY <1>3, FlagTables DEF SgrSingle, Attrs
<1>4. CASE p \in 40 .. 47
  BY <1>4, FlagTables DEF SgrSingle, Attrs
<1>5. CASE p \in {39, 49}
  BY <1>5, FlagTables DEF SgrSingle, Attrs
<1>6. CASE p \notin {0, 39, 49} \cup 30 .. 37 \cup 40 .. 47 \cup DOMAIN FlagOn \cup DOMAIN FlagOff
  BY <1>6 DEF SgrSingle
<1> QED
  BY <1>1, <1>2, <1>3, <1>4, <1>5, <1>6, FlagTables DEF SgrSingle

LEMMA SgrExtendedType ==
  ASSUME NEW a \in Attrs, NEW p, NEW n \in Int
  PROVE  SgrExtended(a, p, n) \in Attrs
<1>1. Uint8(n) \in 0 .. 255
  BY DEF Uint8
<1> HIDE DEF Uint8
<1> QED
  BY <1>1 DEF SgrExtended, Attrs

(* One iteration of the loop, of the parameter that List(t) has at n + 1.  *)
LEMMA SgrParamType ==
  ASSUME NEW t, SgrOK(t), NEW n \in 0 .. t.csi_param_count - 1, NEW acc \in Acc
  PROVE  /\ SgrParam(t, acc, n) \in Acc
         /\ acc.skip > 0 => SgrParam(t, acc, n) = [skip |-> acc.skip - 1, attrs |-> acc.attrs]
         /\ acc.skip = 0 /\ Extended(List(t), n + 1) =>
              SgrParam(t, acc, n) =
                [skip |-> 2, attrs |-> SgrExtended(acc.attrs, List(t)[n + 1], List(t)[n + 3])]
         /\ acc.skip = 0 /\ ~ Extended(List(t), n + 1) =>
              SgrParam(t, acc, n) = [skip |-> 0, attrs |-> SgrSingle(acc.attrs, List(t)[n + 1])]
<1> DEFINE p == t.csi_params[n]
<1>1. /\ NParams \in Nat \ {0} /\ t.csi_param_count \in 0 .. NParams
      /\ t.csi_params \in [0 .. NParams - 1 -> Int]
  BY ScreenAssumption DEF SgrOK
<1>2. p \in Int /\ p = List(t)[n + 1]
  BY <1>1 DEF List
<1>3. IsExtendedColor(t, n) <=> Extended(List(t), n + 1)
  <2>1. n + 2 < t.csi_param_count <=> n + 3 \in DOMAIN List(t)
    BY <1>1 DEF List
  <2>2. n + 2 < t.csi_param_count => t.csi_params[n + 1] = List(t)[n + 2]
    BY <1>1 DEF List
  <2> QED
    BY <1>1, <1>2, <2>1, <2>2 DEF IsExtendedColor, Extended
<1>4. IsExtendedColor(t, n) => t.csi_params[n + 2] = List(t)[n + 3] /\ t.csi_params[n + 2] \in Int
  <2> SUFFICES ASSUME n + 2 < t.csi_param_count
               PROVE  t.csi_params[n + 2] = List(t)[n + 3] /\ t.csi_params[n + 2] \in Int
    BY DEF IsExtendedColor
  <2>1. /\ n + 2 \in 0 .. NParams - 1 /\ n + 3 \in 1 .. t.csi_param_count
        /\ (n + 3) - 1 = n + 2
    BY <1>1
  <2> QED
    BY <1>1, <2>1 DEF List
<1>5. acc.skip \in 0 .. 2 /\ acc.attrs \in Attrs /\ acc = [skip |-> acc.skip, attrs |-> acc.attrs]
  BY DEF Acc
<1>6. CASE acc.skip > 0
  <2>1. SgrParam(t, acc, n) = [acc EXCEPT !.skip = @ - 1]
    BY <1>6 DEF SgrParam
  <2> QED
    BY <1>5, <1>6, <2>1 DEF Acc
<1>7. CASE acc.skip = 0 /\ IsExtendedColor(t, n)
  <2>1. SgrParam(t, acc, n) =
          [skip |-> 2, attrs |-> SgrExtended(acc.attrs, p, t.csi_params[n + 2])]
    BY <1>7 DEF SgrParam
  <2>2. SgrExtended(acc.attrs, p, t.csi_params[n + 2]) \in Attrs
    BY <1>4, <1>5, <1>7, SgrExtendedType
  <2> QED
    BY <1>2, <1>3, <1>4, <1>7, <2>1, <2>2 DEF Acc
<1>8. CASE acc.skip = 0 /\ ~ IsExtendedColor(t, n)
  <2>1. SgrParam(t, acc, n) = [skip |-> 0, attrs |-> SgrSingle(acc.attrs, p)]
    BY <1>8 DEF SgrParam
  <2>2. SgrSingle(acc.attrs, p) \in Attrs
    BY <1>2, <1>5, SgrSingleType
  <2> QED
    BY <1>2, <1>3, <1>8, <2>1, <2>2 DEF Acc
<1> QED
  BY <1>5, <1>6, <1>7, <1>8

LEMMA SgrLoopStep ==
  ASSUME NEW t, SgrOK(t)
  PROVE  /\ SgrLoop(t)[0] = [skip |-> 0, attrs |-> t.current_attrs]
         /\ \A n \in 0 .. t.csi_param_count - 1 :
              SgrLoop(t)[n + 1] = SgrParam(t, SgrLoop(t)[n], n)
<1>1. t.csi_param_count \in Nat
  BY ScreenAssumption DEF SgrOK
<1> DEFINE base == [skip |-> 0, attrs |-> t.current_attrs]
           F == SgrLoop(t)
<1>2. F = [n \in 0 .. t.csi_param_count |-> IF n = 0 THEN base ELSE SgrParam(t, F[n - 1], n - 1)]
  BY <1>1, SgrLoopDef
<1> HIDE DEF F, base
<1>3. F[0] = base
  BY <1>1, <1>2
<1>4. ASSUME NEW n \in 0 .. t.csi_param_count - 1 PROVE F[n + 1] = SgrParam(t, F[n], n)
  <2>1. n + 1 \in 0 .. t.csi_param_count /\ n + 1 # 0 /\ (n + 1) - 1 = n
    BY <1>1
  <2> QED
    BY <1>2, <2>1
<1> QED
  BY <1>3, <1>4 DEF F, base

LEMMA SgrLoopType ==
  ASSUME NEW t, SgrOK(t)
  PROVE  \A n \in 0 .. t.csi_param_count : SgrLoop(t)[n] \in Acc
<1>1. t.csi_param_count \in Nat /\ t.current_attrs \in Attrs
  BY ScreenAssumption DEF SgrOK
<1> DEFINE S == {n \in 0 .. t.csi_param_count : SgrLoop(t)[n] \in Acc}
<1>2. 0 \in S
  <2>1. SgrLoop(t)[0] = [skip |-> 0, attrs |-> t.current_attrs]
    BY SgrLoopStep
  <2>2. SgrLoop(t)[0] \in Acc
    BY <1>1, <2>1 DEF Acc
  <2> QED
    BY <1>1, <2>2
<1>3. ASSUME NEW n \in 0 .. t.csi_param_count - 1, n \in S PROVE n + 1 \in S
  <2>1. SgrLoop(t)[n] \in Acc
    BY <1>3
  <2>2. SgrParam(t, SgrLoop(t)[n], n) \in Acc
    BY <2>1, SgrParamType
  <2>3. SgrLoop(t)[n + 1] \in Acc
    BY <2>2, SgrLoopStep
  <2> QED
    BY <1>1, <2>3
<1> HIDE DEF S
<1>4. 0 .. t.csi_param_count \subseteq S
  BY <1>1, <1>2, <1>3, BoundedInduction
<1> QED
  BY <1>4 DEF S

(* execute_sgr leaves attributes that are of their type.                   *)
LEMMA SgrAttrsType ==
  ASSUME NEW t, SgrOK(t)
  PROVE  SgrAttrs(t) \in Attrs
<1>1. DefaultAttrs \in Attrs
  BY DEF DefaultAttrs, Attrs
<1>2. SgrLoop(t)[t.csi_param_count] \in Acc
  BY SgrLoopType, ScreenAssumption DEF SgrOK
<1> QED
  BY <1>1, <1>2 DEF SgrAttrs, Acc

(* The parameters an extended colour still has to consume after n of them. *)
Skip(t, n) == SgrLoop(t)[n].skip

LEMMA SkipStep ==
  ASSUME NEW t, SgrOK(t)
  PROVE  /\ Skip(t, 0) = 0
         /\ \A n \in 0 .. t.csi_param_count : Skip(t, n) \in 0 .. 2
         /\ \A n \in 0 .. t.csi_param_count - 1 :
              Skip(t, n + 1) = IF Skip(t, n) > 0 THEN Skip(t, n) - 1
                               ELSE IF Extended(List(t), n + 1) THEN 2 ELSE 0
<1>1. Skip(t, 0) = 0
  <2>1. SgrLoop(t)[0] = [skip |-> 0, attrs |-> t.current_attrs]
    BY SgrLoopStep
  <2> QED
    BY <2>1 DEF Skip
<1>2. ASSUME NEW n \in 0 .. t.csi_param_count PROVE Skip(t, n) \in 0 .. 2
  BY SgrLoopType DEF Skip, Acc
<1>3. ASSUME NEW n \in 0 .. t.csi_param_count - 1
      PROVE  Skip(t, n + 1) = IF Skip(t, n) > 0 THEN Skip(t, n) - 1
                               ELSE IF Extended(List(t), n + 1) THEN 2 ELSE 0
  <2> DEFINE acc == SgrLoop(t)[n]
  <2>1. n \in 0 .. t.csi_param_count
    BY ScreenAssumption DEF SgrOK
  <2>2. acc \in Acc /\ acc.skip \in 0 .. 2 /\ acc.skip = Skip(t, n)
    BY <2>1, SgrLoopType DEF Acc, Skip
  <2>3. SgrLoop(t)[n + 1] = SgrParam(t, acc, n)
    BY SgrLoopStep
  <2> HIDE DEF acc
  <2>4. CASE acc.skip > 0
    <3>1. SgrParam(t, acc, n) = [skip |-> acc.skip - 1, attrs |-> acc.attrs]
      BY <2>2, <2>4, SgrParamType
    <3> QED
      BY <2>2, <2>3, <2>4, <3>1 DEF Skip
  <2>5. CASE acc.skip = 0 /\ Extended(List(t), n + 1)
    <3>1. SgrParam(t, acc, n).skip = 2
      BY <2>2, <2>5, SgrParamType
    <3> QED
      BY <2>2, <2>3, <2>5, <3>1 DEF Skip
  <2>6. CASE acc.skip = 0 /\ ~ Extended(List(t), n + 1)
    <3>1. SgrParam(t, acc, n).skip = 0
      BY <2>2, <2>6, SgrParamType
    <3> QED
      BY <2>2, <2>3, <2>6, <3>1 DEF Skip
  <2> QED
    BY <2>2, <2>4, <2>5, <2>6
<1> QED
  BY <1>1, <1>2, <1>3

(* The loop is between two settings, or after the first or the second      *)
(* parameter of an extended colour.                                        *)
LEMMA SkipPlace ==
  ASSUME NEW t, SgrOK(t), NEW n \in 0 .. t.csi_param_count
  PROVE  /\ Skip(t, n) = 2 <=> n >= 1 /\ Skip(t, n - 1) = 0 /\ Extended(List(t), n)
         /\ Skip(t, n) = 1 <=> n >= 2 /\ Skip(t, n - 2) = 0 /\ Extended(List(t), n - 1)
         /\ Skip(t, n) = 0 <=> \/ n = 0
                               \/ n >= 1 /\ Skip(t, n - 1) = 0 /\ ~ Extended(List(t), n)
                               \/ n >= 3 /\ Skip(t, n - 3) = 0 /\ Extended(List(t), n - 2)
<1> DEFINE k == t.csi_param_count
           X(i) == Extended(List(t), i)
<1>1. k \in Nat
  BY ScreenAssumption DEF SgrOK
<1>2. \A m \in 0 .. k : Skip(t, m) \in 0 .. 2
  BY SkipStep
<1>3. Skip(t, 0) = 0
  BY SkipStep
<1>4. \A m \in 1 .. k : Skip(t, m) = IF Skip(t, m - 1) > 0 THEN Skip(t, m - 1) - 1
                                     ELSE IF X(m) THEN 2 ELSE 0
  <2> TAKE m \in 1 .. k
  <2>1. m - 1 \in 0 .. k - 1 /\ (m - 1) + 1 = m
    BY <1>1
  <2> QED
    BY <2>1, SkipStep
<1> HIDE DEF k, X
<1>5. \A m \in 0 .. k : Skip(t, m) = 2 <=> m >= 1 /\ Skip(t, m - 1) = 0 /\ X(m)
  <2> TAKE m \in 0 .. k
  <2>1. CASE m = 0
    BY <1>3, <2>1
  <2>2. CASE m # 0
    <3>1. m \in 1 .. k /\ m - 1 \in 0 .. k
      BY <1>1, <2>2
    <3> QED
      BY <1>2, <1>4, <3>1
  <2> QED
    BY <2>1, <2>2
<1>6. \A m \in 0 .. k : Skip(t, m) = 1 <=> m >= 2 /\ Skip(t, m - 2) = 0 /\ X(m - 1)
  <2> TAKE m \in 0 .. k
  <2>1. CASE m = 0
    BY <1>3, <2>1
  <2>2. CASE m # 0
    <3>1. m \in 1 .. k /\ m - 1 \in 0 .. k /\ (m - 1) - 1 = m - 2 /\ (m - 1 >= 1 <=> m >= 2)
      BY <1>1, <2>2
    <3>2. Skip(t, m) = 1 <=> Skip(t, m - 1) = 2
      BY <1>2, <1>4, <3>1
    <3> QED
      BY <1>5, <3>1, <3>2
  <2> QED
    BY <2>1, <2>2
<1>7. \A m \in 0 .. k : Skip(t, m) = 0 <=>
          \/ m = 0
          \/ m >= 1 /\ Skip(t, m - 1) = 0 /\ ~ X(m)
          \/ m >= 3 /\ Skip(t, m - 3) = 0 /\ X(m - 2)
  <2> TAKE m \in 0 .. k
  <2>1. CASE m = 0
    BY <1>3, <2>1
  <2>2. CASE m # 0
    <3>1. /\ m \in 1 .. k /\ m - 1 \in 0 .. k /\ (m - 1) - 2 = m - 3 /\ (m - 1) - 1 = m - 2
          /\ (m - 1 >= 2 <=> m >= 3)
      BY <1>1, <2>2
    <3>2. Skip(t, m) = 0 <=> Skip(t, m - 1) = 1 \/ (Skip(t, m - 1) = 0 /\ ~ X(m))
      BY <1>2, <1>4, <3>1
    <3> QED
      BY <1>6, <3>1, <3>2
  <2> QED
    BY <2>1, <2>2
<1> QED
  BY <1>5, <1>6, <1>7 DEF X, k

(* There is exactly one way to cut the list, and the loop finds it.        *)
LEMMA CutFound ==
  ASSUME NEW t, SgrOK(t), NEW S \in SUBSET (1 .. t.csi_param_count)
  PROVE  IsCut(S, List(t)) <=> S = {i \in 1 .. t.csi_param_count : Skip(t, i - 1) = 0}
<1> DEFINE k == t.csi_param_count
           X(i) == Extended(List(t), i)
           Z == {i \in 1 .. k : Skip(t, i - 1) = 0}
<1>1. k \in Nat /\ DOMAIN List(t) = 1 .. k
  BY ScreenAssumption DEF SgrOK, List
<1>2. \A n \in 0 .. k : Skip(t, n) = 0 <=>
          \/ n = 0
          \/ n >= 1 /\ Skip(t, n - 1) = 0 /\ ~ X(n)
          \/ n >= 3 /\ Skip(t, n - 3) = 0 /\ X(n - 2)
  BY SkipPlace
<1>3. IsCut(S, List(t)) <=>
        \A i \in 1 .. k : i \in S <=> \/ i = 1
                                      \/ i - 1 \in S /\ ~ X(i - 1)
                                      \/ i - 3 \in S /\ X(i - 3)
  BY <1>1 DEF IsCut
<1> HIDE DEF k, X
<1>4. \A i \in 1 .. k : i \in Z <=> \/ i = 1
                                    \/ i - 1 \in Z /\ ~ X(i - 1)
                                    \/ i - 3 \in Z /\ X(i - 3)
  <2> TAKE i \in 1 .. k
  <2>1. i - 1 \in 0 .. k /\ (i - 1) - 2 = i - 3 /\ (i - 1) - 3 = (i - 3) - 1
    BY <1>1
  <2>2. /\ i - 1 \in Z <=> i - 1 >= 1 /\ Skip(t, (i - 1) - 1) = 0
        /\ i - 3 \in Z <=> i - 1 >= 3 /\ Skip(t, (i - 3) - 1) = 0
    BY <1>1
  <2>3. i \in Z <=> Skip(t, i - 1) = 0
    OBVIOUS
  <2> HIDE DEF Z
  <2>4. Skip(t, i - 1) = 0 <=>
          \/ i - 1 = 0
          \/ i - 1 >= 1 /\ Skip(t, (i - 1) - 1) = 0 /\ ~ X(i - 1)
          \/ i - 1 >= 3 /\ Skip(t, (i - 1) - 3) = 0 /\ X((i - 1) - 2)
    BY <1>2, <2>1
  <2> QED
    BY <2>1, <2>2, <2>3, <2>4
<1>5. ASSUME \A i \in 1 .. k : i \in S <=> \/ i = 1
                                           \/ i - 1 \in S /\ ~ X(i - 1)
                                           \/ i - 3 \in S /\ X(i - 3)
      PROVE  S = Z
  <2> DEFINE Same == {n \in 0 .. k : \A i \in 1 .. n : i \in S <=> i \in Z}
  <2> HIDE DEF Z
  <2>1. 0 \in Same
    BY <1>1
  <2>2. ASSUME NEW n \in 0 .. k - 1, n \in Same PROVE n + 1 \in Same
    <3>1. n + 1 \in 1 .. k /\ n + 1 \in 0 .. k /\ (n + 1) - 1 = n
      BY <1>1
    <3>2. \A i \in 1 .. n : i \in S <=> i \in Z
      BY <2>2
    <3>3. S \subseteq 1 .. k /\ Z \subseteq 1 .. k
      BY DEF Z, k
    <3>4. (n + 1) - 1 \in S <=> (n + 1) - 1 \in Z
      BY <1>1, <3>2, <3>3
    <3>5. (n + 1) - 3 \in S <=> (n + 1) - 3 \in Z
      BY <1>1, <3>2, <3>3
    <3>6. n + 1 \in S <=> n + 1 \in Z
      BY <1>4, <1>5, <3>1, <3>4, <3>5
    <3>7. \A i \in 1 .. n + 1 : i \in 1 .. n \/ i = n + 1
      OBVIOUS
    <3> QED
      BY <3>1, <3>2, <3>6, <3>7
  <2> HIDE DEF Same
  <2>3. k \in Same
    <3>1. 0 .. k \subseteq Same
      BY <1>1, <2>1, <2>2, BoundedInduction
    <3> QED
      BY <1>1, <3>1
  <2>4. S \subseteq 1 .. k /\ Z \subseteq 1 .. k
    BY DEF Z, k
  <2> QED
    BY <2>3, <2>4 DEF Same
<1>6. S = Z => \A i \in 1 .. k : i \in S <=> \/ i = 1
                                             \/ i - 1 \in S /\ ~ X(i - 1)
                                             \/ i - 3 \in S /\ X(i - 3)
  <2> HIDE DEF Z
  <2> QED
    BY <1>4
<1> QED
  BY <1>3, <1>5, <1>6 DEF Z, k

LEMMA SettingsFound ==
  ASSUME NEW t, SgrOK(t)
  PROVE  Settings(List(t)) = {i \in 1 .. t.csi_param_count : Skip(t, i - 1) = 0}
<1> DEFINE Z == {i \in 1 .. t.csi_param_count : Skip(t, i - 1) = 0}
<1>1. DOMAIN List(t) = 1 .. t.csi_param_count
  BY DEF List
<1>2. Z \in SUBSET DOMAIN List(t) /\ IsCut(Z, List(t))
  BY <1>1, CutFound
<1>3. \A S \in SUBSET DOMAIN List(t) : IsCut(S, List(t)) => S = Z
  BY <1>1, CutFound
<1> HIDE DEF Z
<1>4. Settings(List(t)) = Z
  BY <1>2, <1>3 DEF Settings
<1> QED
  BY <1>4 DEF Z

(* What the setting at place i makes of the attributes a.                  *)
AfterSetting(a, params, i) ==
  IF Extended(params, i) THEN SgrExtended(a, params[i], params[i + 2])
                         ELSE SgrSingle(a, params[i])

SetsFlag(params, i, f) == params[i] \in {0, OnCode[f], OffCode[f]}

(* A setting gives a colour its value, or leaves it alone.                 *)
LEMMA SettingColors ==
  ASSUME NEW params, NEW i, params[i] \in Int, NEW a \in Attrs
  PROVE  /\ AfterSetting(a, params, i).fg_color =
              IF SetsColor(params, i, 30) THEN ColorSet(params, i, 30, 7) ELSE a.fg_color
         /\ AfterSetting(a, params, i).bg_color =
              IF SetsColor(params, i, 40) THEN ColorSet(params, i, 40, 0) ELSE a.bg_color
<1> DEFINE p == params[i]
           b == AfterSetting(a, params, i)
<1>1. /\ DOMAIN FlagOn = {1, 4, 5, 7} /\ DOMAIN FlagOff = {22, 24, 25, 27}
      /\ DOMAIN a = {"fg_color", "bg_color", "attrs"}
      /\ p \in Int
  BY FlagTables DEF Attrs
<1>2. CASE Extended(params, i)
  <2>1. p \in {38, 48} /\ b = SgrExtended(a, p, params[i + 2])
    BY <1>2 DEF Extended, AfterSetting
  <2>2. CASE p = 38
    <3>1. b.fg_color = params[i + 2] % 256 /\ b.bg_color = a.bg_color
      BY <1>1, <2>1, <2>2 DEF SgrExtended, Uint8
    <3>2. SetsColor(params, i, 30) /\ ~ SetsColor(params, i, 40)
      BY <1>2, <2>2 DEF SetsColor
    <3>3. ColorSet(params, i, 30, 7) = params[i + 2] % 256
      BY <2>2 DEF ColorSet
    <3> QED
      BY <3>1, <3>2, <3>3
  <2>3. CASE p = 48
    <3>1. b.bg_color = params[i + 2] % 256 /\ b.fg_color = a.fg_color
      BY <1>1, <2>1, <2>3 DEF SgrExtended, Uint8
    <3>2. SetsColor(params, i, 40) /\ ~ SetsColor(params, i, 30)
      BY <1>2, <2>3 DEF SetsColor
    <3>3. ColorSet(params, i, 40, 0) = params[i + 2] % 256
      BY <2>3 DEF ColorSet
    <3> QED
      BY <3>1, <3>2, <3>3
  <2> QED
    BY <2>1, <2>2, <2>3
<1>3. CASE ~ Extended(params, i)
  <2>1. b = SgrSingle(a, p)
    BY <1>3 DEF AfterSetting
  <2>2. /\ SetsColor(params, i, 30) <=> p \in {0, 39} \cup 30 .. 37
        /\ SetsColor(params, i, 40) <=> p \in {0, 49} \cup 40 .. 47
    BY <1>3 DEF SetsColor
  <2>3. /\ p \in {0, 39} => ColorSet(params, i, 30, 7) = 7
        /\ p \in {0, 49} => ColorSet(params, i, 40, 0) = 0
        /\ p \in 30 .. 37 => ColorSet(params, i, 30, 7) = p - 30
        /\ p \in 40 .. 47 => ColorSet(params, i, 40, 0) = p - 40
    BY DEF ColorSet
  <2> HIDE DEF p, b
  <2>4. CASE p = 0
    <3>1. b = DefaultAttrs
      BY <1>1, <2>1, <2>4 DEF SgrSingle
    <3> QED
      BY <2>2, <2>3, <2>4, <3>1 DEF DefaultAttrs, b
  <2>5. CASE p \in DOMAIN FlagOn
    <3>1. b = [a EXCEPT !.attrs = @ \cup {FlagOn[p]}]
      BY <1>1, <2>1, <2>5 DEF SgrSingle
    <3> QED
      BY <1>1, <2>2, <2>5, <3>1 DEF b
  <2>6. CASE p \in DOMAIN FlagOff
    <3>1. b = [a EXCEPT !.attrs = @ \ {FlagOff[p]}]
      BY <1>1, <2>1, <2>6 DEF SgrSingle
    <3> QED
      BY <1>1, <2>2, <2>6, <3>1 DEF b
  <2>7. CASE p \in 30 .. 37
    <3>1. b = [a EXCEPT !.fg_color = p - 30]
      BY <1>1, <2>1, <2>7 DEF SgrSingle
    <3> QED
      BY <1>1, <2>2, <2>3, <2>7, <3>1 DEF b
  <2>8. CASE p = 39
    <3>1. b = [a EXCEPT !.fg_color = 7]
      BY <1>1, <2>1, <2>8 DEF SgrSingle
    <3> QED
      BY <1>1, <2>2, <2>3, <2>8, <3>1 DEF b
  <2>9. CASE p \in 40 .. 47
    <3>1. b = [a EXCEPT !.bg_color = p - 40]
      BY <1>1, <2>1, <2>9 DEF SgrSingle
    <3> QED
      BY <1>1, <2>2, <2>3, <2>9, <3>1 DEF b
  <2>10. CASE p = 49
    <3>1. b = [a EXCEPT !.bg_color = 0]
      BY <1>1, <2>1, <2>10 DEF SgrSingle
    <3> QED
      BY <1>1, <2>2, <2>3, <2>10, <3>1 DEF b
  <2>11. CASE p \notin {0, 39, 49} \cup 30 .. 37 \cup 40 .. 47
                       \cup DOMAIN FlagOn \cup DOMAIN FlagOff
    <3>1. b = a
      BY <2>1, <2>11 DEF SgrSingle
    <3> QED
      BY <2>2, <2>11, <3>1 DEF b
  <2> QED
    BY <2>4, <2>5, <2>6, <2>7, <2>8, <2>9, <2>10, <2>11
<1> QED
  BY <1>2, <1>3

(* A setting turns a flag on or off, or leaves it alone.                   *)
LEMMA SettingFlags ==
  ASSUME NEW params, NEW i, params[i] \in Int, NEW a \in Attrs, NEW f \in Flags
  PROVE  f \in AfterSetting(a, params, i).attrs <=>
           IF SetsFlag(params, i, f) THEN params[i] = OnCode[f] ELSE f \in a.attrs
<1> DEFINE p == params[i]
           b == AfterSetting(a, params, i)
<1>1. /\ DOMAIN FlagOn = {1, 4, 5, 7} /\ DOMAIN FlagOff = {22, 24, 25, 27}
      /\ DOMAIN a = {"fg_color", "bg_color", "attrs"}
      /\ p \in Int
      /\ OnCode[f] \in {1, 4, 5, 7} /\ OffCode[f] \in {22, 24, 25, 27}
  BY FlagTables DEF Attrs, Flags, OnCode, OffCode
<1>2. /\ \A q \in DOMAIN FlagOn : FlagOn[q] = f <=> q = OnCode[f]
      /\ \A q \in DOMAIN FlagOff : FlagOff[q] = f <=> q = OffCode[f]
  BY FlagTables DEF Flags, OnCode, OffCode
<1>3. CASE Extended(params, i)
  <2>1. p \in {38, 48} /\ b = SgrExtended(a, p, params[i + 2])
    BY <1>3 DEF Extended, AfterSetting
  <2>2. b.attrs = a.attrs
    BY <1>1, <2>1 DEF SgrExtended
  <2> QED
    BY <1>1, <2>1, <2>2 DEF SetsFlag
<1>4. CASE ~ Extended(params, i)
  <2>1. b = SgrSingle(a, p)
    BY <1>4 DEF AfterSetting
  <2> HIDE DEF p, b
  <2>2. CASE p = 0
    <3>1. b = DefaultAttrs
      BY <1>1, <2>1, <2>2 DEF SgrSingle
    <3> QED
      BY <1>1, <2>2, <3>1 DEF DefaultAttrs, SetsFlag, b, p
  <2>3. CASE p \in DOMAIN FlagOn
    <3>1. b.attrs = a.attrs \cup {FlagOn[p]}
      BY <1>1, <2>1, <2>3 DEF SgrSingle
    <3>2. SetsFlag(params, i, f) <=> p = OnCode[f]
      BY <1>1, <2>3 DEF SetsFlag, p
    <3> QED
      BY <1>2, <2>3, <3>1, <3>2 DEF b, p
  <2>4. CASE p \in DOMAIN FlagOff
    <3>1. b.attrs = a.attrs \ {FlagOff[p]}
      BY <1>1, <2>1, <2>4 DEF SgrSingle
    <3>2. SetsFlag(params, i, f) <=> p = OffCode[f]
      BY <1>1, <2>4 DEF SetsFlag, p
    <3>3. p # OnCode[f]
      BY <1>1, <2>4
    <3> QED
      BY <1>2, <2>4, <3>1, <3>2, <3>3 DEF b, p
  <2>5. CASE p \notin {0} \cup DOMAIN FlagOn \cup DOMAIN FlagOff
    <3>1. b.attrs = a.attrs
      BY <1>1, <2>1, <2>5 DEF SgrSingle
    <3>2. ~ SetsFlag(params, i, f)
      BY <1>1, <2>5 DEF SetsFlag, p
    <3> QED
      BY <3>1, <3>2 DEF b, p
  <2> QED
    BY <2>2, <2>3, <2>4, <2>5
<1> QED
  BY <1>3, <1>4

(* The members of a set up to a bound: either the bound is the last one,   *)
(* or they are those below it.                                             *)
UpTo(P, n) == {i \in P : i <= n}

LEMMA LastUpTo ==
  ASSUME NEW P \in SUBSET Int, NEW n \in Int
  PROVE  /\ n + 1 \in P => UpTo(P, n + 1) # {} /\ Max(UpTo(P, n + 1)) = n + 1
         /\ n + 1 \notin P => UpTo(P, n + 1) = UpTo(P, n)
<1>1. ASSUME n + 1 \in P
      PROVE  UpTo(P, n + 1) # {} /\ Max(UpTo(P, n + 1)) = n + 1
  <2>1. n + 1 \in UpTo(P, n + 1) /\ \A y \in UpTo(P, n + 1) : y \in Int /\ n + 1 >= y
    BY <1>1 DEF UpTo
  <2>2. \A x \in UpTo(P, n + 1) : (\A y \in UpTo(P, n + 1) : x >= y) => x = n + 1
    BY <2>1
  <2> QED
    BY <2>1, <2>2 DEF Max
<1>2. ASSUME n + 1 \notin P
      PROVE  UpTo(P, n + 1) = UpTo(P, n)
  <2>1. \A i \in P : i <= n + 1 <=> i <= n
    BY <1>2
  <2> QED
    BY <2>1 DEF UpTo
<1> QED
  BY <1>1, <1>2

(* The value a colour or a flag has when the loop has seen n parameters,   *)
(* by the settings that start among them.                                  *)
Touching(t, base) == {i \in Settings(List(t)) : SetsColor(List(t), i, base)}

ColorAfter(t, n, base, default, old) ==
  IF UpTo(Touching(t, base), n) = {}
  THEN old ELSE ColorSet(List(t), Max(UpTo(Touching(t, base), n)), base, default)

Switching(t, f) == {i \in Settings(List(t)) : SetsFlag(List(t), i, f)}

FlagAfter(t, n, f) ==
  IF UpTo(Switching(t, f), n) = {}
  THEN f \in t.current_attrs.attrs ELSE List(t)[Max(UpTo(Switching(t, f), n))] = OnCode[f]

AttrsAfter(t, n) ==
  LET a == SgrLoop(t)[n].attrs
  IN /\ a.fg_color = ColorAfter(t, n, 30, 7, t.current_attrs.fg_color)
     /\ a.bg_color = ColorAfter(t, n, 40, 0, t.current_attrs.bg_color)
     /\ \A f \in Flags : f \in a.attrs <=> FlagAfter(t, n, f)

(* One more parameter: a setting that starts there counts, whatever else   *)
(* stands there does not.                                                  *)
LEMMA LoopAttrs ==
  ASSUME NEW t, SgrOK(t), NEW n \in 0 .. t.csi_param_count - 1
  PROVE  SgrLoop(t)[n + 1].attrs =
           IF n + 1 \in Settings(List(t)) THEN AfterSetting(SgrLoop(t)[n].attrs, List(t), n + 1)
                                          ELSE SgrLoop(t)[n].attrs
<1> DEFINE acc == SgrLoop(t)[n]
<1>1. n \in 0 .. t.csi_param_count /\ n + 1 \in 1 .. t.csi_param_count /\ (n + 1) - 1 = n
  BY ScreenAssumption DEF SgrOK
<1>2. acc \in Acc /\ acc.skip \in 0 .. 2
  BY <1>1, SgrLoopType DEF Acc
<1>3. n + 1 \in Settings(List(t)) <=> acc.skip = 0
  BY <1>1, SettingsFound DEF Skip
<1>4. SgrLoop(t)[n + 1] = SgrParam(t, acc, n)
  BY SgrLoopStep
<1> HIDE DEF acc
<1>5. CASE acc.skip > 0
  <2>1. SgrParam(t, acc, n).attrs = acc.attrs
    BY <1>2, <1>5, SgrParamType
  <2> QED
    BY <1>2, <1>3, <1>4, <1>5, <2>1 DEF acc
<1>6. CASE acc.skip = 0
  <2>1. SgrParam(t, acc, n).attrs = AfterSetting(acc.attrs, List(t), n + 1)
    <3>1. (n + 1) + 2 = n + 3
      OBVIOUS
    <3>2. CASE Extended(List(t), n + 1)
      BY <1>2, <1>6, <3>1, <3>2, SgrParamType DEF AfterSetting
    <3>3. CASE ~ Extended(List(t), n + 1)
      BY <1>2, <1>6, <3>3, SgrParamType DEF AfterSetting
    <3> QED
      BY <3>2, <3>3
  <2> QED
    BY <1>2, <1>3, <1>4, <1>6, <2>1 DEF acc
<1> QED
  BY <1>2, <1>5, <1>6

LEMMA AttrsAfterStep ==
  ASSUME NEW t, SgrOK(t), NEW n \in 0 .. t.csi_param_count - 1, AttrsAfter(t, n)
  PROVE  AttrsAfter(t, n + 1)
<1> DEFINE a == SgrLoop(t)[n].attrs
           b == SgrLoop(t)[n + 1].attrs
           i == n + 1
<1>1. n \in Int /\ t.csi_param_count \in 0 .. NParams /\ n \in 0 .. t.csi_param_count
  BY ScreenAssumption DEF SgrOK
<1>2. a \in Attrs
  BY <1>1, SgrLoopType DEF Acc
<1>3. List(t)[i] \in Int
  BY <1>1, ScreenAssumption DEF SgrOK, List
<1>4. Settings(List(t)) \subseteq 1 .. t.csi_param_count
  BY SettingsFound
<1>5. /\ Touching(t, 30) \in SUBSET Int /\ Touching(t, 40) \in SUBSET Int
      /\ \A f \in Flags : Switching(t, f) \in SUBSET Int
  BY <1>1, <1>4 DEF Touching, Switching
<1>6. /\ i \in Touching(t, 30) <=> i \in Settings(List(t)) /\ SetsColor(List(t), i, 30)
      /\ i \in Touching(t, 40) <=> i \in Settings(List(t)) /\ SetsColor(List(t), i, 40)
      /\ \A f \in Flags : i \in Switching(t, f) <=>
           i \in Settings(List(t)) /\ SetsFlag(List(t), i, f)
  BY DEF Touching, Switching
<1>7. b = IF i \in Settings(List(t)) THEN AfterSetting(a, List(t), i) ELSE a
  BY LoopAttrs
<1>8. /\ a.fg_color = ColorAfter(t, n, 30, 7, t.current_attrs.fg_color)
      /\ a.bg_color = ColorAfter(t, n, 40, 0, t.current_attrs.bg_color)
      /\ \A f \in Flags : f \in a.attrs <=> FlagAfter(t, n, f)
  BY DEF AttrsAfter
<1> HIDE DEF a, b
<1>9. b.fg_color = ColorAfter(t, i, 30, 7, t.current_attrs.fg_color)
  <2>1. b.fg_color = IF i \in Touching(t, 30) THEN ColorSet(List(t), i, 30, 7) ELSE a.fg_color
    BY <1>2, <1>3, <1>6, <1>7, SettingColors
  <2>2. /\ i \in Touching(t, 30) =>
             UpTo(Touching(t, 30), i) # {} /\ Max(UpTo(Touching(t, 30), i)) = i
        /\ i \notin Touching(t, 30) => UpTo(Touching(t, 30), i) = UpTo(Touching(t, 30), n)
    BY <1>1, <1>5, LastUpTo
  <2> QED
    BY <1>8, <2>1, <2>2 DEF ColorAfter
<1>10. b.bg_color = ColorAfter(t, i, 40, 0, t.current_attrs.bg_color)
  <2>1. b.bg_color = IF i \in Touching(t, 40) THEN ColorSet(List(t), i, 40, 0) ELSE a.bg_color
    BY <1>2, <1>3, <1>6, <1>7, SettingColors
  <2>2. /\ i \in Touching(t, 40) =>
             UpTo(Touching(t, 40), i) # {} /\ Max(UpTo(Touching(t, 40), i)) = i
        /\ i \notin Touching(t, 40) => UpTo(Touching(t, 40), i) = UpTo(Touching(t, 40), n)
    BY <1>1, <1>5, LastUpTo
  <2> QED
    BY <1>8, <2>1, <2>2 DEF ColorAfter
<1>11. ASSUME NEW f \in Flags PROVE f \in b.attrs <=> FlagAfter(t, i, f)
  <2>1. f \in b.attrs <=> IF i \in Switching(t, f) THEN List(t)[i] = OnCode[f] ELSE f \in a.attrs
    BY <1>2, <1>3, <1>6, <1>7, SettingFlags
  <2>2. /\ i \in Switching(t, f) =>
             UpTo(Switching(t, f), i) # {} /\ Max(UpTo(Switching(t, f), i)) = i
        /\ i \notin Switching(t, f) => UpTo(Switching(t, f), i) = UpTo(Switching(t, f), n)
    BY <1>1, <1>5, LastUpTo
  <2> QED
    BY <1>8, <2>1, <2>2 DEF FlagAfter
<1> QED
  BY <1>9, <1>10, <1>11 DEF AttrsAfter, b

LEMMA LoopIsReference ==
  ASSUME NEW t, SgrOK(t), t.csi_param_count # 0
  PROVE  SgrAttrs(t) = Reference(List(t), t.current_attrs)
<1> DEFINE k == t.csi_param_count
           S == {n \in 0 .. k : AttrsAfter(t, n)}
           b == SgrLoop(t)[k].attrs
<1>1. k \in Nat /\ k # 0
  BY ScreenAssumption DEF SgrOK
<1>2. \A P \in SUBSET (1 .. k) : UpTo(P, 0) = {} /\ UpTo(P, k) = P
  <2> TAKE P \in SUBSET (1 .. k)
  <2>1. \A i \in P : i \in 1 .. k
    OBVIOUS
  <2>2. \A i \in P : ~ (i <= 0) /\ i <= k
    BY <1>1, <2>1
  <2> QED
    BY <2>2 DEF UpTo
<1>3. /\ Touching(t, 30) \in SUBSET (1 .. k) /\ Touching(t, 40) \in SUBSET (1 .. k)
      /\ \A f \in Flags : Switching(t, f) \in SUBSET (1 .. k)
  BY SettingsFound DEF Touching, Switching
<1>4. 0 \in S
  <2>1. SgrLoop(t)[0].attrs = t.current_attrs
    <3>1. SgrLoop(t)[0] = [skip |-> 0, attrs |-> t.current_attrs]
      BY SgrLoopStep
    <3> QED
      BY <3>1
  <2>2. AttrsAfter(t, 0)
    BY <1>2, <1>3, <2>1 DEF AttrsAfter, ColorAfter, FlagAfter
  <2> QED
    BY <1>1, <2>2
<1>5. ASSUME NEW n \in 0 .. k - 1, n \in S PROVE n + 1 \in S
  BY <1>1, <1>5, AttrsAfterStep
<1>6. AttrsAfter(t, k)
  <2> HIDE DEF S
  <2>1. 0 .. k \subseteq S
    BY <1>1, <1>4, <1>5, BoundedInduction
  <2> QED
    BY <1>1, <2>1 DEF S
<1>7. SgrAttrs(t) = b
  BY DEF SgrAttrs
<1>8. b \in Attrs
  BY <1>1, SgrLoopType DEF Acc
<1>9. List(t) # <<>>
  BY <1>1 DEF List
<1> HIDE DEF b, k
<1>10. /\ b.fg_color = Color(List(t), 30, 7, t.current_attrs.fg_color)
       /\ b.bg_color = Color(List(t), 40, 0, t.current_attrs.bg_color)
  BY <1>2, <1>3, <1>6 DEF AttrsAfter, ColorAfter, Color, Touching, b
<1>11. \A f \in Flags : f \in b.attrs <=> HasFlag(List(t), f, t.current_attrs.attrs)
  BY <1>2, <1>3, <1>6 DEF AttrsAfter, FlagAfter, HasFlag, Switching, SetsFlag, b
<1>12. b.attrs = {f \in Flags : HasFlag(List(t), f, t.current_attrs.attrs)}
  BY <1>8, <1>11 DEF Attrs
<1>13. b = [fg_color |-> b.fg_color, bg_color |-> b.bg_color, attrs |-> b.attrs]
  BY <1>8 DEF Attrs
<1> QED
  BY <1>7, <1>9, <1>10, <1>12, <1>13 DEF Reference

LEMMA EmptyListResets ==
  ASSUME NEW old
  PROVE  Reference(<<>>, old) = DefaultAttrs
<1> DEFINE params == <<0>>
<1>1. DOMAIN params = {1} /\ params[1] = 0
  OBVIOUS
<1> HIDE DEF params
<1>2. Settings(params) = {1}
  <2>1. ~ Extended(params, 1)
    BY <1>1 DEF Extended
  <2>2. IsCut({1}, params)
    BY <1>1 DEF IsCut
  <2>3. \A S \in SUBSET DOMAIN params : IsCut(S, params) => S = {1}
    BY <1>1 DEF IsCut
  <2> QED
    BY <1>1, <2>2, <2>3 DEF Settings
<1>3. SetsColor(params, 1, 30) /\ SetsColor(params, 1, 40)
  BY <1>1 DEF SetsColor
<1>4. ColorSet(params, 1, 30, 7) = 7 /\ ColorSet(params, 1, 40, 0) = 0
  BY <1>1 DEF ColorSet
<1>5. Max({1}) = 1
  BY DEF Max
<1>6. {i \in Settings(params) : SetsColor(params, i, 30)} = {1}
  BY <1>2, <1>3
<1>7. {i \in Settings(params) : SetsColor(params, i, 40)} = {1}
  BY <1>2, <1>3
<1>8. Color(params, 30, 7, old.fg_color) = 7 /\ Color(params, 40, 0, old.bg_color) = 0
  BY <1>4, <1>5, <1>6, <1>7 DEF Color
<1>9. ASSUME NEW f \in Flags PROVE ~ HasFlag(params, f, old.attrs)
  <2>1. {i \in Settings(params) : params[i] \in {0, OnCode[f], OffCode[f]}} = {1}
    BY <1>1, <1>2
  <2>2. OnCode[f] # 0
    BY DEF OnCode, Flags
  <2> QED
    BY <1>1, <1>5, <2>1, <2>2 DEF HasFlag
<1>10. {f \in Flags : HasFlag(params, f, old.attrs)} = {}
  BY <1>9
<1> QED
  BY <1>8, <1>10 DEF Reference, DefaultAttrs, params

LEMMA SgrReferenceOK ==
  ASSUME NEW t, SgrOK(t)
  PROVE  SgrAttrs(t) = Reference(List(t), t.current_attrs)
<1>1. CASE t.csi_param_count = 0
  <2>1. SgrAttrs(t) = DefaultAttrs /\ List(t) = <<>>
    BY <1>1 DEF SgrAttrs, List
  <2> QED
    BY <2>1, EmptyListResets
<1>2. CASE t.csi_param_count # 0
  BY <1>2, LoopIsReference
<1> QED
  BY <1>1, <1>2

-----------------------------------------------------------------------------
(* Types: no assumption on the parameters is needed, since an int wraps    *)
(* around and a colour is stored in a uint8_t.                             *)

(* An int holds what is assigned to it, wrapped around.                    *)
LEMMA IntWrapRange ==
  ASSUME NEW x \in Int
  PROVE  IntWrap(x) \in Ints
<1>1. MaxInt \in Nat
  BY ScreenAssumption
<1> DEFINE m == 2 * MaxInt + 2
           y == (x + MaxInt + 1) % m
<1>2. m \in Nat \ {0} /\ x + MaxInt + 1 \in Int
  BY <1>1
<1> HIDE DEF m
<1>3. y \in 0 .. m - 1
  BY <1>2
<1> HIDE DEF y
<1>4. y - (MaxInt + 1) \in -(MaxInt + 1) .. MaxInt
  BY <1>1, <1>3 DEF m
<1> QED
  BY <1>4 DEF IntWrap, Ints, y, m

LEMMA ScreenBounds ==
  /\ Rows \in Nat \ {0} /\ Cols \in Nat \ {0} /\ NParams \in Nat \ {0} /\ MaxInt \in Nat \ {0}
  /\ Rows <= MaxInt /\ Cols <= MaxInt
  /\ 0 .. Rows - 1 \subseteq Ints /\ 0 .. Cols - 1 \subseteq Ints /\ Ints \subseteq Int
BY ScreenAssumption DEF Ints

LEMMA BlankType ==
  ASSUME NEW a \in Attrs
  PROVE  Blank(a) \in Cell
BY DEF Blank, Glyph, Attrs, Cell, Space, Printable

LEMMA NewlineType ==
  ASSUME NEW t \in Terminals
  PROVE  Newline(t) \in Terminals
<1>1. t.current_attrs \in Attrs /\ t.buffer \in [Cells -> Cell] /\ t.cursor_row \in Ints
  BY DEF Terminals
<1>2. ScrollUp(t) \in [Cells -> Cell]
  <2>1. ASSUME NEW i \in Cells, i < (Rows - 1) * Cols PROVE i + Cols \in Cells
    BY <2>1, LastRow, ScreenBounds DEF Cells
  <2> QED
    BY <1>1, <2>1, BlankType DEF ScrollUp
<1>3. CASE t.cursor_row + 1 >= Rows
  <2>1. Newline(t) = [t EXCEPT !.cursor_col = 0, !.cursor_row = Rows - 1, !.buffer = ScrollUp(t)]
    BY <1>3 DEF Newline
  <2>2. 0 \in Ints /\ Rows - 1 \in Ints
    BY ScreenBounds
  <2> QED
    BY <1>2, <2>1, <2>2 DEF Terminals
<1>4. CASE ~ (t.cursor_row + 1 >= Rows)
  <2>1. Newline(t) = [t EXCEPT !.cursor_col = 0, !.cursor_row = @ + 1]
    BY <1>4 DEF Newline
  <2>2. 0 \in Ints /\ t.cursor_row + 1 \in Ints
    BY <1>1, <1>4, ScreenAssumption DEF Ints
  <2> QED
    BY <2>1, <2>2 DEF Terminals
<1> QED
  BY <1>3, <1>4

LEMMA PutCharType ==
  ASSUME NEW t \in Terminals, NEW ch \in Printable
  PROVE  PutChar(t, ch) \in Terminals
<1> DEFINE at == Index(t.cursor_row, t.cursor_col)
           w  == [t EXCEPT !.buffer[at] = Glyph(ch, t.current_attrs), !.cursor_col = @ + 1]
<1>1. t.current_attrs \in Attrs /\ t.buffer \in [Cells -> Cell] /\ t.cursor_col \in Ints
  BY DEF Terminals
<1>2. Glyph(ch, t.current_attrs) \in Cell
  BY <1>1 DEF Glyph, Attrs, Cell
<1>3. CASE t.cursor_row >= Rows \/ t.cursor_col >= Cols
  BY <1>3 DEF PutChar
<1>4. CASE ~ (t.cursor_row >= Rows \/ t.cursor_col >= Cols)
  <2>1. t.cursor_col + 1 \in Ints
    BY <1>1, <1>4, ScreenAssumption DEF Ints
  <2>2. [t.buffer EXCEPT ![at] = Glyph(ch, t.current_attrs)] \in [Cells -> Cell]
    BY <1>1, <1>2
  <2>3. w = [t EXCEPT !.buffer = [t.buffer EXCEPT ![at] = Glyph(ch, t.current_attrs)],
                      !.cursor_col = t.cursor_col + 1]
    BY DEF Terminals
  <2> HIDE DEF at
  <2>4. w \in Terminals
    BY <2>1, <2>2, <2>3 DEF Terminals
  <2>5. PutChar(t, ch) = IF w.cursor_col >= Cols THEN Newline(w) ELSE w
    BY <1>4 DEF PutChar, at
  <2> QED
    BY <2>4, <2>5, NewlineType
<1> QED
  BY <1>3, <1>4

LEMMA SgrOKOf ==
  ASSUME NEW t \in Terminals
  PROVE  SgrOK(t)
BY ScreenBounds DEF Terminals, SgrOK

LEMMA ParamType ==
  ASSUME NEW t \in Terminals, NEW i \in Nat, NEW d \in Int
  PROVE  Param(t, i, d) \in Int
<1>1. t.csi_params \in [0 .. NParams - 1 -> Ints] /\ t.csi_param_count \in 0 .. NParams
  BY DEF Terminals
<1>2. CASE t.csi_param_count > i
  <2>1. i \in 0 .. NParams - 1
    BY <1>1, <1>2, ScreenBounds
  <2> QED
    BY <1>1, <1>2, <2>1, ScreenBounds DEF Param
<1>3. CASE ~ (t.csi_param_count > i)
  BY <1>3 DEF Param
<1> QED
  BY <1>2, <1>3

LEMMA EraseType ==
  ASSUME NEW t \in Terminals, NEW S
  PROVE  Erase(t, S) \in [Cells -> Cell]
BY BlankType DEF Terminals, Erase

LEMMA CursorMoveType ==
  ASSUME NEW t \in Terminals, NEW cmd \in {CUU, CUD, CUF, CUB}
  PROVE  ExecuteCursorMove(t, cmd) \in Terminals
<1> DEFINE u == ExecuteCursorMove(t, cmd)
           p == Param(t, 0, 1)
           n == IF p = 0 THEN 1 ELSE p
<1>1. t.cursor_row \in Int /\ t.cursor_col \in Int
  BY ScreenBounds DEF Terminals
<1>2. n \in Int
  BY ParamType
<1> HIDE DEF n
<1>3. /\ IntWrap(t.cursor_row - n) \in Ints /\ IntWrap(t.cursor_row + n) \in Ints
      /\ IntWrap(t.cursor_col + n) \in Ints /\ IntWrap(t.cursor_col - n) \in Ints
  BY <1>1, <1>2, IntWrapRange
<1>4. 0 \in Ints /\ Rows - 1 \in Ints /\ Cols - 1 \in Ints
  BY ScreenBounds
<1>5. CASE cmd = CUU
  <2>1. u = [t EXCEPT !.cursor_row = IF IntWrap(t.cursor_row - n) < 0
                                     THEN 0 ELSE IntWrap(t.cursor_row - n)]
    BY <1>5 DEF ExecuteCursorMove, n, CUU, CUD, CUF, CUB
  <2> QED
    BY <1>3, <1>4, <2>1 DEF Terminals
<1>6. CASE cmd = CUD
  <2>1. u = [t EXCEPT !.cursor_row = IF IntWrap(t.cursor_row + n) >= Rows
                                     THEN Rows - 1 ELSE IntWrap(t.cursor_row + n)]
    BY <1>6 DEF ExecuteCursorMove, n, CUU, CUD, CUF, CUB
  <2> QED
    BY <1>3, <1>4, <2>1 DEF Terminals
<1>7. CASE cmd = CUF
  <2>1. u = [t EXCEPT !.cursor_col = IF IntWrap(t.cursor_col + n) >= Cols
                                     THEN Cols - 1 ELSE IntWrap(t.cursor_col + n)]
    BY <1>7 DEF ExecuteCursorMove, n, CUU, CUD, CUF, CUB
  <2> QED
    BY <1>3, <1>4, <2>1 DEF Terminals
<1>8. CASE cmd = CUB
  <2>1. u = [t EXCEPT !.cursor_col = IF IntWrap(t.cursor_col - n) < 0
                                     THEN 0 ELSE IntWrap(t.cursor_col - n)]
    BY <1>8 DEF ExecuteCursorMove, n, CUU, CUD, CUF, CUB
  <2> QED
    BY <1>3, <1>4, <2>1 DEF Terminals
<1> QED
  BY <1>5, <1>6, <1>7, <1>8

LEMMA ExecuteCsiType ==
  ASSUME NEW t \in Terminals, NEW cmd
  PROVE  ExecuteCsi(t, cmd) \in Terminals
<1>1. 0 \in Ints /\ Rows - 1 \in Ints /\ Cols - 1 \in Ints
  BY ScreenBounds
<1>2. CASE cmd \in {CUU, CUD, CUF, CUB}
  <2>1. ExecuteCsi(t, cmd) = ExecuteCursorMove(t, cmd)
    BY <1>2 DEF ExecuteCsi, SGR, CUU, CUD, CUF, CUB, CUP, ED, EL
  <2> QED
    BY <1>2, <2>1, CursorMoveType
<1>3. CASE cmd \notin {CUU, CUD, CUF, CUB}
  <2>1. ExecuteCsi(t, cmd) \in {ExecuteSgr(t), ExecuteCursorPosition(t),
                                ExecuteEraseDisplay(t), ExecuteEraseLine(t), t}
    BY <1>3 DEF ExecuteCsi
  <2>2. ExecuteSgr(t) \in Terminals
    <3>1. SgrAttrs(t) \in Attrs
      BY SgrOKOf, SgrAttrsType
    <3> QED
      BY <3>1 DEF ExecuteSgr, Terminals
  <2>3. ExecuteCursorPosition(t) \in Terminals
    <3> DEFINE r == IntWrap(Param(t, 0, 1) - 1)
               c == IntWrap(Param(t, 1, 1) - 1)
    <3>1. Param(t, 0, 1) - 1 \in Int /\ Param(t, 1, 1) - 1 \in Int
      BY ParamType
    <3>2. r \in Ints /\ c \in Ints
      BY <3>1, IntWrapRange
    <3>3. ExecuteCursorPosition(t) =
            [t EXCEPT !.cursor_row = Clamp(r, Rows), !.cursor_col = Clamp(c, Cols)]
      BY DEF ExecuteCursorPosition
    <3> HIDE DEF r, c
    <3>4. Clamp(r, Rows) \in Ints /\ Clamp(c, Cols) \in Ints
      BY <1>1, <3>2 DEF Clamp
    <3> QED
      BY <3>3, <3>4 DEF Terminals
  <2>4. ExecuteEraseDisplay(t) \in Terminals
    <3>1. Erase(t, Cells) \in [Cells -> Cell]
      BY EraseType
    <3> QED
      BY <1>1, <3>1 DEF ExecuteEraseDisplay, Terminals
  <2>5. ExecuteEraseLine(t) \in Terminals
    <3> DEFINE S == {Index(t.cursor_row, col) : col \in ErasedColumns(t)}
    <3>1. Erase(t, S) \in [Cells -> Cell]
      BY EraseType
    <3> QED
      BY <3>1 DEF ExecuteEraseLine, Terminals
  <2> QED
    BY <2>1, <2>2, <2>3, <2>4, <2>5
<1> QED
  BY <1>2, <1>3

(* The sequence a terminator executes has no more parameters than slots.   *)
LEMMA ClosedType ==
  ASSUME TypeOK, ParserInv, InCsi
  PROVE  Closed(term) \in Terminals
<1> DEFINE n == IF term.parse_state = "CSI_PARAM" THEN term.csi_param_count + 1
                                                  ELSE term.csi_param_count
<1>1. term.csi_param_count \in 0 .. NParams /\ term.csi_param_count < NParams
  BY DEF ParserInv, StateOK, InCsi
<1>2. n \in 0 .. NParams
  BY <1>1, ScreenBounds
<1>3. Closed(term) = [term EXCEPT !.csi_param_count = n]
  BY DEF Closed
<1> HIDE DEF n
<1> QED
  BY <1>2, <1>3 DEF TypeOK, Terminals

(* One byte, in any state that type correctness and ParserInv allow.       *)
LEMMA TypeStep ==
  ASSUME TypeOK, ParserInv, [Next]_vars
  PROVE  TypeOK'
<1>1. /\ term \in Terminals /\ 0 \in Ints /\ Ints \subseteq Int /\ NParams \in Nat \ {0}
      /\ term.cursor_col \in Ints /\ term.csi_params \in [0 .. NParams - 1 -> Ints]
      /\ term.csi_param_count \in 0 .. NParams
      /\ InCsi => term.csi_param_count \in 0 .. NParams - 1
  BY ScreenBounds DEF TypeOK, Terminals, ParserInv, StateOK, InCsi
<1>2. ASSUME NEW b, ReceiveNormal(b) PROVE TypeOK'
  <2>1. term' = NormalByte(term, b)
    BY <1>2 DEF ReceiveNormal
  <2>2. CASE b \in Printable
    <3>1. term' = PutChar(term, b)
      BY <2>1, <2>2 DEF NormalByte, ESC, LF, CR, BS, Printable
    <3> QED
      BY <1>1, <2>2, <3>1, PutCharType DEF TypeOK
  <2>3. CASE b \notin Printable
    <3>1. term' \in {[term EXCEPT !.parse_state = "ESC"], Newline(term),
                     [term EXCEPT !.cursor_col = 0],
                     [term EXCEPT !.cursor_col = IF @ > 0 THEN @ - 1 ELSE @], term}
      BY <2>1, <2>3 DEF NormalByte
    <3>2. [term EXCEPT !.parse_state = "ESC"] \in Terminals
      BY <1>1 DEF Terminals
    <3>3. [term EXCEPT !.cursor_col = 0] \in Terminals
      BY <1>1 DEF Terminals
    <3>4. [term EXCEPT !.cursor_col = IF @ > 0 THEN @ - 1 ELSE @] \in Terminals
      <4>1. (IF term.cursor_col > 0 THEN term.cursor_col - 1 ELSE term.cursor_col) \in Ints
        BY <1>1, ScreenBounds DEF Ints
      <4> QED
        BY <1>1, <4>1 DEF Terminals
    <3> QED
      BY <1>1, <3>1, <3>2, <3>3, <3>4, NewlineType DEF TypeOK
  <2> QED
    BY <2>2, <2>3
<1>3. ASSUME NEW b, ReceiveEsc(b) PROVE TypeOK'
  <2> DEFINE zeros == [i \in 0 .. NParams - 1 |-> 0]
  <2>1. zeros \in [0 .. NParams - 1 -> Ints] /\ 0 \in 0 .. NParams
    BY <1>1
  <2>2. term' \in {[term EXCEPT !.parse_state = "CSI", !.csi_param_count = 0, !.csi_params = zeros],
                   [term EXCEPT !.parse_state = "NORMAL"]}
    BY <1>3 DEF ReceiveEsc, EscByte
  <2> HIDE DEF zeros
  <2> QED
    BY <1>1, <2>1, <2>2 DEF TypeOK, Terminals
<1>4. ASSUME NEW b, ReceiveDigit(b) PROVE TypeOK'
  <2> DEFINE i == term.csi_param_count
             value == IntWrap(term.csi_params[i] * 10 + (b - 48))
  <2>1. i \in 0 .. NParams - 1 /\ b \in Int
    BY <1>1, <1>4 DEF ReceiveDigit, Digits
  <2>2. value \in Ints
    <3>1. term.csi_params[i] \in Int
      BY <1>1, <2>1
    <3>2. term.csi_params[i] * 10 + (b - 48) \in Int
      BY <2>1, <3>1
    <3> QED
      BY <3>2, IntWrapRange
  <2>3. term' = [term EXCEPT !.parse_state = "CSI_PARAM",
                             !.csi_params = [term.csi_params EXCEPT ![i] = value]]
    BY <1>4 DEF ReceiveDigit, CsiDigit
  <2> HIDE DEF value
  <2>4. [term.csi_params EXCEPT ![i] = value] \in [0 .. NParams - 1 -> Ints]
    BY <1>1, <2>2
  <2> QED
    BY <1>1, <2>3, <2>4 DEF TypeOK, Terminals
<1>5. ASSUME NEW b, ReceiveSeparator(b) PROVE TypeOK'
  <2> DEFINE n == IF term.csi_param_count + 1 >= NParams
                  THEN NParams - 1 ELSE term.csi_param_count + 1
  <2>1. n \in 0 .. NParams
    BY <1>1
  <2>2. term' = [term EXCEPT !.parse_state = "CSI_PARAM", !.csi_param_count = n]
    BY <1>5 DEF ReceiveSeparator, CsiSeparator
  <2> QED
    BY <1>1, <2>1, <2>2 DEF TypeOK, Terminals
<1>6. ASSUME NEW b, ReceiveFinal(b) PROVE TypeOK'
  <2>1. Closed(term) \in Terminals
    BY <1>6, ClosedType DEF ReceiveFinal
  <2>2. ExecuteCsi(Closed(term), b) \in Terminals
    BY <2>1, ExecuteCsiType
  <2>3. term' = [ExecuteCsi(Closed(term), b) EXCEPT !.parse_state = "NORMAL"]
    BY <1>6 DEF ReceiveFinal, CsiFinal
  <2> QED
    BY <2>2, <2>3 DEF TypeOK, Terminals
<1>7. CASE UNCHANGED vars
  BY <1>7 DEF vars, TypeOK
<1> QED
  BY <1>2, <1>3, <1>4, <1>5, <1>6, <1>7 DEF Next

LEMMA TypeInit == Init => TypeOK
<1>1. DefaultAttrs \in Attrs
  BY DEF DefaultAttrs, Attrs
<1>2. Blank(DefaultAttrs) \in Cell
  BY <1>1, BlankType
<1>3. 0 \in Ints
  BY ScreenBounds
<1> QED
  BY <1>1, <1>2, <1>3, ScreenBounds DEF Init, InitTerminal, TypeOK, Terminals

(* Every field keeps its type through every byte, also when a parameter    *)
(* overflows and the cursor leaves the screen: an attribute is a uint8_t   *)
(* or a known flag, and a cell only ever holds printable ASCII.            *)
THEOREM TypeCorrect == Spec => []TypeOK
<1>1. Init => TypeOK
  BY TypeInit
<1>2. TypeOK /\ ParserInv /\ [Next]_vars => TypeOK'
  BY TypeStep
<1> QED
  BY <1>1, <1>2, ParserInvHolds, PTL DEF Spec

(* In every state in which a sequence is being read, terminating it with   *)
(* 'm' leaves what SgrReference says: the loop of execute_sgr never takes  *)
(* the index of an extended colour for a setting, nor reads past the list. *)
THEOREM LastSettingAlwaysWins == Spec => []SgrLastSettingWins
<1>1. TypeOK /\ ParserInv => SgrLastSettingWins
  <2> SUFFICES ASSUME TypeOK, ParserInv, InCsi
               PROVE  SgrAttrs(Closed(term)) =
                        Reference(List(Closed(term)), Closed(term).current_attrs)
    BY DEF SgrLastSettingWins, List
  <2>1. Closed(term) \in Terminals
    BY ClosedType
  <2> QED
    BY <2>1, SgrOKOf, SgrReferenceOK
<1> QED
  BY <1>1, TypeCorrect, ParserInvHolds, PTL

=============================================================================
