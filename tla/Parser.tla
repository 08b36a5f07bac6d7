------------------------------- MODULE Parser -------------------------------
(***************************************************************************)
(* The VT100/ANSI parser: the control functions of src/parser.c and the    *)
(* byte-at-a-time state machine of terminal_process_bytes in               *)
(* src/terminal.c. A byte is its value, 0..255, as in the code.            *)
(***************************************************************************)
EXTENDS Screen, SequencesExt

BS == 8    LF == 10    CR == 13    ESC == 27
OpenBracket == 91      \* '['
Semicolon   == 59      \* ';'
Printable   == 32 .. 126
Digits      == 48 .. 57

(* Final bytes of the supported control sequences.                         *)
CUU == 65  CUD == 66  CUF == 67  CUB == 68     \* 'A' 'B' 'C' 'D'
CUP == {72, 102}                               \* 'H' 'f'
ED  == 74  EL == 75  SGR == 109                \* 'J' 'K' 'm'

(* The value of parameter i, or its default when the sequence has fewer.   *)
Param(t, i, default) ==
  IF t.csi_param_count > i THEN t.csi_params[i] ELSE default

-----------------------------------------------------------------------------
(* Select graphic rendition.                                               *)

FlagOn ==
  [p \in {1, 4, 5, 7} |->
     CASE p = 1 -> "bold" [] p = 4 -> "underline" [] p = 5 -> "blink" [] p = 7 -> "reverse"]

FlagOff ==
  [p \in {22, 24, 25, 27} |->
     CASE p = 22 -> "bold" [] p = 24 -> "underline" [] p = 25 -> "blink" [] p = 27 -> "reverse"]

(* Parameters i, i+1, i+2 are "38;5;n" or "48;5;n".                        *)
IsExtendedColor(t, i) ==
  /\ t.csi_params[i] \in {38, 48}
  /\ i + 2 < t.csi_param_count
  /\ t.csi_params[i + 1] = 5

(* What a single parameter p makes of the attributes a; one that is not    *)
(* supported changes nothing.                                              *)
SgrSingle(a, p) ==
  CASE p = 0               -> DefaultAttrs
    [] p \in DOMAIN FlagOn  -> [a EXCEPT !.attrs = @ \cup {FlagOn[p]}]
    [] p \in DOMAIN FlagOff -> [a EXCEPT !.attrs = @ \ {FlagOff[p]}]
    [] p \in 30 .. 37       -> [a EXCEPT !.fg_color = p - 30]
    [] p = 39               -> [a EXCEPT !.fg_color = 7]
    [] p \in 40 .. 47       -> [a EXCEPT !.bg_color = p - 40]
    [] p = 49               -> [a EXCEPT !.bg_color = 0]
    [] OTHER                -> a

(* What an extended colour makes of them: n is stored in a uint8_t.        *)
SgrExtended(a, p, n) ==
  IF p = 38 THEN [a EXCEPT !.fg_color = Uint8(n)] ELSE [a EXCEPT !.bg_color = Uint8(n)]

(* Defective variant: "i += 1" after an extended colour.                  *)
SgrParam_SkipsOne(t, acc, i) ==
  LET p == t.csi_params[i]
  IN CASE acc.skip > 0 -> [acc EXCEPT !.skip = @ - 1]
       [] acc.skip = 0 /\ IsExtendedColor(t, i) ->
            [skip |-> 1, attrs |-> SgrExtended(acc.attrs, p, t.csi_params[i + 2])]
       [] OTHER -> [skip |-> 0, attrs |-> SgrSingle(acc.attrs, p)]

(* One iteration of the loop of execute_sgr, at index i; skip counts the   *)
(* parameters an extended colour still has to consume ("i += 2").          *)
SgrParam(t, acc, i) ==
  LET p == t.csi_params[i]
  IN CASE acc.skip > 0 -> [acc EXCEPT !.skip = @ - 1]
       [] acc.skip = 0 /\ IsExtendedColor(t, i) ->
            [skip |-> 2, attrs |-> SgrExtended(acc.attrs, p, t.csi_params[i + 2])]
       [] OTHER -> [skip |-> 0, attrs |-> SgrSingle(acc.attrs, p)]

(* The loop of execute_sgr: acc[n] is what it has after n parameters.      *)
SgrLoop(t) ==
  LET acc[n \in 0 .. t.csi_param_count] ==
        IF n = 0 THEN [skip |-> 0, attrs |-> t.current_attrs]
                 ELSE SgrParam(t, acc[n - 1], n - 1)
  IN acc

(* execute_sgr: the attributes after the parameters of the sequence.       *)
SgrAttrs(t) ==
  IF t.csi_param_count = 0 THEN DefaultAttrs ELSE SgrLoop(t)[t.csi_param_count].attrs

ExecuteSgr(t) == [t EXCEPT !.current_attrs = SgrAttrs(t)]

-----------------------------------------------------------------------------
(* Cursor movement and erasing.                                            *)

(* execute_cursor_move: each direction is clamped at the one edge it moves *)
(* towards.                                                                *)
ExecuteCursorMove(t, cmd) ==
  LET p    == Param(t, 0, 1)
      n    == IF p = 0 THEN 1 ELSE p
      up   == IntWrap(t.cursor_row - n)
      down == IntWrap(t.cursor_row + n)
      fwd  == IntWrap(t.cursor_col + n)
      back == IntWrap(t.cursor_col - n)
  IN CASE cmd = CUU -> [t EXCEPT !.cursor_row = IF up < 0 THEN 0 ELSE up]
       [] cmd = CUD -> [t EXCEPT !.cursor_row = IF down >= Rows THEN Rows - 1 ELSE down]
       [] cmd = CUF -> [t EXCEPT !.cursor_col = IF fwd >= Cols THEN Cols - 1 ELSE fwd]
       [] cmd = CUB -> [t EXCEPT !.cursor_col = IF back < 0 THEN 0 ELSE back]

(* Defective variant: "row > rows" instead of "row >= rows".              *)
Clamp_OffByOne(x, size) == IF x < 0 THEN 0 ELSE IF x > size THEN size - 1 ELSE x

(* The four comparisons of execute_cursor_position, for one coordinate.    *)
Clamp(x, size) == IF x < 0 THEN 0 ELSE IF x >= size THEN size - 1 ELSE x

(* execute_cursor_position: the sequence counts from 1.                    *)
ExecuteCursorPosition(t) ==
  [t EXCEPT !.cursor_row = Clamp(IntWrap(Param(t, 0, 1) - 1), Rows),
            !.cursor_col = Clamp(IntWrap(Param(t, 1, 1) - 1), Cols)]

(* execute_erase_display: only "CSI 2 J" is implemented; it also homes the *)
(* cursor.                                                                 *)
ExecuteEraseDisplay(t) ==
  IF Param(t, 0, 0) = 2
  THEN [t EXCEPT !.buffer = Erase(t, Cells), !.cursor_row = 0, !.cursor_col = 0]
  ELSE t

(* Defective variant: "i <= cols" erases one cell too many.               *)
ErasedColumns_OneMore(t) ==
  CASE Param(t, 0, 0) = 0 -> t.cursor_col .. Cols
    [] Param(t, 0, 0) = 1 -> 0 .. t.cursor_col
    [] Param(t, 0, 0) = 2 -> 0 .. Cols - 1
    [] OTHER -> {}

(* The columns execute_erase_line erases.                                  *)
ErasedColumns(t) ==
  LET n == Param(t, 0, 0)
  IN CASE n = 0 -> t.cursor_col .. Cols - 1
       [] n = 1 -> 0 .. t.cursor_col
       [] n = 2 -> 0 .. Cols - 1
       [] OTHER -> {}

ExecuteEraseLine(t) ==
  [t EXCEPT !.buffer =
     Erase(t, {Index(t.cursor_row, col) : col \in ErasedColumns(t)})]

(* parser_execute_csi                                                      *)
ExecuteCsi(t, cmd) ==
  CASE cmd = SGR                    -> ExecuteSgr(t)
    [] cmd \in {CUU, CUD, CUF, CUB} -> ExecuteCursorMove(t, cmd)
    [] cmd \in CUP                  -> ExecuteCursorPosition(t)
    [] cmd = ED                     -> ExecuteEraseDisplay(t)
    [] cmd = EL                     -> ExecuteEraseLine(t)
    [] OTHER                        -> t

-----------------------------------------------------------------------------
(* terminal_process_bytes, one operator per parser state; the last two     *)
(* states share their code.                                                *)

(* Defective variant: bytes above 126 are printed, too.                   *)
NormalByte_EightBit(t, b) ==
  CASE b = ESC -> [t EXCEPT !.parse_state = "ESC"]
    [] b = LF  -> Newline(t)
    [] b = CR  -> [t EXCEPT !.cursor_col = 0]
    [] b = BS  -> [t EXCEPT !.cursor_col = IF @ > 0 THEN @ - 1 ELSE @]
    [] b >= 32 -> PutChar(t, b)
    [] OTHER   -> t

NormalByte(t, b) ==
  CASE b = ESC          -> [t EXCEPT !.parse_state = "ESC"]
    [] b = LF           -> Newline(t)
    [] b = CR           -> [t EXCEPT !.cursor_col = 0]
    [] b = BS           -> [t EXCEPT !.cursor_col = IF @ > 0 THEN @ - 1 ELSE @]
    [] b \in Printable  -> PutChar(t, b)
    [] OTHER            -> t

(* Defective variant: the parameters are not reset.                       *)
EscByte_KeepsParams(t, b) ==
  [t EXCEPT !.parse_state     = IF b = OpenBracket THEN "CSI" ELSE "NORMAL",
            !.csi_param_count = IF b = OpenBracket THEN 0 ELSE @]

(* Defective variant: an unknown escape does not end.                     *)
EscByte_NoReturn(t, b) ==
  IF b = OpenBracket
  THEN [t EXCEPT !.parse_state     = "CSI",
                 !.csi_param_count = 0,
                 !.csi_params      = [i \in 0 .. NParams - 1 |-> 0]]
  ELSE t

EscByte(t, b) ==
  IF b = OpenBracket
  THEN [t EXCEPT !.parse_state     = "CSI",
                 !.csi_param_count = 0,
                 !.csi_params      = [i \in 0 .. NParams - 1 |-> 0]]
  ELSE [t EXCEPT !.parse_state = "NORMAL"]

CsiDigit(t, b) ==
  [t EXCEPT !.parse_state = "CSI_PARAM",
            !.csi_params[t.csi_param_count] = IntWrap(@ * 10 + (b - 48))]

(* Defective variant: no limit on the number of parameters.               *)
CsiSeparator_NoLimit(t) ==
  [t EXCEPT !.parse_state = "CSI_PARAM", !.csi_param_count = @ + 1]

CsiSeparator(t) ==
  [t EXCEPT !.parse_state = "CSI_PARAM",
            !.csi_param_count = IF @ + 1 >= NParams THEN NParams - 1 ELSE @ + 1]

(* The sequence a terminator executes: a parameter being read counts.      *)
Closed(t) ==
  [t EXCEPT !.csi_param_count = IF t.parse_state = "CSI_PARAM" THEN @ + 1 ELSE @]

(* Defective variant: the byte that ends an unknown command is put back.  *)
CsiFinal_PutsBack(t, b) ==
  LET executed == [ExecuteCsi(Closed(t), b) EXCEPT !.parse_state = "NORMAL"]
  IN IF executed = [Closed(t) EXCEPT !.parse_state = "NORMAL"]
     THEN NormalByte(executed, b) ELSE executed

CsiFinal(t, b) == [ExecuteCsi(Closed(t), b) EXCEPT !.parse_state = "NORMAL"]

CsiByte(t, b) ==
  CASE b \in Digits  -> CsiDigit(t, b)
    [] b = Semicolon -> CsiSeparator(t)
    [] OTHER         -> CsiFinal(t, b)

(* One iteration of the loop of terminal_process_bytes.                    *)
ProcessByte(t, b) ==
  CASE t.parse_state = "NORMAL"                -> NormalByte(t, b)
    [] t.parse_state = "ESC"                   -> EscByte(t, b)
    [] t.parse_state \in {"CSI", "CSI_PARAM"} -> CsiByte(t, b)

=============================================================================
