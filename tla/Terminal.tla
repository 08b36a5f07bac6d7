------------------------------ MODULE Terminal ------------------------------
(***************************************************************************)
(* The terminal of one session as a state machine: each step is the        *)
(* reader thread handing one byte of output to terminal_process_bytes. The *)
(* thread holds buffer_lock meanwhile, so the bytes are processed one      *)
(* after the other and nothing else moves the terminal.                    *)
(*                                                                         *)
(* The program at the other end of the PTY is free to send any byte of its *)
(* alphabet; the alphabets below and MaxParam bound it.                    *)
(***************************************************************************)
EXTENDS Parser

CONSTANTS
  NormalInput, \* the bytes the program sends outside an escape sequence
  EscInput,    \* the bytes it sends after ESC
  CsiInput,    \* the bytes it sends after ESC [
  MaxParam     \* the largest parameter it sends

ASSUME TerminalAssumption ==
  /\ NormalInput \subseteq 0 .. 255
  /\ EscInput \subseteq 0 .. 255
  /\ CsiInput \subseteq 0 .. 255
  /\ MaxParam \in Nat

VARIABLE term

vars == term

(* The digit b keeps the parameter the program is sending within MaxParam. *)
WithinMaxParam(b) ==
  term.csi_params[term.csi_param_count] * 10 + (b - 48) <= MaxParam

-----------------------------------------------------------------------------

Init == term = InitTerminal

ReceiveNormal(b) ==
  /\ term.parse_state = "NORMAL"
  /\ term' = NormalByte(term, b)

ReceiveEsc(b) ==
  /\ term.parse_state = "ESC"
  /\ term' = EscByte(term, b)

InCsi == term.parse_state \in {"CSI", "CSI_PARAM"}

ReceiveDigit(b) ==
  /\ InCsi
  /\ b \in Digits
  /\ WithinMaxParam(b)
  /\ term' = CsiDigit(term, b)

ReceiveSeparator(b) ==
  /\ InCsi
  /\ b = Semicolon
  /\ term' = CsiSeparator(term)

ReceiveFinal(b) ==
  /\ InCsi
  /\ b \notin Digits \cup {Semicolon}
  /\ term' = CsiFinal(term, b)

Next ==
  \/ \E b \in NormalInput : ReceiveNormal(b)
  \/ \E b \in EscInput : ReceiveEsc(b)
  \/ \E b \in CsiInput : ReceiveDigit(b) \/ ReceiveSeparator(b) \/ ReceiveFinal(b)

Spec == Init /\ [][Next]_vars

-----------------------------------------------------------------------------
(* Invariants                                                              *)

Attrs == [fg_color : 0 .. 255, bg_color : 0 .. 255, attrs : SUBSET Flags]

Cell == [ch : Printable, fg_color : 0 .. 255, bg_color : 0 .. 255,
         attrs : SUBSET Flags]

Ints == -(MaxInt + 1) .. MaxInt

Terminals ==
  [buffer          : [Cells -> Cell],
   cursor_row      : Ints,
   cursor_col      : Ints,
   current_attrs   : Attrs,
   parse_state     : {"NORMAL", "ESC", "CSI", "CSI_PARAM"},
   csi_params      : [0 .. NParams - 1 -> Ints],
   csi_param_count : 0 .. NParams]

(* The type of struct ptywrap_session's terminal fields. A cell only ever  *)
(* holds printable ASCII.                                                  *)
TypeOK == term \in Terminals

(* The cursor is on the screen whatever the program sends. The buffer is   *)
(* indexed with it, so this is what makes every access of terminal.c and   *)
(* parser.c fall inside the allocation. Each cursor command clamps only    *)
(* the edge it moves towards, and terminal_put_char relies on the wrap of  *)
(* the previous character.                                                 *)
CursorOnScreen ==
  /\ term.cursor_row \in 0 .. Rows - 1
  /\ term.cursor_col \in 0 .. Cols - 1

(* While a sequence is being read, the slot the next digit goes to exists, *)
(* however many ';' came before; and when it is executed, the count does   *)
(* not exceed the array.                                                   *)
SlotExists ==
  /\ InCsi => term.csi_param_count \in 0 .. NParams - 1
  /\ term.csi_param_count <= NParams

(* A sequence never sees parameters of an earlier one: the slots it has    *)
(* not reached are 0, and so is the whole array until a digit or ';' comes *)
(* (an SGR with an empty parameter must reset, not repeat).                *)
FreshParams ==
  /\ InCsi => \A i \in 0 .. NParams - 1 :
                i > term.csi_param_count => term.csi_params[i] = 0
  /\ term.parse_state = "CSI" =>
       term.csi_param_count = 0 /\ term.csi_params[0] = 0

-----------------------------------------------------------------------------
(* Action properties                                                       *)

Row(r) == {Index(r, col) : col \in 0 .. Cols - 1}

(* The cells outside the cursor's line are what they were.                 *)
OnlyCursorRow ==
  \A i \in Cells \ Row(term.cursor_row) : term'.buffer[i] = term.buffer[i]

(* Every line moved up by one. Only the last cell of the old last line may *)
(* be new: the character that caused the scroll. The new last line is      *)
(* empty.                                                                  *)
MovedUp ==
  /\ term.cursor_row = Rows - 1
  /\ \A i \in Cells : i < (Rows - 1) * Cols - 1 => term'.buffer[i] = term.buffer[i + Cols]
  /\ \A i \in Row(Rows - 1) : term'.buffer[i] = Blank(term.current_attrs)

(* The whole display was erased.                                           *)
Cleared == \A i \in Cells : term'.buffer[i] = Blank(term.current_attrs)

(* One byte changes at most the line the cursor is on, unless it scrolls   *)
(* the screen by one line or clears it: an erase or a wrapped character    *)
(* never spills into a neighbouring line of the flat array.                *)
RowConfinement == [][OnlyCursorRow \/ MovedUp \/ Cleared]_vars

=============================================================================
