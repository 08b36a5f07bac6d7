------------------------------- MODULE Screen -------------------------------
(***************************************************************************)
(* The terminal buffer of a session (src/terminal.c): a flat, row-major    *)
(* array of cells, the cursor, and the attributes the next character is    *)
(* written with.                                                           *)
(*                                                                         *)
(* The part of struct ptywrap_session that the reader thread updates under *)
(* buffer_lock is one record, the "terminal":                              *)
(*   buffer          [Cells -> cell]                                       *)
(*   cursor_row, cursor_col                                                *)
(*   current_attrs   [fg_color, bg_color, attrs]                           *)
(*   parse_state, csi_params, csi_param_count   (used by module Parser)    *)
(* A bit field of PTYWRAP_ATTR_* flags is the set of its flags.            *)
(***************************************************************************)
EXTENDS Integers, Sequences

CONSTANTS
  Rows,    \* session->rows
  Cols,    \* session->cols
  NParams, \* the length of csi_params (16 in the code)
  MaxInt   \* the largest value of a C int (2^31 - 1 in the code)

ASSUME ScreenAssumption ==
  /\ Rows \in Nat \ {0}
  /\ Cols \in Nat \ {0}
  /\ NParams \in Nat \ {0}
  /\ MaxInt \in Nat \ {0}
  /\ Rows <= MaxInt /\ Cols <= MaxInt

Cells == 0 .. (Rows * Cols - 1)

Index(row, col) == row * Cols + col

(* The value an int variable holds after an assignment of x: the library   *)
(* is built without optimisation, where signed arithmetic wraps around.    *)
IntWrap(x) == ((x + MaxInt + 1) % (2 * MaxInt + 2)) - (MaxInt + 1)

Uint8(x) == x % 256

Flags == {"bold", "underline", "reverse", "blink"}

DefaultAttrs == [fg_color |-> 7, bg_color |-> 0, attrs |-> {}]

Space == 32

(* A cell written with the attributes a.                                   *)
Glyph(ch, a) ==
  [ch |-> ch, fg_color |-> a.fg_color, bg_color |-> a.bg_color, attrs |-> a.attrs]

(* A cell that an erase or a scroll leaves behind: it takes the current    *)
(* colours, not the current flags.                                         *)
Blank(a) == [Glyph(Space, a) EXCEPT !.attrs = {}]

(* terminal_init, with the parser_reset it ends in.                        *)
InitTerminal ==
  [buffer          |-> [i \in Cells |-> Blank(DefaultAttrs)],
   cursor_row      |-> 0,
   cursor_col      |-> 0,
   current_attrs   |-> DefaultAttrs,
   parse_state     |-> "NORMAL",
   csi_params      |-> [i \in 0 .. NParams - 1 |-> 0],
   csi_param_count |-> 0]

-----------------------------------------------------------------------------

(* The buffer with the cells of S erased.                                  *)
Erase(t, S) ==
  [i \in Cells |-> IF i \in S THEN Blank(t.current_attrs) ELSE t.buffer[i]]

(* Defective variant: the last line is not cleared.                       *)
ScrollUp_KeepsLast(t) ==
  [i \in Cells |-> IF i < (Rows - 1) * Cols THEN t.buffer[i + Cols] ELSE t.buffer[i]]

(* The buffer moved up by one line, the last line erased.                  *)
ScrollUp(t) ==
  [i \in Cells |-> IF i < (Rows - 1) * Cols THEN t.buffer[i + Cols]
                                            ELSE Blank(t.current_attrs)]

(* terminal_newline                                                        *)
Newline(t) ==
  IF t.cursor_row + 1 >= Rows
  THEN [t EXCEPT !.cursor_col = 0, !.cursor_row = Rows - 1,
                 !.buffer = ScrollUp(t)]
  ELSE [t EXCEPT !.cursor_col = 0, !.cursor_row = @ + 1]

(* terminal_put_char: the cursor wraps to the next line as soon as the     *)
(* last column is written.                                                 *)
PutChar(t, ch) ==
  LET written ==
        [t EXCEPT !.buffer[Index(t.cursor_row, t.cursor_col)] = Glyph(ch, t.current_attrs),
                  !.cursor_col = @ + 1]
  IN IF t.cursor_row >= Rows \/ t.cursor_col >= Cols
     THEN t
     ELSE IF written.cursor_col >= Cols THEN Newline(written) ELSE written

=============================================================================
