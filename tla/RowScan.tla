------------------------------ MODULE RowScan -------------------------------
(***************************************************************************)
(* A client that looks for a text on the screen while the program goes on  *)
(* writing: it asks for one row after the other with ptywrap_get_row_text, *)
(* as buffer_contains in tests/test_vi_edit.c does. Each call sees whole   *)
(* rows (module Session); between two calls the reader thread may process  *)
(* any number of bytes.                                                    *)
(*                                                                         *)
(* The text is one character, so that it never spans two rows.             *)
(***************************************************************************)
EXTENDS Terminal

CONSTANTS
  Marker, \* the character that is looked for
  BufLen  \* the size of the client's buffer

ASSUME RowScanAssumption == Marker \in Nat /\ BufLen \in Nat \ {0}

VARIABLES
  scan,   \* "idle", "scanning", "found" or "missing"
  row,    \* the next row to ask for
  kept    \* history: the places that have held the marker since the scan began

scanVars == <<term, scan, row, kept>>

Places == (0 .. Rows - 1) \X (0 .. Cols - 1)

(* The places that hold the marker, of a screen t.                         *)
Marked(t) == {p \in Places : t.buffer[Index(p[1], p[2])].ch = Marker}

ScanInit ==
  /\ Init
  /\ scan = "idle" /\ row = 0
  /\ kept = {}

(* Defective variant: the end of the string takes two places.             *)
Copied_TwoLess == IF Cols >= BufLen THEN BufLen - 2 ELSE Cols

(* The number of characters ptywrap_get_row_text copies.                   *)
Copied == IF Cols >= BufLen THEN BufLen - 1 ELSE Cols

(* ptywrap_get_row_text                                                    *)
RowText(t, r) == [col \in 0 .. Copied - 1 |-> t.buffer[Index(r, col)].ch]

Begin ==
  /\ scan = "idle"
  /\ scan' = "scanning" /\ row' = 0
  /\ kept' = Marked(term)
  /\ UNCHANGED term

(* strstr in the text of one row                                           *)
ReadRow ==
  /\ scan = "scanning"
  /\ row < Rows
  /\ IF \E col \in 0 .. Copied - 1 : RowText(term, row)[col] = Marker
     THEN scan' = "found" /\ UNCHANGED row
     ELSE row' = row + 1 /\ UNCHANGED scan
  /\ UNCHANGED <<term, kept>>

EndOfScreen ==
  /\ scan = "scanning"
  /\ row = Rows
  /\ scan' = "missing"
  /\ UNCHANGED <<term, row, kept>>

Again ==
  /\ scan \in {"found", "missing"}
  /\ scan' = "idle"
  /\ row' = 0 /\ kept' = {}
  /\ UNCHANGED term

ClientStep == Begin \/ ReadRow \/ EndOfScreen \/ Again

(* What a step of the reader thread, in parallel, means for the client.    *)
Overtaken ==
  /\ kept' = kept \cap Marked(term')
  /\ UNCHANGED <<scan, row>>

ScanNext == ClientStep \/ (Next /\ Overtaken)

ScanSpec == ScanInit /\ [][ScanNext]_scanVars

-----------------------------------------------------------------------------
(* Properties                                                              *)

(* A text that stays where it is from the first call to the last is found, *)
(* whatever the program does to the rest of the screen and however small   *)
(* the client's buffer is, as long as the text is within it. (A text that  *)
(* moves up from a row not read yet to one already read is missed.)        *)
StableTextFound ==
  scan = "missing" => \A p \in kept : p[2] >= BufLen - 1

=============================================================================
