----------------------------- MODULE MCTerminal -----------------------------
(***************************************************************************)
(* Alphabets for model checking module Terminal, with the history of       *)
(* module Scrollback.                                                      *)
(***************************************************************************)
EXTENDS Scrollback

(* 'A', LF, CR, BS, ESC, BEL (ignored) and a byte above 127 (ignored).     *)
TextAlphabet == {65, LF, CR, BS, ESC, 7, 195}

(* '[' and one byte that does not start a control sequence.                *)
EscAlphabet == {OpenBracket, 40}

(* '1' '2' '3' ';', every supported command and an unknown one.            *)
CommandAlphabet ==
  {49, 50, 51, Semicolon, CUU, CUD, CUF, CUB, 72, ED, EL, SGR, 120}

(* '2' '3' '9' ';', every cursor and erase command.                        *)
CursorAlphabet == {50, 51, 57, Semicolon, CUU, CUD, CUF, CUB, 72, ED, EL}

=============================================================================
