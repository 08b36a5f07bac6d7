------------------------------- MODULE MCStream -----------------------------
(***************************************************************************)
(* Alphabets for model checking module ScannedStream. The program sends    *)
(* bytes of module Stream's alphabets only.                                *)
(***************************************************************************)
EXTENDS ScannedStream

None == {}

(* What the client looks for.                                              *)
A == 65

(* 'A', LF, and the first byte of a two-byte UTF-8 sequence.               *)
SomeText == {65, LF, 195}

(* '2' ';' '?': with the private sequences of every full-screen program,   *)
(* such as "CSI ? 2 5 l", which hides the cursor.                          *)
SomeParameters == {50, Semicolon, 63}

(* Every supported final byte ('B' being one of them), and 'l'.            *)
AllFinals == {CUU, CUD, CUF, CUB, 72, 102, ED, EL, SGR, 108}

(* '(': "ESC ( B" selects the US-ASCII character set.                      *)
CharsetIntermediates == {40}

=============================================================================
