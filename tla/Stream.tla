-------------------------------- MODULE Stream ------------------------------
(***************************************************************************)
(* Module Terminal with the program at the other end of the PTY: it sends  *)
(* whole escape sequences as ECMA-48 forms them, so that each byte is known *)
(* to be text or part of a sequence. The forms sent are                    *)
(*   ESC [ P..P F      parameter and intermediate bytes P, final byte F    *)
(*   ESC I F           an intermediate byte I (a character-set selection)  *)
(*   ESC F             a two-byte escape                                   *)
(* The parser takes any byte of a control sequence but a digit and ';' for *)
(* its final byte, and any byte after ESC but '[' for the end of the       *)
(* escape: it cuts the sequence, and what remains of it is text to it.     *)
(***************************************************************************)
EXTENDS Terminal

CONSTANTS
  Text,           \* the text and control bytes the program sends
  Parameters,     \* the bytes between the ends of its control sequences
  Finals,         \* the final bytes of its sequences
  Intermediates   \* the intermediate bytes after ESC

ASSUME StreamAssumption ==
  /\ Text \subseteq 0 .. 255 \ {ESC}
  /\ Parameters \subseteq 32 .. 63
  /\ Finals \subseteq 64 .. 126 \ {OpenBracket}
  /\ Intermediates \subseteq 32 .. 47

VARIABLES
  sending,  \* what the program is in the middle of
  cut       \* history: the parser has cut this sequence

streamVars == <<term, sending, cut>>

Send(b, next, cuts) ==
  /\ term' = ProcessByte(term, b)
  /\ sending' = next
  /\ cut' = cuts

StreamInit == Init /\ sending = "text" /\ cut = FALSE

SendText(b) == sending = "text" /\ Send(b, "text", FALSE)

SendEscape == sending = "text" /\ Send(ESC, "escape", FALSE)

SendIntermediate(b) == sending = "escape" /\ Send(b, "charset", TRUE)

SendEscapeFinal(b) == sending \in {"escape", "charset"} /\ Send(b, "text", FALSE)

SendIntroducer == sending = "escape" /\ Send(OpenBracket, "control", FALSE)

SendParameter(b) ==
  /\ sending = "control"
  /\ b \in Digits /\ ~ cut => WithinMaxParam(b)
  /\ Send(b, "control", cut \/ b \notin Digits \cup {Semicolon})

SendFinal(b) == sending = "control" /\ Send(b, "text", FALSE)

StreamNext ==
  \/ \E b \in Text : SendText(b)
  \/ SendEscape
  \/ \E b \in Intermediates : SendIntermediate(b)
  \/ \E b \in Finals : SendEscapeFinal(b)
  \/ SendIntroducer
  \/ \E b \in Parameters : SendParameter(b)
  \/ \E b \in Finals : SendFinal(b)

StreamSpec == StreamInit /\ [][StreamNext]_streamVars

-----------------------------------------------------------------------------

(* The parser is back to text whenever the program is, however the         *)
(* sequence before was formed, so that a sequence it does not know never   *)
(* swallows or alters the next one; and it is in a sequence whenever the   *)
(* program is, unless it has cut it (terminal_process_bytes,               *)
(* src/terminal.c).                                                        *)
InStep ==
  /\ sending = "text"   => term.parse_state = "NORMAL"
  /\ sending = "escape" => term.parse_state = "ESC"
  /\ sending \in {"charset", "control"} =>
       IF cut THEN term.parse_state = "NORMAL"
              ELSE term.parse_state \in {"CSI", "CSI_PARAM"}

(* Nothing the screen shows changes in this step.                          *)
DisplayUnchanged ==
  /\ term'.buffer = term.buffer
  /\ term'.cursor_row = term.cursor_row
  /\ term'.cursor_col = term.cursor_col

SupportedFinals == {CUU, CUD, CUF, CUB, ED, EL, SGR} \cup CUP

(* "Unsupported command - ignore" (src/parser.c:216), "Unknown escape -    *)
(* ignore and return to normal" (src/terminal.c:150): no byte of a         *)
(* sequence is printed or moves the cursor before the parser has cut it,   *)
(* except that the final byte of a supported control sequence executes it. *)
(* (What follows the cut is printed: the "25l" of CSI ? 2 5 l.)            *)
OnlyCutSequencesShow ==
  [][sending # "text" /\ ~ cut /\ ~ (\E b \in Finals \cap SupportedFinals : SendFinal(b))
       => DisplayUnchanged]_streamVars

=============================================================================
