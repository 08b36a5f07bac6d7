-------------------------------- MODULE MCSgr -------------------------------
(***************************************************************************)
(* Lists of SGR parameters for model checking execute_sgr: instead of      *)
(* letting the program send them byte by byte, a run starts where the      *)
(* final byte is about to come, in every state that a list of parameters   *)
(* leaves the parser in.                                                   *)
(***************************************************************************)
EXTENDS SgrReference

(* Reset, every flag on and off, a foreground and a background colour,     *)
(* their defaults, extended colours, an index that a uint8_t does not hold, *)
(* and a number without a meaning.                                         *)
Values == {0, 1, 4, 5, 7, 22, 24, 25, 27, 31, 37, 38, 39, 44, 48, 49, 58, 300}

OldAttrs ==
  {DefaultAttrs,
   [fg_color |-> 1, bg_color |-> 200, attrs |-> {"bold", "reverse"}]}

(* n parameters were sent: n - 1 separators are counted so far.            *)
SgrInit ==
  \E n \in 1 .. NParams, old \in OldAttrs, list \in [0 .. NParams - 1 -> Values] :
    /\ \A i \in n .. NParams - 1 : list[i] = 0
    /\ term = [InitTerminal EXCEPT !.parse_state = "CSI_PARAM", !.current_attrs = old,
                                   !.csi_params = list, !.csi_param_count = n - 1]

SgrSpec == SgrInit /\ [][ReceiveFinal(SGR)]_vars

None == {}

=============================================================================
