------------------------------- MODULE MCSend --------------------------------
(***************************************************************************)
(* Arguments of ptywrap_set_send_delay for model checking module Send.     *)
(***************************************************************************)
EXTENDS Send

SomeDelays == {-1, 0, 1}

=============================================================================
