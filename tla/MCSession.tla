------------------------------ MODULE MCSession -----------------------------
(***************************************************************************)
(* Two application threads for model checking module Session.              *)
(***************************************************************************)
EXTENDS Session

CONSTANTS c1, c2

TwoClients == {c1, c2}

=============================================================================
