----------------------------- MODULE MCProcess ------------------------------
(***************************************************************************)
(* Symmetric sessions and pids for model checking module Process. With two *)
(* pids for three sessions a pid is used again.                            *)
(***************************************************************************)
EXTENDS Process, TLC

Symmetry == Permutations(Sessions) \cup Permutations(Pids)

=============================================================================
