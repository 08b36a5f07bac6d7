----------------------------- MODULE MCBinding ------------------------------
(***************************************************************************)
(* Symmetric objects and sessions for model checking module Binding.       *)
(***************************************************************************)
EXTENDS Binding, TLC

Symmetry == Permutations(Objects) \cup Permutations(Handles)

=============================================================================
