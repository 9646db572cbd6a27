---------------------------- MODULE MCDelegation ----------------------------
(* TLC instance of Delegation. *)
EXTENDS Delegation, TLC

Symmetry == Permutations(Requests) \cup Permutations(Objects)
=============================================================================
