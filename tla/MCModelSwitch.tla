---------------------------- MODULE MCModelSwitch -----------------------------
(* TLC instance of ModelSwitch.  A symmetric run has model values for media. *)
EXTENDS ModelSwitch, TLC

Symmetry == Permutations(MediaModes)
=============================================================================
