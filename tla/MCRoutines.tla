----------------------------- MODULE MCRoutines -----------------------------
(* TLC instance of Routines. *)
EXTENDS Routines
=============================================================================
