---------------------------- MODULE MCSourceSync ----------------------------
(* TLC instance of SourceSync. *)
EXTENDS SourceSync
=============================================================================
