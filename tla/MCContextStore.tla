--------------------------- MODULE MCContextStore ---------------------------
(* TLC instance of ContextStore. *)
EXTENDS ContextStore, TLC

Symmetry == Permutations(Refs) \cup Permutations(Contents) \cup Permutations(MemoryIds)
                \cup Permutations(Objects) \cup Permutations(RequestIds)
=============================================================================
