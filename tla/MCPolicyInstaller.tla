--------------------------- MODULE MCPolicyInstaller ---------------------------
(* TLC instance of PolicyInstaller. *)
EXTENDS PolicyInstaller, TLC

Symmetry == Permutations(Candidates) \cup Permutations(Transactions)

\* Faults are followed while master has moved at most once.
FaultBound == faults > 0 => Len(history) <= 2
==============================================================================
