----------------------- MODULE MCNotificationPipeline -----------------------
(* TLC instance of NotificationPipeline. *)
EXTENDS NotificationPipeline, TLC

Symmetry == Permutations(Objects) \cup Permutations(Texts \ {ServiceText})
=============================================================================
