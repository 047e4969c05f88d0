-------------------------- MODULE MCEventPipeline --------------------------
(* Small instances of EventPipeline for TLC. *)
EXTENDS EventPipeline, TLC

Symmetry == Permutations(Publisher) \cup Permutations(Handler)
=============================================================================
