------------------------ MODULE MCEvidenceIngestion ------------------------
(* Model-checking instance of EvidenceIngestion. *)
EXTENDS EvidenceIngestion, TLC

Symmetry == Permutations(Process) \cup Permutations(Run)
=============================================================================
