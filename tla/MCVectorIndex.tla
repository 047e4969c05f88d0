---------------------------- MODULE MCVectorIndex ----------------------------
(* Model-checking instances of VectorIndex. *)
EXTENDS VectorIndex
=============================================================================
