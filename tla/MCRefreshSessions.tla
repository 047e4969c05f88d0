-------------------------- MODULE MCRefreshSessions --------------------------
(* Model-checking instance of RefreshSessions. *)
EXTENDS RefreshSessions, TLC

Symmetry == Permutations(Request)
=============================================================================
