----------------------------- MODULE MCNoteCache -----------------------------
(***************************************************************************)
(* A small instance for TLC of what the note service keeps in Redis.  An   *)
(* initial choice decides what runs, for the two parts share no state: the *)
(* note with its cache entry and its ranking (NoteCache), or the pages of  *)
(* its comments (CommentPages).                                            *)
(***************************************************************************)
EXTENDS NoteCache, CommentPages

VARIABLE part

mcVars == <<part, vars, commentVars>>

MCInit == part \in {"note", "comments"} /\ Init /\ CommentInit

MCNext ==
    \/ part = "note" /\ Next /\ UNCHANGED <<part, commentVars>>
    \/ part = "comments" /\ CommentNext /\ UNCHANGED <<part, vars>>

MCSpec == MCInit /\ [][MCNext]_mcVars /\ Fairness

\* Bound: three comments, and room for a new one between them and at the end.
MCComment == 1..5
MCOldComment == {1, 2, 4}
=============================================================================
