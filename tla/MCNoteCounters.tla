--------------------------- MODULE MCNoteCounters ---------------------------
(* Small instances of NoteCounters for TLC. *)
EXTENDS NoteCounters
=============================================================================
