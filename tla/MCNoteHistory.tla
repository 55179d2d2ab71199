---------------------------- MODULE MCNoteHistory ----------------------------
(* A Note of up to two blocks for TLC. *)
EXTENDS NoteHistory
===============================================================================
