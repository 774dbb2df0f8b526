----------------------------- MODULE MCNoteManager -----------------------------
(* NoteManager on small instances.                                         *)
EXTENDS NoteManager

\* What an earlier run of the server has left.
MCFile == {1}
MCNoFile == {None}
MCAnyFile == {None, 1}
================================================================================
