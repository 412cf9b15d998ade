----------------------------- MODULE MCFileApps -----------------------------
(* Two slots, both taken at the start, so a new name finds no room until a    *)
(* file is deleted; two windows of any kinds; a file loaded and one edit      *)
(* more is longer than a file holds.                                         *)
EXTENDS FileApps

MCNames == {"welcome.txt", "notes.txt", "untitled.txt"}
=============================================================================
