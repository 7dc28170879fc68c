---------------------------- MODULE MCFolderSize ----------------------------
(* Instances of FolderSize for TLC. *)
EXTENDS FolderSize, TLC
CONSTANTS l, r, x, y
=============================================================================
