-------------------------- MODULE MCPreviewLoader --------------------------
(* An instance of PreviewLoader for TLC: two files of two windows. *)
EXTENDS PreviewLoader, TLC
CONSTANTS x, y
=============================================================================
