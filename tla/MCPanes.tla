------------------------------ MODULE MCPanes ------------------------------
(* Instances of Panes for TLC: a drive c with the directory d; the
   list of drives shows c and the favorite d. *)
EXTENDS Panes, TLC
CONSTANTS l, r, c, d, file

MCParent == (c :> Drives) @@ (d :> c)
MCEntries == (Drives :> {c, d}) @@ (c :> {d, file}) @@ (d :> {})
MCStart == [p \in Pane |-> IF p = l THEN d ELSE Drives]
=============================================================================
