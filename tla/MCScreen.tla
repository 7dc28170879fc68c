------------------------------ MODULE MCScreen ------------------------------
(* Instances of Screen for TLC.  The drive c has the directory e, the notes m,
   a Markdown file, and the hidden log h, a large file of two windows; or the text u
   in UTF-16 with a surrogate pair.  d is the user's folder, on the same drive. *)
EXTENDS ScreenInductive, TLC
CONSTANTS l, r, c, d, e, h, m, u, word, bad, byName

MCParent == (c :> Drives) @@ (d :> c) @@ (e :> c)
MCHit == (NoFilter :> Path) @@ (byName :> {d, h})
MCSortFields == <<"Name", "Size">>
MCKey == [Name |-> (c :> 0) @@ (d :> 1) @@ (e :> 1) @@ (m :> 2) @@ (h :> 3) @@ (u :> 3)
                 @@ (Drives :> 0),
          Size |-> (c :> 0) @@ (d :> 0) @@ (e :> 0) @@ (m :> 2) @@ (h :> 1) @@ (u :> 1)
                 @@ (Drives :> 0)]
MCRank == (c :> 0) @@ (d :> 1) @@ (e :> 2) @@ (m :> 3) @@ (h :> 4) @@ (Drives :> 5)
          @@ (u :> 6)
At(path, kind) == [path |-> path, kind |-> kind]
MCListings ==
    (Drives :> {{At(c, "Drive")}})
    @@ (c :> {{At(Drives, "Parent"), At(e, "Directory"), At(m, "File"), At(h, "File")},
              {At(Drives, "Parent"), At(u, "File")}})
    @@ (d :> {{At(c, "Parent")}}) @@ (e :> {{At(c, "Parent")}})
MCFile ==
    (m :> [kind |-> "Markdown", size |-> 3, utf16 |-> FALSE, continuation |-> {},
           formatted |-> 2])
    @@ (h :> [kind |-> "Log", size |-> 11, utf16 |-> FALSE,
              continuation |-> {3, 6, 7}, formatted |-> 0])
    @@ (u :> [kind |-> "Text", size |-> 15, utf16 |-> TRUE,
              continuation |-> {1, 3, 5, 7, 9, 11, 12, 13}, formatted |-> 0])
MCLines(path, start, end) == Max({1, end - start})
(* The word is found in every line but the first; bad is no regular expression. *)
MCFound(document, side, query, options) ==
    IF query = bad /\ "Regex" \in options THEN Invalid
    ELSE IF query = bad THEN <<>>
    ELSE [i \in 1 .. LinesOn(document, side) - 1 |-> i]
MCFiles == {<<e, e>>, <<d, e>>}
MCStart == [p \in Pane |-> IF p = l THEN c ELSE Drives]
=============================================================================
