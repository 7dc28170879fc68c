------------------------- MODULE MCPlannedActions -------------------------
(* An instance of PlannedActions for TLC: the directory d(f, s(b)), where b *)
(* is dated before 1970, the file f, the link l, the empty directory t.     *)
EXTENDS PlannedActionsInvariant, TLC

MCNames == {"b", "d", "f", "g", "l", "s", "t"}
InD == {<<"f">>, <<"s">>, <<"s", "b">>, <<"s", "d">>,
        <<"b">>, <<"b", "b">>, <<"b", "d">>}
MCPath ==
    {<<>>, <<"d">>, <<"f">>, <<"g">>, <<"l">>, <<"t">>, <<"t", "d">>, <<"t", "f">>}
    \cup {<<"d">> \o p : p \in InD} \cup {<<"t", "d">> \o p : p \in InD}
Dir(time) == [kind |-> "Directory", len |-> 0, time |-> time]
MCTree == [p \in MCPath |->
    CASE p = <<>> -> Dir(1) [] p = <<"d">> -> Dir(2) [] p = <<"t">> -> Dir(3)
      [] p = <<"d", "s">> -> Dir(4)
      [] p = <<"d", "f">> -> [kind |-> "File", len |-> 1, time |-> 5]
      [] p = <<"f">> -> [kind |-> "File", len |-> 1, time |-> 6]
      [] p = <<"d", "s", "b">> -> [kind |-> "File", len |-> 1, time |-> 0]
      [] p = <<"l">> -> [kind |-> "Link", len |-> 0, time |-> 7]
      [] OTHER -> Absent]
Of(kind, sources, to, name) ==
    [kind |-> kind, sources |-> sources, to |-> to, name |-> name]
Delete(kind, sources) == Of(kind, sources, <<>>, "")
Move(sources, to) == Of("Move", sources, to, "")
MCIntents ==
    {Delete("PermanentDelete", {<<"d">>, <<"f">>}),
     Delete("PermanentDelete", {<<"d">>, <<"d", "f">>}),
     Delete("PermanentDelete", {<<>>}), Delete("Recycle", {}),
     Delete("Recycle", {<<"d">>, <<"f">>}),
     Move({<<"d">>, <<"f">>}, <<"t">>), Move({<<"d">>}, <<"d", "s">>),
     Move({<<"f">>, <<"d", "f">>}, <<"t">>), Move({<<"f">>}, <<>>),
     Of("Rename", {<<"f">>}, <<>>, "g"), Of("Rename", {<<"d", "s">>}, <<>>, "b"),
     Of("Rename", {<<"f">>}, <<>>, "l"), Of("Rename", {<<"f">>}, <<>>, "f"),
     Of("Rename", {<<"f">>}, <<>>, "no such name"),
     Of("CreateDirectory", {<<"t">>}, <<>>, "f")}
MCTouched == {<<"d", "s">>, <<"d", "s", "b">>, <<"f">>, <<"g">>, <<"t", "f">>}
=============================================================================
