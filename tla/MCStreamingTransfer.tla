----------------------- MODULE MCStreamingTransfer -----------------------
(* Instances of StreamingTransfer for TLC: three roots a, b and the folder d
   with the file c, and what may stand at their targets. *)
EXTENDS StreamingTransferInvariant, TLC
CONSTANTS a, b, c, d, top, na, na2, nb, nc, nd, nd2

MCNames == (a :> na) @@ (b :> nb) @@ (c :> nc) @@ (d :> nd)
(* b has the name that Keep both gives to a second a. *)
MCClashingNames == (a :> na) @@ (b :> na2) @@ (c :> nc) @@ (d :> nd)
MCCopies == (na :> <<na2>>) @@ (na2 :> <<>>) @@ (nb :> <<>>) @@ (nc :> <<>>) @@ (nd :> <<nd2>>) @@ (nd2 :> <<>>)
MCTimes == [f \in File |-> 2]

Tree == [x \in {d, top} |-> IF x = d THEN {c} ELSE {a, d}]
TwoFiles == [x \in {top} |-> {a, b}]

Strange(time) == FileOf(<<Other, 0>>, time)
AtA == {[p \in {} |-> Folder], <<na>> :> Strange(1), <<na>> :> Strange(2),
        <<na>> :> Strange(3), <<na>> :> FileOf(<<a, 0>>, 2), <<na>> :> Folder}
AtD == {[p \in {} |-> Folder], <<nd>> :> Strange(2),
        (<<nd>> :> Folder) @@ (<<nd, nc>> :> Strange(1))}
Anything == {x @@ y : x \in AtA, y \in AtD}
OldFile == {<<na>> :> Strange(1)}
=============================================================================
