----------------------------- MODULE LatestWins -----------------------------
(***************************************************************************)
(* What every background reader of the program promises to the screen: it  *)
(* shows nothing, or the answer to what is wanted now.  Answers to earlier *)
(* wishes never appear, however late they are.  The folder-size inspector  *)
(* and the directory panes implement it.                                   *)
(***************************************************************************)
CONSTANTS Wish, Nothing

VARIABLES
    wanted,     \* what the screen is about, or Nothing
    shown       \* what the shown answer is an answer to, or Nothing

vars == <<wanted, shown>>

Init == wanted \in Wish \cup {Nothing} /\ shown = Nothing

Want(w) ==
    /\ wanted' = w
    /\ shown' = Nothing

Answer ==
    /\ wanted # Nothing
    /\ shown' = wanted
    /\ UNCHANGED wanted

Next == (\E w \in Wish \cup {Nothing} : Want(w)) \/ Answer

Spec == Init /\ [][Next]_vars

(* What is shown is what is wanted. *)
ShownIsWanted == shown \in {Nothing, wanted}
=============================================================================
