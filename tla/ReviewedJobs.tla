---------------------------- MODULE ReviewedJobs ----------------------------
(***************************************************************************)
(* What the operation engine promises: one operation at a time goes from   *)
(* planning through a review to execution, it executes only if it was      *)
(* approved in that review, and an approved operation is no longer         *)
(* abandoned.  No channel, flag or screen is mentioned.                    *)
(***************************************************************************)
EXTENDS Naturals

CONSTANT MaxJobs  \* bound: operations submitted in one session

VARIABLES stage,    \* where the newest operation is
          current,  \* its number
          accepted  \* whether the user approved it

vars == <<stage, current, accepted>>

Init == stage = "idle" /\ current = 0 /\ accepted = FALSE

\* A submission opens the slot, or uses up a number without opening it.
Submit ==
    /\ stage = "idle"
    /\ current < MaxJobs
    /\ current' = current + 1
    /\ stage' \in {"idle", "planning"}
    /\ accepted' = FALSE

Plan ==
    /\ stage = "planning"
    /\ stage' \in {"review", "closing"}
    /\ UNCHANGED <<current, accepted>>

Approve ==
    /\ stage = "review"
    /\ accepted' = TRUE
    /\ UNCHANGED <<stage, current>>

Abandon ==
    /\ stage = "review" /\ ~accepted
    /\ stage' = "idle"
    /\ UNCHANGED <<current, accepted>>

Execute ==
    /\ stage = "review" /\ accepted
    /\ stage' = "executing"
    /\ UNCHANGED <<current, accepted>>

Finish ==
    /\ stage = "executing"
    /\ stage' = "closing"
    /\ UNCHANGED <<current, accepted>>

Release ==
    /\ stage = "closing"
    /\ stage' = "idle"
    /\ UNCHANGED <<current, accepted>>

Next == Submit \/ Plan \/ Approve \/ Abandon \/ Execute \/ Finish \/ Release

Spec == Init /\ [][Next]_vars
=============================================================================
