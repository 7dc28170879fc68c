---------------------- MODULE OperationEngineInvariant ----------------------
(***************************************************************************)
(* The inductive invariant of the reviewed-operation protocol.  Its parts  *)
(* say where the newest job is and what may still be under way about it in *)
(* the channels and on the screen; the properties of OperationEngine       *)
(* follow from it.                                                         *)
(***************************************************************************)
EXTENDS OperationEngine

Newest == nextJob - 1
BeforeReview == {"announcing", "planning", "rejecting", "presenting"}
AtCollision == {"offer", "await", "listen", "decided"}
Copying == AtCollision \cup {"visit", "enqueue", "closing", "closed"}

\* The coordinator's and the executor's locals agree with where they are: the
\* executor exists while the coordinator runs it, workers while it copies,
\* and an entry and a collision while one is being dealt with.
LocalsAgree ==
    /\ coord # "idle" => job \in Jobs
    /\ coord \in BeforeReview => kind \in Kinds
    /\ coord = "presenting" => mode \in Modes /\ left > 0
    /\ coord = "running" <=> prod # "off"
    /\ inflight > 0 => prod \in Copying
    /\ prod \in AtCollision \cup {"enqueue"} => left > 0
    /\ prod \in AtCollision => conflict \in Conflicts

\* Typing that an action preserves on its own.
TypeInvariant == TypeOK /\ LocalsAgree

Queued(type) == \E i \in 1..Len(commands) : commands[i].type = type
ReviewUnderWay == \E i \in 1..Len(events) : events[i].type = "PlanReady"

\* A Plan command is the last one in the channel and plans the newest job.
PlanComesLast ==
    \A i \in 1..Len(commands) :
        commands[i].type = "Plan" =>
            i = Len(commands) /\ commands[i].job = Newest

\* Whatever the engine works on or holds is the newest job.
EngineHasTheNewest ==
    /\ CoordActive => job = Newest
    /\ PlanHeld => plan.job = Newest

\* Before its review is announced, nobody can have decided about the job.
UndecidedBeforeReview ==
    /\ PlanQueued \/ coord \in BeforeReview =>
          /\ view.type # "Review"
          /\ ~ReviewUnderWay
          /\ Newest \notin approved
    /\ coord \in BeforeReview => commands = <<>>

\* An announced review is that of the plan on hold, and still undecided.
AnnouncedReview ==
    /\ \A i \in 1..Len(events) :
          events[i].type = "PlanReady" =>
              /\ events[i].job = Newest
              /\ \A k \in 1..Len(events) :
                    events[k].type = "PlanReady" => k = i
    /\ ReviewUnderWay =>
          /\ PlanHeld /\ commands = <<>>
          /\ view.type # "Review"
          /\ Newest \notin approved

\* A review on screen is that of the newest job: it is on hold and not
\* abandoned, or was approved; not yet approved where keys go to a prompt.
ReviewOnScreen ==
    view.type = "Review" =>
        /\ view.job = Newest
        /\ Newest \in approved \/ (PlanHeld /\ ~Queued("Abandon"))
        /\ overlay # "none" => Newest \notin approved

\* Approvals under way were given, and approved jobs were submitted.
ApprovalsGiven ==
    /\ \A i \in 1..Len(commands) :
          commands[i].type = "Approve" => commands[i].job \in approved
    /\ \A j \in approved : j <= Newest

\* The commands that reach a plan on hold are about it, and once it is
\* approved the approval reaches it first.
DecisionsReachThePlan ==
    PlanHeld =>
        /\ \A i \in 1..Len(commands) :
              commands[i].type # "Plan" /\ commands[i].job = Newest
        /\ Newest \in approved =>
              commands # <<>> /\ Head(commands).type = "Approve"

QuitIsIdle == uiPc = "quit" => ~busy

EngineInvariant ==
    /\ TypeInvariant
    /\ BusyHasOneOwner
    /\ PlanComesLast
    /\ EngineHasTheNewest
    /\ UndecidedBeforeReview
    /\ AnnouncedReview
    /\ ReviewOnScreen
    /\ ApprovalsGiven
    /\ DecisionsReachThePlan
    /\ OnlyApprovedJobsRun
    /\ QuitIsIdle

----------------------------------------------------------------------------
(* How a job ends.  These parts rest on EngineInvariant: while a job runs,  *)
(* the busy flag keeps out the submission that would take back a            *)
(* cancellation or put something else on screen.                            *)

\* A choice under way, and an answer, belong to the job whose collision was on
\* screen.
ChoicesKeepTheirJob ==
    /\ \A i \in 1..Len(resolutions) :
          resolutions[i].job = resolutions[i].shown.job
    /\ NoAnswerCrossesJobs

\* What was left undone is on record: a walk is given up only by a
\* cancellation or a stop, a stop only by a failure or a cancellation, and the
\* list of failures decides what is reported.
ScopeIsAccountedFor ==
    /\ coord \notin {"running", "reporting"} => ~stopped
    /\ coord = "running" => (stopped => failed \/ cancel)
    /\ prod = "closing" => Interrupted
    /\ prod = "closed" => left = 0 \/ Interrupted
    /\ prod = "cleanup" => left = 0
    /\ prod = "finished" => left = 0 \/ failed \/ cancel
    /\ CompletedMeansEverything

\* What the screen will show once the events under way have been drained.
Coming == IF events = <<>> THEN view ELSE ViewOf(events[Len(events)])
Closed == {"Idle", "Finished", "Error"}

\* The last word about a job is its end: the report, the error or, while its
\* plan is on hold, the review, unless the user has just abandoned it.
LastWordIsTheEnd ==
    /\ coord = "releasing" => Coming.type \in Closed
    /\ coord = "idle" /\ ~PlanQueued /\ ~PlanHeld => Coming.type \in Closed
    /\ PlanHeld => \/ Coming.type = "Review" /\ Coming.job = plan.job
                   \/ Coming.type = "Idle" /\ Queued("Abandon")

OutcomeInvariant ==
    /\ EngineInvariant
    /\ ChoicesKeepTheirJob
    /\ ScopeIsAccountedFor
    /\ LastWordIsTheEnd
=============================================================================
