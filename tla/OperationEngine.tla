-------------------------- MODULE OperationEngine --------------------------
(***************************************************************************)
(* The reviewed-operation protocol of DirVeyor: the user-interface thread, *)
(* the operation coordinator it drives over three bounded channels, and    *)
(* the executor the coordinator runs inside itself.                        *)
(*                                                                         *)
(*   UI thread    -- commands (cap. 4), resolutions (cap. 1) -->  engine   *)
(*   UI thread   <-- events (cap. 32) --------------------------  engine   *)
(*   shared atomics: busy, cancel                                          *)
(*                                                                         *)
(* The UI never blocks: it drains every event, draws, and handles at most  *)
(* one key.  The coordinator blocks on `send` for the events that matter   *)
(* and drops progress when the channel is full.  Executing a transfer is a *)
(* producer that walks the source tree, pauses at a collision and feeds    *)
(* copy workers that keep reporting progress meanwhile.                    *)
(***************************************************************************)
EXTENDS Integers, Sequences

CONSTANTS
    Kinds,            \* the operation kinds the user submits
    ConflictKinds,    \* the classes of collision a transfer may meet
    Choices,          \* the conflict actions the user picks from
    CommandCapacity,  \* slots of the command channel
    EventCapacity,    \* slots of the event channel
    QueueCapacity,    \* copies queued or under way at once
    MaxJobs,          \* bound: operations submitted in one session
    MaxEntries        \* bound: entries of one operation

OperationKinds == {"Copy", "Move", "Recycle", "PermanentDelete", "Rename",
                   "CreateDirectory"}
ConflictActions == {"KeepNewer", "KeepOlder", "KeepSource",
                    "KeepDestination", "KeepBoth", "Skip"}
TypeActions == {"KeepDestination", "KeepBoth", "Skip"}
ByAge == {"KeepNewer", "KeepOlder"}

ASSUME EngineAssumption ==
    /\ Kinds \subseteq OperationKinds
    /\ ConflictKinds \subseteq {"file", "type"}
    /\ Choices \subseteq ConflictActions
    /\ CommandCapacity \in Nat \ {0}
    /\ EventCapacity \in Nat \ {0}
    /\ QueueCapacity \in Nat \ {0}
    /\ MaxJobs \in Nat \ {0}
    /\ MaxEntries \in Nat \ {0}

VARIABLES
    commands, events, resolutions,  \* the three channels
    busy, cancel,                   \* the shared atomics
    nextJob,                        \* job ids handed out
    coord, job, kind, mode, plan, report,      \* the coordinator's locals
    prod, left, inflight, stopped, done, failed,
    policy, conflict, answer,                  \* the executor's locals
    uiPc, view, overlay,                       \* the UI thread
    approved, told, changed         \* history: jobs the user approved, jobs
                                    \* reported as having changed nothing,
                                    \* jobs that changed the file system

channelVars == <<commands, events, resolutions>>
coordVars == <<coord, job, kind, mode, plan, report>>
discoveryVars == <<prod, left, policy, conflict, answer>>
copyVars == <<inflight, stopped, done, failed>>
uiVars == <<uiPc, view, overlay>>
historyVars == <<approved, told, changed>>
vars == <<channelVars, busy, cancel, nextJob, coordVars, discoveryVars,
          copyVars, uiVars, historyVars>>

----------------------------------------------------------------------------
(* Data *)

Jobs == 1..MaxJobs
NoJob == 0
Ask == "Ask"
NoConflict == [job |-> NoJob, item |-> 0, kind |-> "none", dated |-> FALSE]
Conflicts == [job: Jobs, item: 1..MaxEntries, kind: ConflictKinds,
              dated: BOOLEAN]
NoAnswer == [action |-> Ask, shown |-> NoConflict]
NoPlan == [job |-> NoJob, kind |-> "none", mode |-> "none", entries |-> 0]

\* Transfer without and with source removal, and the actions that work
\* through a list of reviewed items (rename, create, recycle, delete).
Modes == {"copy", "move", "items"}
ModesOf(k) == CASE k = "Copy" -> {"copy"}
                [] k = "Move" -> {"move", "items"}
                [] OTHER -> {"items"}

Command(type, j, k) == [type |-> type, job |-> j, kind |-> k]
Event(type, j, c) == [type |-> type, job |-> j, conflict |-> c]
View(type, j, c, all) ==
    [type |-> type, job |-> j, conflict |-> c, all |-> all]
IdleView == View("Idle", NoJob, NoConflict, FALSE)
ViewBusy == view.type \in {"Planning", "Review", "Running", "Conflict"}

\* What drain_operation_events makes of each event.
ViewOf(e) ==
    View(CASE e.type = "PlanReady" -> "Review"
           [] e.type = "Progress" -> "Running"
           [] e.type = "Failed" -> "Error"
           [] OTHER -> e.type,
         e.job, e.conflict, FALSE)

----------------------------------------------------------------------------
Init ==
    /\ commands = <<>> /\ events = <<>> /\ resolutions = <<>>
    /\ busy = FALSE /\ cancel = FALSE /\ nextJob = 1
    /\ coord = "idle" /\ job = NoJob /\ kind = "none" /\ mode = "none"
    /\ plan = NoPlan /\ report = "none"
    /\ prod = "off" /\ left = 0
    /\ policy = [k \in ConflictKinds |-> Ask]
    /\ conflict = NoConflict /\ answer = NoAnswer
    /\ inflight = 0 /\ stopped = FALSE /\ done = FALSE /\ failed = FALSE
    /\ uiPc = "drain" /\ view = IdleView /\ overlay = "none"
    /\ approved = {} /\ told = {} /\ changed = {}

----------------------------------------------------------------------------
(* Sending *)

\* Mutant: the events that matter are dropped on a full channel too.
LossySend(e) ==
    events' = IF Len(events) < EventCapacity THEN Append(events, e) ELSE events

\* `send`: waits for a slot.
SendEvent(e) ==
    /\ Len(events) < EventCapacity
    /\ events' = Append(events, e)

\* `try_send` of progress: dropped when the channel is full.
TryProgress(type) ==
    events' = IF Len(events) < EventCapacity
              THEN Append(events, Event(type, job, NoConflict))
              ELSE events

\* `try_send` of a command: on a full channel the caller sees an error.
CommandRoom == Len(commands) < CommandCapacity

----------------------------------------------------------------------------
(* The coordinator thread: commands and planning *)

Receive(type) ==
    /\ coord = "idle"
    /\ commands # <<>>
    /\ Head(commands).type = type
    /\ commands' = Tail(commands)
    /\ UNCHANGED <<events, resolutions>>

TakePlan ==
    /\ Receive("Plan")
    /\ coord' = "announcing"
    /\ job' = Head(commands).job
    /\ kind' = Head(commands).kind
    /\ UNCHANGED <<busy, cancel, nextJob, mode, plan, report, discoveryVars,
                   copyVars, uiVars, historyVars>>

AnnouncePlanning ==
    /\ coord = "announcing"
    /\ SendEvent(Event("Planning", job, NoConflict))
    /\ coord' = "planning"
    /\ UNCHANGED <<commands, resolutions, busy, cancel, nextJob, job, kind,
                   mode, plan, report, discoveryVars, copyVars, uiVars,
                   historyVars>>

PlanningProgress ==
    /\ coord = "planning"
    /\ TryProgress("Planning")
    /\ UNCHANGED <<commands, resolutions, busy, cancel, nextJob, coordVars,
                   discoveryVars, copyVars, uiVars, historyVars>>

\* The planner returned an error, or the cancel flag was up when it returned.
PlanningFails ==
    /\ coord = "planning"
    /\ coord' = "rejecting"
    /\ UNCHANGED <<channelVars, busy, cancel, nextJob, job, kind, mode, plan,
                   report, discoveryVars, copyVars, uiVars, historyVars>>

PlanningSucceeds ==
    /\ coord = "planning"
    /\ ~cancel
    /\ coord' = "presenting"
    /\ mode' \in ModesOf(kind)
    /\ left' \in IF kind \in {"Rename", "CreateDirectory"} THEN {1}
                 ELSE 1..MaxEntries
    /\ UNCHANGED <<channelVars, busy, cancel, nextJob, job, kind, plan, report,
                   prod, policy, conflict, answer, copyVars, uiVars,
                   historyVars>>

\* Mutant: a failed plan is dropped without a word.
RejectSilently ==
    /\ coord = "rejecting"
    /\ coord' = "releasing"
    /\ UNCHANGED <<channelVars, busy, cancel, nextJob, job, kind, mode, plan,
                   report, discoveryVars, copyVars, uiVars, historyVars>>

RejectPlan ==
    /\ coord = "rejecting"
    /\ SendEvent(Event("Failed", job, NoConflict))
    /\ coord' = "releasing"
    /\ UNCHANGED <<commands, resolutions, busy, cancel, nextJob, job, kind,
                   mode, plan, report, discoveryVars, copyVars, uiVars,
                   historyVars>>

\* PlanReady is sent before the plan is kept; both happen before the next
\* command is received.
PresentPlan ==
    /\ coord = "presenting"
    /\ SendEvent(Event("PlanReady", job, NoConflict))
    /\ coord' = "idle"
    /\ plan' = [job |-> job, kind |-> kind, mode |-> mode, entries |-> left]
    /\ left' = 0
    /\ kind' = "none" /\ mode' = "none"
    /\ UNCHANGED <<commands, resolutions, busy, cancel, nextJob, job,
                   report, prod, policy, conflict, answer, copyVars, uiVars,
                   historyVars>>

\* Mutant: the store is missing.
KeepBusy ==
    /\ coord = "releasing"
    /\ coord' = "idle"
    /\ UNCHANGED <<channelVars, busy, cancel, nextJob, job, kind, mode, plan,
                   report, discoveryVars, copyVars, uiVars, historyVars>>

\* busy.store(false), after the closing event of the job was sent.
ReleaseBusy ==
    /\ coord = "releasing"
    /\ coord' = "idle"
    /\ busy' = FALSE
    /\ UNCHANGED <<channelVars, cancel, nextJob, job, kind, mode, plan, report,
                   discoveryVars, copyVars, uiVars, historyVars>>

\* `pending.take().filter(job matches)`: a foreign approval drops the plan.
TakeApprove ==
    /\ Receive("Approve")
    /\ plan' = NoPlan
    /\ IF plan.job # Head(commands).job
       THEN UNCHANGED <<coord, job, kind, mode, discoveryVars, copyVars>>
       ELSE /\ coord' = "running"
            /\ job' = plan.job
            /\ kind' = plan.kind
            /\ mode' = plan.mode
            /\ prod' = "start"
            /\ left' = plan.entries
            /\ UNCHANGED <<policy, conflict, answer, copyVars>>
    /\ UNCHANGED <<busy, cancel, nextJob, report, uiVars, historyVars>>

TakeAbandon ==
    /\ Receive("Abandon")
    /\ IF plan.job = Head(commands).job
       THEN plan' = NoPlan /\ busy' = FALSE
       ELSE UNCHANGED <<plan, busy>>
    /\ UNCHANGED <<cancel, nextJob, coord, job, kind, mode, report,
                   discoveryVars, copyVars, uiVars, historyVars>>

----------------------------------------------------------------------------
(* The executor, producer side: execute_transfer and StreamingTransfer *)

Interrupted == cancel \/ stopped

\* Everything a producer step leaves alone.
ProducerFrame ==
    UNCHANGED <<commands, busy, cancel, nextJob, coordVars, uiVars,
                approved, told>>

\* Working through a list begins with a progress report; a transfer with its
\* walk, for a move after opening the journal, without which the job fails.
BeginExecution ==
    /\ prod = "start"
    /\ \/ /\ mode = "items"
          /\ prod' = "items"
          /\ TryProgress("Progress")
          /\ UNCHANGED failed
       \/ /\ mode # "items"
          /\ prod' = "visit"
          /\ UNCHANGED <<events, failed>>
       \/ /\ mode = "move"
          /\ prod' = "finished" /\ failed' = TRUE
          /\ UNCHANGED events
    /\ UNCHANGED <<resolutions, left, policy, conflict, answer, inflight,
                   stopped, done, changed>>
    /\ ProducerFrame

\* visit returned an error: unless the job was interrupted anyway, it is
\* recorded and stops the job.
Abort ==
    /\ prod' = "closing"
    /\ IF Interrupted
       THEN UNCHANGED <<stopped, failed>>
       ELSE stopped' = TRUE /\ failed' = TRUE

CloseQueue ==
    /\ \/ prod = "closing"
       \/ prod = "visit" /\ (left = 0 \/ Interrupted)
    /\ prod' = "closed"
    /\ TryProgress("Progress")
    /\ UNCHANGED <<resolutions, left, policy, conflict, answer, copyVars,
                   changed>>
    /\ ProducerFrame

\* The next entry is a directory: its target exists, or is created.
VisitDirectory ==
    /\ prod = "visit" /\ left > 0 /\ ~Interrupted
    /\ left' = left - 1
    /\ changed' \in {changed, changed \cup {job}}
    /\ UNCHANGED <<events, resolutions, prod, policy, conflict, answer,
                   copyVars>>
    /\ ProducerFrame

\* The next entry is a file with a free target name.
VisitFile ==
    /\ prod = "visit" /\ left > 0 /\ ~Interrupted
    /\ prod' = "enqueue"
    /\ TryProgress("Progress")
    /\ UNCHANGED <<resolutions, left, policy, conflict, answer, copyVars,
                   changed>>
    /\ ProducerFrame

\* The next entry is a file whose target is identical to it.
VisitIdentical ==
    /\ prod = "visit" /\ left > 0 /\ ~Interrupted
    /\ left' = left - 1
    /\ done' = TRUE
    /\ TryProgress("Progress")
    /\ UNCHANGED <<resolutions, prod, policy, conflict, answer, inflight,
                   stopped, failed, changed>>
    /\ ProducerFrame

\* The next entry collides: an Apply-to-all policy answers at once.  Only a
\* file is reported before its target is looked at.
VisitCollision ==
    /\ prod = "visit" /\ left > 0 /\ ~Interrupted
    /\ \E k \in ConflictKinds, dated \in BOOLEAN :
          LET c == [job |-> job, item |-> left, kind |-> k, dated |-> dated]
          IN  /\ conflict' = c
              /\ IF policy[k] = Ask
                 THEN prod' = "offer" /\ UNCHANGED answer
                 ELSE /\ prod' = "decided"
                      /\ answer' = [action |-> policy[k], shown |-> c]
    /\ TryProgress("Progress") \/ UNCHANGED events
    /\ UNCHANGED <<resolutions, left, policy, copyVars, changed>>
    /\ ProducerFrame

\* An entry that cannot be inspected, enumerated or created ends discovery,
\* and so does a file whose target an earlier source has reserved.
VisitFails ==
    /\ prod = "visit" /\ left > 0 /\ ~Interrupted
    /\ Abort
    /\ TryProgress("Progress") \/ UNCHANGED events
    /\ UNCHANGED <<resolutions, left, policy, conflict, answer, inflight,
                   done, changed>>
    /\ ProducerFrame

\* A copy waits for a slot, as long as the job is not interrupted.
Enqueue ==
    /\ prod = "enqueue"
    /\ \/ /\ inflight < QueueCapacity
          /\ inflight' = inflight + 1
          /\ left' = left - 1
          /\ prod' = "visit"
          /\ UNCHANGED <<stopped, failed>>
       \/ Interrupted /\ Abort /\ UNCHANGED <<inflight, left>>
    /\ UNCHANGED <<events, resolutions, policy, conflict, answer, done,
                   changed>>
    /\ ProducerFrame

OfferConflict ==
    /\ prod = "offer"
    /\ SendEvent(Event("Conflict", job, conflict))
    /\ prod' = "await"
    /\ UNCHANGED <<resolutions, left, policy, conflict, answer, copyVars,
                   changed>>
    /\ ProducerFrame

\* Mutant: the wait looks at the workers' flag instead.
GivesUpWhenStopped == stopped
\* The wait for a decision looks at the cancel flag only.
GivesUp == cancel

\* The flag is read before each wait of 100 ms, not during it.
AwaitDecision ==
    /\ prod = "await"
    /\ prod' = IF GivesUp THEN "closing" ELSE "listen"
    /\ UNCHANGED <<channelVars, left, policy, conflict, answer, copyVars,
                   changed>>
    /\ ProducerFrame

AwaitTimesOut ==
    /\ prod = "listen"
    /\ resolutions = <<>>
    /\ prod' = "await"
    /\ UNCHANGED <<channelVars, left, policy, conflict, answer, copyVars,
                   changed>>
    /\ ProducerFrame

\* Mutant: whatever lies in the channel answers the question.
AnyAddress(r) == TRUE
Addressed(r) == r.job = job

\* A resolution is accepted when it names the running job.
TakeResolution ==
    /\ prod = "listen"
    /\ resolutions # <<>>
    /\ resolutions' = Tail(resolutions)
    /\ LET r == Head(resolutions) IN
          IF ~Addressed(r)
          THEN prod' = "await" /\ UNCHANGED <<policy, answer>>
          ELSE /\ prod' = "decided"
               /\ answer' = [action |-> r.action, shown |-> r.shown]
               /\ policy' = IF r.all
                            THEN [policy EXCEPT ![conflict.kind] = r.action]
                            ELSE policy
    /\ UNCHANGED <<events, left, conflict, copyVars, changed>>
    /\ ProducerFrame

\* Mutant: the policy that decided nothing is kept.
KeepsPolicy == policy
ForgetsPolicy == [policy EXCEPT !["file"] = Ask]

\* Keep newer and Keep older decide nothing without an age relation: the
\* policy is dropped, so that the question is put again.
AskAgain ==
    /\ prod = "decided"
    /\ conflict.kind = "file" /\ answer.action \in ByAge /\ ~conflict.dated
    /\ policy' = ForgetsPolicy
    /\ prod' = IF policy'["file"] = Ask THEN "offer" ELSE "decided"
    /\ UNCHANGED <<channelVars, left, conflict, answer, copyVars, changed>>
    /\ ProducerFrame

\* The source wins, or a keep-both name was allocated: a copy is queued, or
\* a directory created under the new name.
SourceWins ==
    /\ prod = "decided"
    /\ \/ answer.action = "KeepBoth"
       \/ conflict.kind = "file" /\ answer.action = "KeepSource"
       \/ /\ conflict.kind = "file" /\ answer.action \in ByAge
          /\ conflict.dated
    /\ \/ prod' = "enqueue" /\ UNCHANGED <<left, changed>>
       \/ /\ conflict.kind = "type"
          /\ prod' = "visit" /\ left' = left - 1
          /\ changed' = changed \cup {job}
    /\ UNCHANGED <<channelVars, policy, conflict, answer, copyVars>>
    /\ ProducerFrame

\* The destination file is kept, or the source skipped.
DestinationStays ==
    /\ prod = "decided"
    /\ \/ answer.action \in {"KeepDestination", "Skip"}
       \/ /\ conflict.kind = "file" /\ answer.action \in ByAge
          /\ conflict.dated
    /\ prod' = "visit"
    /\ left' = left - 1
    /\ done' = TRUE
    /\ TryProgress("Progress")
    /\ UNCHANGED <<resolutions, policy, conflict, answer, inflight, stopped,
                   failed, changed>>
    /\ ProducerFrame

\* The destination file was to be kept but has vanished: copied after all.
DestinationGone ==
    /\ prod = "decided"
    /\ conflict.kind = "file"
    /\ \/ answer.action = "KeepDestination"
       \/ answer.action \in ByAge /\ conflict.dated
    /\ prod' = "enqueue"
    /\ UNCHANGED <<channelVars, left, policy, conflict, answer, copyVars,
                   changed>>
    /\ ProducerFrame

\* A folder that collides with a file is left out with everything in it.
SubtreeSkipped ==
    /\ prod = "decided"
    /\ conflict.kind = "type"
    /\ answer.action \in {"KeepDestination", "Skip"}
    /\ prod' = "visit"
    /\ left' \in 0..(left - 1)
    /\ UNCHANGED <<channelVars, policy, conflict, answer, copyVars, changed>>
    /\ ProducerFrame

\* A file/folder collision cannot be settled by replacing either side; a
\* fingerprint, a keep-both name or a journal entry may fail, or the target
\* be reserved.
DecisionFails ==
    /\ prod = "decided"
    /\ IF conflict.kind = "type"
       THEN answer.action \notin {"KeepDestination", "Skip"}
       ELSE /\ answer.action \in ByAge => conflict.dated
            /\ answer.action # "Skip"
    /\ Abort
    /\ UNCHANGED <<channelVars, left, policy, conflict, answer, inflight,
                   done, changed>>
    /\ ProducerFrame

\* All workers have been joined: an undisturbed transfer counts as complete
\* and a move goes on to remove its journaled sources.
JoinWorkers ==
    /\ prod = "closed"
    /\ inflight = 0
    /\ IF Interrupted
       THEN prod' = "finished" /\ UNCHANGED <<done, events>>
       ELSE /\ prod' = IF mode = "move" THEN "cleanup" ELSE "finished"
            /\ done' = TRUE
            /\ TryProgress("Progress")
    /\ UNCHANGED <<resolutions, left, policy, conflict, answer, inflight,
                   stopped, failed, changed>>
    /\ ProducerFrame

\* Removing the sources runs to its end or is abandoned half-way, by an
\* error or by a cancellation it notices.
CleanUpSources ==
    /\ prod = "cleanup"
    /\ prod' = "finished"
    /\ changed' \in {changed, changed \cup {job}}
    /\ \/ UNCHANGED <<stopped, failed>>
       \/ stopped' = TRUE /\ failed' = TRUE
    /\ UNCHANGED <<channelVars, left, policy, conflict, answer, inflight,
                   done>>
    /\ ProducerFrame

----------------------------------------------------------------------------
(* The executor: copy workers *)

WorkerFrame ==
    /\ UNCHANGED <<discoveryVars, resolutions>>
    /\ ProducerFrame

WorkerProgress ==
    /\ inflight > 0
    /\ TryProgress("Progress")
    /\ UNCHANGED <<copyVars, changed>>
    /\ WorkerFrame

\* The copy is published; a worker past its last look at the flags publishes
\* even when the job has been stopped meanwhile.
WorkerPublishes ==
    /\ inflight > 0
    /\ inflight' = inflight - 1
    /\ done' = TRUE
    /\ changed' = changed \cup {job}
    /\ TryProgress("Progress")
    /\ UNCHANGED <<stopped, failed>>
    /\ WorkerFrame

\* A copy that fails, or notices the cancellation, stops the job; only a
\* failure that is not the cancellation's doing is reported.  The journal
\* entry of a move may fail after its copy was published.
WorkerFails ==
    /\ inflight > 0
    /\ inflight' = inflight - 1
    /\ stopped' = TRUE
    /\ \/ failed' = (failed \/ ~cancel) /\ UNCHANGED changed
       \/ /\ mode = "move"
          /\ failed' = TRUE /\ changed' = changed \cup {job}
    /\ UNCHANGED <<events, done>>
    /\ WorkerFrame

\* Work still queued when the job is cancelled or stopped is thrown away.
WorkerDiscards ==
    /\ inflight > 0
    /\ Interrupted
    /\ inflight' = inflight - 1
    /\ UNCHANGED <<events, stopped, done, failed, changed>>
    /\ WorkerFrame

----------------------------------------------------------------------------
(* The executor: atomic moves, recycle, permanent delete, rename, create *)

ItemDone ==
    /\ prod = "items" /\ left > 0 /\ ~cancel
    /\ left' = left - 1
    /\ done' = TRUE
    /\ changed' = changed \cup {job}
    /\ TryProgress("Progress")
    /\ UNCHANGED <<resolutions, prod, policy, conflict, answer, inflight,
                   stopped, failed>>
    /\ ProducerFrame

\* The first failure ends the list; the item may be half done.
ItemFails ==
    /\ prod = "items" /\ left > 0 /\ ~cancel
    /\ prod' = "finished"
    /\ failed' = TRUE
    /\ changed' \in {changed, changed \cup {job}}
    /\ UNCHANGED <<channelVars, left, policy, conflict, answer, inflight,
                   stopped, done>>
    /\ ProducerFrame

ItemsEnd ==
    /\ prod = "items"
    /\ left = 0 \/ cancel
    /\ prod' = "finished"
    /\ IF kind = "Move" /\ left = 0
       THEN TryProgress("Progress") ELSE UNCHANGED events
    /\ UNCHANGED <<commands, resolutions, left, policy, conflict, answer,
                   copyVars, changed>>
    /\ ProducerFrame

----------------------------------------------------------------------------
(* The end of an execution *)

\* Mutant: the cancel flag is not looked at again.
OutcomeOfFailures ==
    IF ~failed THEN "Completed" ELSE IF done THEN "Partial" ELSE "Failed"

Outcome ==
    IF ~failed /\ ~cancel THEN "Completed"
    ELSE IF done THEN "Partial"
    ELSE IF cancel THEN "Cancelled" ELSE "Failed"

FinishExecution ==
    /\ prod = "finished"
    /\ prod' = "off"
    /\ coord' = "reporting"
    /\ report' = Outcome
    /\ UNCHANGED <<channelVars, busy, cancel, nextJob, job, kind, mode, plan,
                   left, policy, conflict, answer, copyVars, uiVars,
                   historyVars>>

\* The report is sent; the executor's locals are gone.
ReportJob ==
    /\ coord = "reporting"
    /\ SendEvent(Event("Finished", job, NoConflict))
    /\ coord' = "releasing"
    /\ kind' = "none" /\ mode' = "none" /\ report' = "none"
    /\ left' = 0 /\ inflight' = 0
    /\ policy' = [k \in ConflictKinds |-> Ask]
    /\ conflict' = NoConflict /\ answer' = NoAnswer
    /\ stopped' = FALSE /\ done' = FALSE /\ failed' = FALSE
    /\ UNCHANGED <<commands, resolutions, busy, cancel, nextJob, job, plan,
                   prod, uiVars, historyVars>>

----------------------------------------------------------------------------
(* The UI thread: draining events *)

EngineFrame == UNCHANGED <<coordVars, discoveryVars, copyVars, changed>>

DrainEvent ==
    /\ uiPc = "drain"
    /\ events # <<>>
    /\ events' = Tail(events)
    /\ view' = ViewOf(Head(events))
    /\ told' = IF Head(events).type = "Failed"
               THEN told \cup {Head(events).job} ELSE told
    /\ UNCHANGED <<commands, resolutions, busy, cancel, nextJob, uiPc,
                   overlay, approved>>
    /\ EngineFrame

\* The queue is empty: draw, and poll for one key.
DrainDone ==
    /\ uiPc = "drain"
    /\ events = <<>>
    /\ uiPc' = "key"
    /\ UNCHANGED <<channelVars, busy, cancel, nextJob, view, overlay,
                   approved, told>>
    /\ EngineFrame

----------------------------------------------------------------------------
(* The UI thread: one key.  A panel or a name prompt takes the keys before *)
(* the operation view does; Ctrl+C comes before both.                      *)

Key ==
    /\ uiPc = "key"
    /\ uiPc' = "drain"
    /\ EngineFrame

OperationKey(type) == Key /\ overlay = "none" /\ view.type = type

\* The poll timed out, or the key means nothing here.
NoKey ==
    /\ Key
    /\ UNCHANGED <<channelVars, busy, cancel, nextJob, view, overlay,
                   approved, told>>

\* Mutant: busy is set without comparing.
AlwaysFree == TRUE
\* compare_exchange(false, true) on busy.
EngineFree == ~busy

\* OperationEngine::submit.  A full command channel gives busy back.
Submit(k) ==
    /\ EngineFree
    /\ nextJob <= MaxJobs
    /\ nextJob' = nextJob + 1
    /\ cancel' = FALSE
    /\ busy' = CommandRoom
    /\ IF CommandRoom
       THEN /\ commands' = Append(commands, Command("Plan", nextJob, k))
            /\ view' = View("Planning", nextJob, NoConflict, FALSE)
       ELSE UNCHANGED <<commands, view>>
    /\ UNCHANGED <<events, resolutions, approved, told>>

\* A copy, move or delete key while no operation is shown.
KeySubmit ==
    /\ OperationKey("Idle")
    /\ \E k \in Kinds \ {"Rename", "CreateDirectory"} : Submit(k)
    /\ UNCHANGED overlay

\* Rename, new folder: a name prompt; preview, favorites: a panel.
KeyOpenOverlay ==
    /\ OperationKey("Idle")
    /\ overlay' \in {"prompt", "panel"}
    /\ UNCHANGED <<channelVars, busy, cancel, nextJob, view, approved, told>>

KeyCloseOverlay ==
    /\ Key
    /\ overlay # "none"
    /\ overlay' = "none"
    /\ UNCHANGED <<channelVars, busy, cancel, nextJob, view, approved, told>>

\* Enter in the name prompt submits whatever the view behind it shows.
KeySubmitName ==
    /\ Key
    /\ overlay = "prompt"
    /\ \E k \in Kinds \cap {"Rename", "CreateDirectory"} : Submit(k)
    /\ overlay' = IF CommandRoom THEN "none" ELSE overlay

RequestCancel ==
    /\ cancel' = TRUE
    /\ UNCHANGED <<channelVars, busy, nextJob, approved, told>>

\* Esc while planning; X, C or Esc while running; X or Esc at a conflict.
KeyCancel ==
    /\ \E type \in {"Planning", "Running", "Conflict"} : OperationKey(type)
    /\ RequestCancel
    /\ UNCHANGED <<view, overlay>>

\* Enter, or Y for a permanent deletion.  The view stays in review.
KeyApprove ==
    /\ OperationKey("Review")
    /\ CommandRoom
    /\ commands' = Append(commands, Command("Approve", view.job, "none"))
    /\ approved' = approved \cup {view.job}
    /\ UNCHANGED <<events, resolutions, busy, cancel, nextJob, view, overlay,
                   told>>

\* Mutant: the commands are mixed up.
ApproveInstead(j) == Command("Approve", j, "none")
AbandonCommand(j) == Command("Abandon", j, "none")

\* Esc, or N for a permanent deletion: "Operation cancelled; no files
\* changed" as soon as the command is in the channel.
KeyAbandon ==
    /\ OperationKey("Review")
    /\ CommandRoom
    /\ commands' = Append(commands, AbandonCommand(view.job))
    /\ view' = IdleView
    /\ told' = told \cup {view.job}
    /\ UNCHANGED <<events, resolutions, busy, cancel, nextJob, overlay,
                   approved>>

KeyToggleAll ==
    /\ OperationKey("Conflict")
    /\ view' = [view EXCEPT !.all = ~@]
    /\ UNCHANGED <<channelVars, busy, cancel, nextJob, overlay, approved,
                   told>>

\* 1..6 at a conflict.  The prompt stays on screen after the choice was sent.
KeyResolve ==
    /\ OperationKey("Conflict")
    /\ resolutions = <<>>
    /\ \E a \in Choices :
          /\ view.conflict.kind = "type" => a \in TypeActions
          /\ resolutions' = <<[job |-> view.conflict.job, action |-> a,
                               all |-> view.all, shown |-> view.conflict]>>
    /\ UNCHANGED <<commands, events, busy, cancel, nextJob, view, overlay,
                   approved, told>>

KeyDismiss ==
    /\ \E type \in {"Finished", "Error"} : OperationKey(type)
    /\ view' = IdleView
    /\ UNCHANGED <<channelVars, busy, cancel, nextJob, overlay, approved,
                   told>>

\* request_quit looks at the engine and at the view.
QuitForbidden == busy \/ ViewBusy

\* Ctrl+C anywhere, Q while no operation is shown.
KeyQuitDenied ==
    /\ Key
    /\ QuitForbidden
    /\ RequestCancel
    /\ UNCHANGED <<view, overlay>>

KeyQuit ==
    /\ uiPc = "key"
    /\ ~QuitForbidden
    /\ uiPc' = "quit"
    /\ UNCHANGED <<channelVars, busy, cancel, nextJob, view, overlay,
                   approved, told>>
    /\ EngineFrame

----------------------------------------------------------------------------
Planner == PlanningFails \/ PlanningSucceeds
Coordinator ==
    \/ TakePlan \/ AnnouncePlanning \/ Planner \/ RejectPlan \/ PresentPlan
    \/ ReleaseBusy \/ TakeApprove \/ TakeAbandon \/ FinishExecution
    \/ ReportJob
Producer ==
    \/ BeginExecution \/ CloseQueue \/ VisitDirectory \/ VisitFile
    \/ VisitIdentical \/ VisitCollision \/ VisitFails \/ Enqueue
    \/ OfferConflict \/ AwaitDecision \/ AwaitTimesOut \/ TakeResolution \/ AskAgain
    \/ SourceWins \/ DestinationStays \/ DestinationGone \/ SubtreeSkipped
    \/ DecisionFails \/ JoinWorkers
    \/ CleanUpSources \/ ItemDone \/ ItemFails \/ ItemsEnd
Workers == WorkerPublishes \/ WorkerFails \/ WorkerDiscards
Drain == DrainEvent \/ DrainDone
HandleKey ==
    \/ NoKey \/ KeySubmit \/ KeyOpenOverlay \/ KeyCloseOverlay
    \/ KeySubmitName \/ KeyCancel \/ KeyApprove \/ KeyAbandon \/ KeyToggleAll
    \/ KeyResolve \/ KeyDismiss \/ KeyQuitDenied \/ KeyQuit

\* The UI has left its loop and the engine has nothing left to do.
Terminated ==
    /\ uiPc = "quit" /\ coord = "idle" /\ commands = <<>>
    /\ UNCHANGED vars

Next ==
    \/ Coordinator \/ PlanningProgress \/ Producer \/ Workers
    \/ WorkerProgress \/ Drain \/ HandleKey \/ Terminated

Spec == Init /\ [][Next]_vars

\* Every thread that can run does.  Progress is only published on the way:
\* a planner and a copy come to their end because trees and files are finite.
Fairness ==
    /\ WF_vars(Coordinator) /\ WF_vars(Producer) /\ WF_vars(Workers)
    /\ WF_vars(Drain) /\ WF_vars(HandleKey)

FairSpec == Spec /\ Fairness

----------------------------------------------------------------------------
(* Properties *)

Views ==
    {IdleView}
    \cup [type: {"Planning", "Review", "Running", "Finished", "Error"},
          job: Jobs, conflict: {NoConflict}, all: {FALSE}]
    \cup [type: {"Conflict"}, job: Jobs, conflict: Conflicts, all: BOOLEAN]
Commands == [type: {"Plan"}, job: Jobs, kind: Kinds]
            \cup [type: {"Approve", "Abandon"}, job: Jobs, kind: {"none"}]
Events == [type: {"Planning", "PlanReady", "Progress", "Finished", "Failed"},
           job: Jobs, conflict: {NoConflict}]
          \cup [type: {"Conflict"}, job: Jobs, conflict: Conflicts]
Resolutions == [job: Jobs, action: Choices, all: BOOLEAN, shown: Conflicts]
Plans == [job: Jobs, kind: Kinds, mode: Modes, entries: 1..MaxEntries]
Answers == [action: Choices \cup {Ask}, shown: Conflicts \cup {NoConflict}]
CoordStates == {"idle", "announcing", "planning", "rejecting", "presenting",
                "running", "reporting", "releasing"}
ProdStates == {"off", "start", "visit", "enqueue", "offer", "await",
               "listen", "decided", "closing", "closed", "cleanup", "items",
               "finished"}

\* Every variable keeps its type, and no channel outgrows its capacity.
TypeOK ==
    /\ commands \in Seq(Commands) /\ Len(commands) <= CommandCapacity
    /\ events \in Seq(Events) /\ Len(events) <= EventCapacity
    /\ resolutions \in Seq(Resolutions) /\ Len(resolutions) <= 1
    /\ busy \in BOOLEAN /\ cancel \in BOOLEAN
    /\ nextJob \in 1..(MaxJobs + 1)
    /\ coord \in CoordStates
    /\ job \in 0..MaxJobs /\ kind \in Kinds \cup {"none"}
    /\ mode \in Modes \cup {"none"}
    /\ plan \in Plans \cup {NoPlan}
    /\ report \in {"none", "Completed", "Partial", "Cancelled", "Failed"}
    /\ prod \in ProdStates
    /\ left \in 0..MaxEntries /\ inflight \in 0..QueueCapacity
    /\ stopped \in BOOLEAN /\ done \in BOOLEAN /\ failed \in BOOLEAN
    /\ policy \in [ConflictKinds -> Choices \cup {Ask}]
    /\ conflict \in Conflicts \cup {NoConflict}
    /\ answer \in Answers
    /\ uiPc \in {"drain", "key", "quit"}
    /\ view \in Views
    /\ overlay \in {"none", "prompt", "panel"}
    /\ approved \subseteq Jobs /\ told \subseteq Jobs
    /\ changed \subseteq Jobs

PlanQueued == \E i \in 1..Len(commands) : commands[i].type = "Plan"
CoordActive == coord # "idle"
PlanHeld == plan # NoPlan

\* The busy flag is up exactly while one party owns the engine's only slot: a
\* Plan command under way, the coordinator at work, or a plan waiting for the
\* user.  A flag without an owner would refuse every operation for the rest
\* of the session; an owner without the flag would admit a second job.
BusyHasOneOwner ==
    /\ busy <=> (PlanQueued \/ CoordActive \/ PlanHeld)
    /\ ~(PlanQueued /\ CoordActive)
    /\ ~(PlanQueued /\ PlanHeld)
    /\ ~(CoordActive /\ PlanHeld)

\* "No operation executes before explicit plan approval": what runs, and what
\* has changed the file system, was approved in its own review.
OnlyApprovedJobsRun ==
    /\ coord = "running" => job \in approved
    /\ changed \subseteq approved

\* The program never leaves its loop while the engine holds, plans or runs a
\* job, whatever the view on screen says.
QuitLeavesNothingRunning ==
    uiPc = "quit" => ~(PlanQueued \/ CoordActive \/ PlanHeld)

\* A job reported as Completed went through its whole scope: nothing failed,
\* was cut short or left in the queue.
CompletedMeansEverything ==
    coord = "reporting" /\ report = "Completed" =>
        /\ left = 0 /\ inflight = 0
        /\ ~stopped /\ ~failed

\* Once the event queue is empty and the engine is at rest, the screen tells
\* the truth: no phantom activity, and a review only of the plan on hold.
AtRest == coord = "idle" /\ commands = <<>> /\ events = <<>> /\ uiPc = "key"
ScreenAgreesAtRest ==
    AtRest => /\ view.type \notin {"Planning", "Running", "Conflict"}
              /\ view.type = "Review" <=> PlanHeld
              /\ PlanHeld => view.job = plan.job

\* A cancellation requested during an execution is never forgotten by it, not
\* even when the user tries to submit something else meanwhile.
CancelIsRemembered ==
    [][coord = "running" /\ cancel => cancel']_vars

\* README: "colliding files pause discovery for a six-choice conflict
\* decision while already queued work continues".  While discovery waits and
\* its question has reached the screen loop, the question is on screen.  The
\* code does not guarantee it: a copy worker's progress takes its place.
QuestionReached ==
    /\ prod \in {"await", "listen"} /\ resolutions = <<>> /\ ~cancel
    /\ uiPc = "key" /\ events = <<>>
QuestionStaysOnScreen ==
    QuestionReached => view.type = "Conflict" /\ view.conflict = conflict

\* ARCHITECTURE: "Existing destinations are not overwritten without an
\* explicit conflict choice (or a matching Apply-to-all policy)".  A decision
\* was made at the prompt of the very collision it is applied to.
ChoiceWasMadeForThisConflict ==
    prod = "decided" => answer.shown = conflict

\* A choice left over in the channel when its job ended never answers a
\* question of a later job.
NoAnswerCrossesJobs ==
    prod = "decided" => answer.shown.job = job

\* README on Esc in review: "Cancel without changing files"; the notice says
\* "Operation cancelled; no files changed".  A job the user was told changed
\* nothing has changed nothing, and never will.  The code does not guarantee
\* it: the review stays on screen after it was approved.
ToldUnchangedIsUnchanged == told \cap changed = {}

\* Planning always comes to an end on screen: a review, or an error.
PlanningViewEnds ==
    view.type = "Planning" ~> view.type # "Planning"

\* A cancelled execution ends without any further help of the user, also
\* when it is waiting for a conflict decision nobody will make.
CancelledJobEnds ==
    coord = "running" /\ cancel ~> coord # "running"

\* Every execution that ends shows its report, unless the program is left.
ReportReachesTheScreen ==
    coord = "reporting" ~> view.type = "Finished" \/ uiPc = "quit"

\* An execution either ends or stops at a collision to ask: the producer, the
\* workers and the channels never wait for each other in a circle.
ExecutionEndsOrAsks ==
    coord = "running" ~> coord # "running" \/ prod \in {"await", "listen"}

----------------------------------------------------------------------------
(* The abstract specification this one implements *)

Stage ==
    IF ~busy THEN "idle"
    ELSE IF PlanQueued \/ coord \in {"announcing", "planning", "rejecting"}
    THEN "planning"
    ELSE IF PlanHeld \/ coord = "presenting" THEN "review"
    ELSE IF coord \in {"running", "reporting"} THEN "executing"
    ELSE "closing"

Reviewed == INSTANCE ReviewedJobs
    WITH stage <- Stage, current <- nextJob - 1,
         accepted <- (nextJob - 1) \in approved

\* The engine and the screen loop together are one reviewed operation at a
\* time: planned, reviewed, executed when and only when it was approved, and
\* never abandoned once it is.
ImplementsReviewedJobs == Reviewed!Spec
=============================================================================
