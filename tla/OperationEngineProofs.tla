----------------------- MODULE OperationEngineProofs -----------------------
(***************************************************************************)
(* Proofs about the reviewed-operation protocol, for every number of jobs  *)
(* and entries and every capacity of the channels: type correctness, that  *)
(* EngineInvariant is inductive, and the safety properties it implies;     *)
(* then what becomes of a job.                                             *)
(***************************************************************************)
EXTENDS OperationEngineInvariant, TLAPS

----------------------------------------------------------------------------
(* Lemmas about the data *)

LEMMA EventType ==
    ASSUME NEW j \in Jobs
    PROVE  /\ \A t \in {"Planning", "PlanReady", "Progress", "Finished",
                        "Failed"} : Event(t, j, NoConflict) \in Events
           /\ \A c \in Conflicts : Event("Conflict", j, c) \in Events
BY DEF Event, Events

LEMMA ViewType ==
    ASSUME NEW j \in Jobs
    PROVE  /\ \A t \in {"Planning", "Review", "Running", "Finished", "Error"} :
                  View(t, j, NoConflict, FALSE) \in Views
           /\ \A c \in Conflicts, b \in BOOLEAN :
                  View("Conflict", j, c, b) \in Views
BY DEF View, Views

\* What the screen shows for an event is a view.
LEMMA ViewOfType ==
    ASSUME NEW e \in Events
    PROVE  ViewOf(e) \in Views
<1>1. CASE e \in [type: {"Conflict"}, job: Jobs, conflict: Conflicts]
  BY <1>1, ViewType DEF ViewOf, View
<1>2. CASE e \in [type: {"Planning", "PlanReady", "Progress", "Finished",
                         "Failed"}, job: Jobs, conflict: {NoConflict}]
  <2>1. e.job \in Jobs /\ e.conflict = NoConflict
    BY <1>2
  <2>2. CASE e.type = "PlanReady"
    BY <2>1, <2>2, ViewType DEF ViewOf
  <2>3. CASE e.type = "Progress"
    BY <2>1, <2>3, ViewType DEF ViewOf
  <2>4. CASE e.type = "Failed"
    BY <2>1, <2>4, ViewType DEF ViewOf
  <2>5. CASE e.type = "Planning"
    BY <2>1, <2>5, ViewType DEF ViewOf
  <2>6. CASE e.type = "Finished"
    BY <2>1, <2>6, ViewType DEF ViewOf
  <2>7. QED
    BY <1>2, <2>2, <2>3, <2>4, <2>5, <2>6
<1>3. QED
  BY <1>1, <1>2 DEF Events

\* A message taken from the head of a channel has the channel's type, and
\* what remains is a shorter channel.
LEMMA HeadTail ==
    ASSUME NEW S, NEW s \in Seq(S), s # <<>>
    PROVE  /\ Head(s) \in S /\ Tail(s) \in Seq(S)
           /\ Len(Tail(s)) = Len(s) - 1 /\ Len(s) \in Nat \ {0}
  OBVIOUS

LEMMA AppendType ==
    ASSUME NEW S, NEW s \in Seq(S), NEW e \in S
    PROVE  Append(s, e) \in Seq(S) /\ Len(Append(s, e)) = Len(s) + 1
  OBVIOUS

\* Publishing progress keeps the event channel well typed.
LEMMA ProgressType ==
    ASSUME TypeInvariant, coord # "idle",
           NEW t \in {"Planning", "Progress"}, TryProgress(t)
    PROVE  events' \in Seq(Events) /\ Len(events') <= EventCapacity
<1>1. job \in Jobs /\ events \in Seq(Events) /\ Len(events) <= EventCapacity
  BY DEF TypeInvariant, TypeOK, LocalsAgree
<1>2. Event(t, job, NoConflict) \in Events
  BY <1>1, EventType
<1>3. QED
  BY <1>1, <1>2, AppendType, EngineAssumption DEF TryProgress

\* So does sending.
LEMMA SendType ==
    ASSUME TypeInvariant, NEW e \in Events, SendEvent(e)
    PROVE  events' \in Seq(Events) /\ Len(events') <= EventCapacity
<1>1. events \in Seq(Events) /\ Len(events) <= EventCapacity
  BY DEF TypeInvariant, TypeOK
<1>2. QED
  BY <1>1, AppendType, EngineAssumption DEF SendEvent

----------------------------------------------------------------------------
(* Type correctness *)

LEMMA TypeInit == Init => TypeInvariant
<1> SUFFICES ASSUME Init PROVE TypeInvariant
  OBVIOUS
<1>1. /\ busy \in BOOLEAN /\ cancel \in BOOLEAN /\ stopped \in BOOLEAN
      /\ done \in BOOLEAN /\ failed \in BOOLEAN
  BY DEF Init
<1>2. TypeOK
  BY <1>1, EngineAssumption DEF Init, TypeOK, Views, NoAnswer, Answers,
     CoordStates, ProdStates, NoJob
<1>3. LocalsAgree
  BY DEF Init, LocalsAgree, Copying, AtCollision, BeforeReview
<1>4. QED
  BY <1>2, <1>3 DEF TypeInvariant

LEMMA TypeCoordinator ==
    TypeInvariant /\ (Coordinator \/ PlanningProgress) => TypeInvariant'
<1> SUFFICES ASSUME TypeInvariant, Coordinator \/ PlanningProgress
             PROVE  TypeInvariant'
  OBVIOUS
<1> USE EngineAssumption DEF TypeInvariant, TypeOK, LocalsAgree, channelVars,
        coordVars, discoveryVars, copyVars, uiVars, historyVars, BeforeReview,
        CoordStates, ProdStates, Copying, AtCollision, NoJob
<1>1. CASE TakePlan
  <2>1. Head(commands) \in Commands /\ Tail(commands) \in Seq(Commands)
        /\ Len(Tail(commands)) <= CommandCapacity
    BY <1>1, HeadTail DEF TakePlan, Receive
  <2>2. Head(commands).job \in Jobs /\ Head(commands).kind \in Kinds
    BY <1>1, <2>1 DEF TakePlan, Receive, Commands
  <2>3. QED
    BY <1>1, <2>1, <2>2 DEF TakePlan, Receive, Jobs
<1>2. CASE AnnouncePlanning
  <2>1. events' \in Seq(Events) /\ Len(events') <= EventCapacity
    BY <1>2, EventType, SendType DEF AnnouncePlanning
  <2>2. QED
    BY <1>2, <2>1 DEF AnnouncePlanning
<1>3. CASE PlanningProgress
  <2>1. events' \in Seq(Events) /\ Len(events') <= EventCapacity
    BY <1>3, ProgressType DEF PlanningProgress
  <2>2. QED
    BY <1>3, <2>1 DEF PlanningProgress
<1>4. CASE PlanningFails
  BY <1>4 DEF PlanningFails
<1>5. CASE PlanningSucceeds
  <2>1. mode' \in Modes
    BY <1>5 DEF PlanningSucceeds, ModesOf, Modes
  <2>2. left' \in 1..MaxEntries
    BY <1>5 DEF PlanningSucceeds
  <2>3. QED
    BY <1>5, <2>1, <2>2 DEF PlanningSucceeds
<1>6. CASE RejectPlan
  <2>1. events' \in Seq(Events) /\ Len(events') <= EventCapacity
    BY <1>6, EventType, SendType DEF RejectPlan
  <2>2. QED
    BY <1>6, <2>1 DEF RejectPlan
<1>7. CASE PresentPlan
  <2>1. events' \in Seq(Events) /\ Len(events') <= EventCapacity
    BY <1>7, EventType, SendType DEF PresentPlan
  <2>2. plan' \in Plans
    BY <1>7 DEF PresentPlan, Plans
  <2>3. QED
    BY <1>7, <2>1, <2>2 DEF PresentPlan
<1>8. CASE ReleaseBusy
  <2>1. busy' \in BOOLEAN
    BY <1>8 DEF ReleaseBusy
  <2>2. QED
    BY <1>8, <2>1 DEF ReleaseBusy
<1>9. CASE TakeApprove
  <2>1. Head(commands) \in Commands /\ Tail(commands) \in Seq(Commands)
        /\ Len(Tail(commands)) <= CommandCapacity
    BY <1>9, HeadTail DEF TakeApprove, Receive
  <2>2. CASE plan.job # Head(commands).job
    BY <1>9, <2>1, <2>2 DEF TakeApprove, Receive
  <2>3. CASE plan.job = Head(commands).job
    <3>1. plan \in Plans
      BY <2>1, <2>3 DEF Commands, NoPlan, Jobs
    <3>2. /\ plan.job \in Jobs /\ plan.kind \in Kinds /\ plan.mode \in Modes
          /\ plan.entries \in 1..MaxEntries
      BY <3>1 DEF Plans
    <3>3. QED
      BY <1>9, <2>1, <2>3, <3>2 DEF TakeApprove, Receive, Jobs
  <2>4. QED
    BY <2>2, <2>3
<1>10. CASE TakeAbandon
  <2>1. Tail(commands) \in Seq(Commands)
        /\ Len(Tail(commands)) <= CommandCapacity
    BY <1>10, HeadTail DEF TakeAbandon, Receive
  <2>2. busy' \in BOOLEAN
    BY <1>10 DEF TakeAbandon
  <2>3. QED
    BY <1>10, <2>1, <2>2 DEF TakeAbandon, Receive
<1>11. CASE FinishExecution
  BY <1>11 DEF FinishExecution, Outcome
<1>12. CASE ReportJob
  <2>1. events' \in Seq(Events) /\ Len(events') <= EventCapacity
    BY <1>12, EventType, SendType DEF ReportJob
  <2>2. /\ stopped' \in BOOLEAN /\ done' \in BOOLEAN /\ failed' \in BOOLEAN
    BY <1>12 DEF ReportJob
  <2>3. QED
    BY <1>12, <2>1, <2>2 DEF ReportJob, NoAnswer, Answers
<1>13. QED
  BY <1>1, <1>2, <1>3, <1>4, <1>5, <1>6, <1>7, <1>8, <1>9, <1>10, <1>11,
     <1>12 DEF Coordinator, Planner

\* Nothing the producer leaves alone loses its type.
LEMMA TypeProducer ==
    TypeInvariant /\ Producer => TypeInvariant'
<1> SUFFICES ASSUME TypeInvariant, Producer
             PROVE  TypeInvariant'
  OBVIOUS
<1> USE EngineAssumption DEF TypeInvariant, TypeOK, LocalsAgree, channelVars,
        coordVars, discoveryVars, copyVars, uiVars, historyVars, BeforeReview,
        CoordStates, ProdStates, Copying, AtCollision, NoJob, ProducerFrame
<1>1. CASE BeginExecution
  <2>1. events' \in Seq(Events) /\ Len(events') <= EventCapacity
    BY <1>1, ProgressType DEF BeginExecution
  <2>2. failed' \in BOOLEAN
    BY <1>1 DEF BeginExecution
  <2>3. QED
    BY <1>1, <2>1, <2>2 DEF BeginExecution
<1>2. CASE CloseQueue
  <2>1. events' \in Seq(Events) /\ Len(events') <= EventCapacity
    BY <1>2, ProgressType DEF CloseQueue
  <2>2. QED
    BY <1>2, <2>1 DEF CloseQueue
<1>3. CASE VisitDirectory
  <2>1. job \in Jobs /\ changed' \subseteq Jobs
    BY <1>3 DEF VisitDirectory
  <2>2. QED
    BY <1>3, <2>1 DEF VisitDirectory
<1>4. CASE VisitFile
  <2>1. events' \in Seq(Events) /\ Len(events') <= EventCapacity
    BY <1>4, ProgressType DEF VisitFile
  <2>2. QED
    BY <1>4, <2>1 DEF VisitFile
<1>5. CASE VisitIdentical
  <2>1. events' \in Seq(Events) /\ Len(events') <= EventCapacity
    BY <1>5, ProgressType DEF VisitIdentical
  <2>2. done' \in BOOLEAN
    BY <1>5 DEF VisitIdentical
  <2>3. QED
    BY <1>5, <2>1, <2>2 DEF VisitIdentical
<1>6. CASE VisitCollision
  <2>1. PICK k \in ConflictKinds, dated \in BOOLEAN :
          LET c == [job |-> job, item |-> left, kind |-> k, dated |-> dated]
          IN  /\ conflict' = c
              /\ IF policy[k] = Ask
                 THEN prod' = "offer" /\ UNCHANGED answer
                 ELSE /\ prod' = "decided"
                      /\ answer' = [action |-> policy[k], shown |-> c]
    BY <1>6 DEF VisitCollision
  <2>2. conflict' \in Conflicts
    BY <1>6, <2>1 DEF VisitCollision, Conflicts
  <2>3. answer' \in Answers
    BY <2>1, <2>2 DEF Answers
  <2>4. events' \in Seq(Events) /\ Len(events') <= EventCapacity
    BY <1>6, ProgressType DEF VisitCollision
  <2>5. QED
    BY <1>6, <2>1, <2>2, <2>3, <2>4 DEF VisitCollision
<1>7. CASE VisitFails
  <2>1. stopped' \in BOOLEAN /\ failed' \in BOOLEAN
    BY <1>7 DEF VisitFails, Abort
  <2>2. events' \in Seq(Events) /\ Len(events') <= EventCapacity
    BY <1>7, ProgressType DEF VisitFails
  <2>3. QED
    BY <1>7, <2>1, <2>2 DEF VisitFails, Abort
<1>8. CASE Enqueue
  <2>1. stopped' \in BOOLEAN /\ failed' \in BOOLEAN
    BY <1>8 DEF Enqueue, Abort
  <2>2. QED
    BY <1>8, <2>1 DEF Enqueue, Abort
<1>9. CASE OfferConflict
  <2>1. events' \in Seq(Events) /\ Len(events') <= EventCapacity
    BY <1>9, EventType, SendType DEF OfferConflict
  <2>2. QED
    BY <1>9, <2>1 DEF OfferConflict
<1>10. CASE AwaitDecision
  BY <1>10 DEF AwaitDecision, GivesUp
<1>11. CASE AwaitTimesOut
  BY <1>11 DEF AwaitTimesOut
<1>12. CASE TakeResolution
  <2>1. /\ Head(resolutions) \in Resolutions
        /\ resolutions' \in Seq(Resolutions) /\ Len(resolutions') <= 1
    BY <1>12, HeadTail DEF TakeResolution
  <2>2. /\ answer' \in Answers
        /\ policy' \in [ConflictKinds -> Choices \cup {Ask}]
    BY <1>12, <2>1 DEF TakeResolution, Resolutions, Answers, Conflicts
  <2>3. QED
    BY <1>12, <2>1, <2>2 DEF TakeResolution
<1>13. CASE AskAgain
  <2>1. policy' \in [ConflictKinds -> Choices \cup {Ask}]
    BY <1>13 DEF AskAgain, ForgetsPolicy
  <2>2. QED
    BY <1>13, <2>1 DEF AskAgain
<1>14. CASE SourceWins
  <2>1. job \in Jobs /\ changed' \subseteq Jobs
    BY <1>14 DEF SourceWins
  <2>2. QED
    BY <1>14, <2>1 DEF SourceWins
<1>15. CASE DestinationStays
  <2>1. events' \in Seq(Events) /\ Len(events') <= EventCapacity
    BY <1>15, ProgressType DEF DestinationStays
  <2>2. done' \in BOOLEAN
    BY <1>15 DEF DestinationStays
  <2>3. QED
    BY <1>15, <2>1, <2>2 DEF DestinationStays
<1>16. CASE DestinationGone
  BY <1>16 DEF DestinationGone
<1>17. CASE SubtreeSkipped
  BY <1>17 DEF SubtreeSkipped
<1>18. CASE DecisionFails
  <2>1. stopped' \in BOOLEAN /\ failed' \in BOOLEAN
    BY <1>18 DEF DecisionFails, Abort
  <2>2. QED
    BY <1>18, <2>1 DEF DecisionFails, Abort
<1>19. CASE JoinWorkers
  <2>1. events' \in Seq(Events) /\ Len(events') <= EventCapacity
    BY <1>19, ProgressType DEF JoinWorkers
  <2>2. done' \in BOOLEAN
    BY <1>19 DEF JoinWorkers
  <2>3. QED
    BY <1>19, <2>1, <2>2 DEF JoinWorkers
<1>20. CASE CleanUpSources
  <2>1. stopped' \in BOOLEAN /\ failed' \in BOOLEAN
    BY <1>20 DEF CleanUpSources
  <2>2. job \in Jobs /\ changed' \subseteq Jobs
    BY <1>20 DEF CleanUpSources
  <2>3. QED
    BY <1>20, <2>1, <2>2 DEF CleanUpSources
<1>21. CASE ItemDone
  <2>1. events' \in Seq(Events) /\ Len(events') <= EventCapacity
    BY <1>21, ProgressType DEF ItemDone
  <2>2. done' \in BOOLEAN
    BY <1>21 DEF ItemDone
  <2>3. job \in Jobs /\ changed' \subseteq Jobs
    BY <1>21 DEF ItemDone
  <2>4. QED
    BY <1>21, <2>1, <2>2, <2>3 DEF ItemDone
<1>22. CASE ItemFails
  <2>1. failed' \in BOOLEAN
    BY <1>22 DEF ItemFails
  <2>2. job \in Jobs /\ changed' \subseteq Jobs
    BY <1>22 DEF ItemFails
  <2>3. QED
    BY <1>22, <2>1, <2>2 DEF ItemFails
<1>23. CASE ItemsEnd
  <2>1. events' \in Seq(Events) /\ Len(events') <= EventCapacity
    BY <1>23, ProgressType DEF ItemsEnd
  <2>2. QED
    BY <1>23, <2>1 DEF ItemsEnd
<1>24. QED
  BY <1>1, <1>2, <1>3, <1>4, <1>5, <1>6, <1>7, <1>8, <1>9, <1>10,
     <1>11, <1>12, <1>13, <1>14, <1>15, <1>16, <1>17, <1>18, <1>19,
     <1>20, <1>21, <1>22, <1>23 DEF Producer

\* Workers only touch the counters, the history and the event channel.
LEMMA TypeWorkers ==
    TypeInvariant /\ (Workers \/ WorkerProgress) => TypeInvariant'
<1> SUFFICES ASSUME TypeInvariant, Workers \/ WorkerProgress
             PROVE  TypeInvariant'
  OBVIOUS
<1> USE EngineAssumption DEF TypeInvariant, TypeOK, LocalsAgree, channelVars,
        coordVars, discoveryVars, copyVars, uiVars, historyVars, BeforeReview,
        CoordStates, ProdStates, Copying, AtCollision, NoJob, ProducerFrame,
        WorkerFrame
<1>0. inflight > 0 => coord = "running" /\ job \in Jobs
  OBVIOUS
<1>1. CASE WorkerProgress
  <2>1. events' \in Seq(Events) /\ Len(events') <= EventCapacity
    BY <1>0, <1>1, ProgressType DEF WorkerProgress
  <2>2. QED
    BY <1>1, <2>1 DEF WorkerProgress
<1>2. CASE WorkerPublishes
  <2>1. events' \in Seq(Events) /\ Len(events') <= EventCapacity
    BY <1>0, <1>2, ProgressType DEF WorkerPublishes
  <2>2. done' \in BOOLEAN
    BY <1>2 DEF WorkerPublishes
  <2>3. changed' \subseteq Jobs
    BY <1>0, <1>2 DEF WorkerPublishes
  <2>4. QED
    BY <1>2, <2>1, <2>2, <2>3 DEF WorkerPublishes
<1>3. CASE WorkerFails
  <2>1. stopped' \in BOOLEAN /\ failed' \in BOOLEAN
    BY <1>3 DEF WorkerFails
  <2>2. changed' \subseteq Jobs
    BY <1>0, <1>3 DEF WorkerFails
  <2>3. QED
    BY <1>3, <2>1, <2>2 DEF WorkerFails
<1>4. CASE WorkerDiscards
  BY <1>4 DEF WorkerDiscards
<1>5. QED
  BY <1>1, <1>2, <1>3, <1>4 DEF Workers

\* A submission puts at most one Plan command into the channel.
LEMMA SubmitType ==
    ASSUME TypeInvariant, NEW k \in Kinds, Submit(k)
    PROVE  /\ commands' \in Seq(Commands) /\ Len(commands') <= CommandCapacity
           /\ view' \in Views /\ busy' \in BOOLEAN /\ cancel' \in BOOLEAN
           /\ nextJob' \in 1..(MaxJobs + 1)
<1>1. /\ nextJob <= MaxJobs /\ nextJob' = nextJob + 1
      /\ cancel' = FALSE /\ busy' = CommandRoom
  BY Zenon DEF Submit
<1>2. \/ CommandRoom /\ commands' = Append(commands, Command("Plan", nextJob, k))
         /\ view' = View("Planning", nextJob, NoConflict, FALSE)
      \/ commands' = commands /\ view' = view
  BY Zenon DEF Submit
<1>3. nextJob \in Jobs
  BY <1>1, EngineAssumption DEF TypeInvariant, TypeOK, Jobs
<1>4. nextJob' \in 1..(MaxJobs + 1)
  <2>1. nextJob <= MaxJobs /\ nextJob' = nextJob + 1
    BY <1>1
  <2>2. QED
    BY <2>1, EngineAssumption DEF TypeInvariant, TypeOK
<1>5. commands' \in Seq(Commands) /\ Len(commands') <= CommandCapacity
  <2>1. Command("Plan", nextJob, k) \in Commands
    BY <1>3 DEF Command, Commands
  <2>2. commands \in Seq(Commands) /\ Len(commands) <= CommandCapacity
    BY DEF TypeInvariant, TypeOK
  <2>3. CASE commands' = commands
    BY <2>2, <2>3
  <2>4. CASE /\ CommandRoom
             /\ commands' = Append(commands, Command("Plan", nextJob, k))
    BY <2>1, <2>2, <2>4, AppendType, EngineAssumption DEF CommandRoom
  <2>5. QED
    BY <1>2, <2>3, <2>4
<1>6. view' \in Views
  BY <1>2, <1>3, ViewType DEF TypeInvariant, TypeOK
<1>7. CommandRoom \in BOOLEAN
  BY DEF CommandRoom
<1>8. QED
  BY <1>1, <1>4, <1>5, <1>6, <1>7, Zenon

\* A view tells what it is about.
LEMMA ViewParts ==
    ASSUME view \in Views
    PROVE  /\ view.type # "Idle" => view.job \in Jobs
           /\ view.type = "Conflict" => /\ view.conflict \in Conflicts
                                        /\ view.all \in BOOLEAN
<1>1. CASE view = IdleView
  BY <1>1 DEF IdleView, View
<1>2. CASE view \in [type: {"Planning", "Review", "Running", "Finished",
                            "Error"},
                     job: Jobs, conflict: {NoConflict}, all: {FALSE}]
  BY <1>2
<1>3. CASE view \in [type: {"Conflict"}, job: Jobs, conflict: Conflicts,
                     all: BOOLEAN]
  BY <1>3
<1>4. QED
  BY <1>1, <1>2, <1>3 DEF Views

LEMMA TypeScreen ==
    TypeInvariant /\ (Drain \/ HandleKey) => TypeInvariant'
<1> SUFFICES ASSUME TypeInvariant, Drain \/ HandleKey
             PROVE  TypeInvariant'
  OBVIOUS
<1> USE EngineAssumption DEF TypeInvariant, TypeOK, LocalsAgree, channelVars,
        coordVars, discoveryVars, copyVars, uiVars, historyVars, EngineFrame,
        Key, OperationKey
<1>1. CASE DrainEvent
  <2>1. /\ Head(events) \in Events
        /\ events' \in Seq(Events) /\ Len(events') <= EventCapacity
    BY <1>1, HeadTail DEF DrainEvent
  <2>2. view' \in Views
    BY <1>1, <2>1, ViewOfType DEF DrainEvent
  <2>3. told' \subseteq Jobs
    BY <1>1, <2>1 DEF DrainEvent, Events
  <2>4. QED
    BY <1>1, <2>1, <2>2, <2>3 DEF DrainEvent
<1>2. CASE DrainDone
  BY <1>2 DEF DrainDone
<1>3. CASE NoKey
  BY <1>3 DEF NoKey
<1>4. CASE KeySubmit
  <2>1. PICK k \in Kinds : Submit(k)
    BY <1>4, Zenon DEF KeySubmit
  <2>2. /\ UNCHANGED <<events, resolutions, approved, told>>
        /\ UNCHANGED overlay
    BY <1>4, <2>1, Zenon DEF KeySubmit, Submit
  <2>3. EngineFrame /\ uiPc' = "drain"
    BY <1>4, Zenon DEF KeySubmit
  <2>4. QED
    BY <2>1, <2>2, <2>3, SubmitType
<1>5. CASE KeyOpenOverlay
  BY <1>5 DEF KeyOpenOverlay
<1>6. CASE KeyCloseOverlay
  BY <1>6 DEF KeyCloseOverlay
<1>7. CASE KeySubmitName
  <2>1. PICK k \in Kinds : Submit(k)
    BY <1>7, Zenon DEF KeySubmitName
  <2>2. UNCHANGED <<events, resolutions, approved, told>>
    BY <2>1, Zenon DEF Submit
  <2>3. EngineFrame /\ uiPc' = "drain" /\ overlay' \in {"none", overlay}
    BY <1>7, Zenon DEF KeySubmitName
  <2>4. QED
    BY <2>1, <2>2, <2>3, SubmitType
<1>8. CASE KeyCancel
  <2>1. cancel' \in BOOLEAN
    BY <1>8 DEF KeyCancel, RequestCancel
  <2>2. QED
    BY <1>8, <2>1 DEF KeyCancel, RequestCancel
<1>9. CASE KeyApprove
  <2>1. view.job \in Jobs
    BY <1>9, ViewParts DEF KeyApprove
  <2>2. Command("Approve", view.job, "none") \in Commands
    BY <2>1 DEF Command, Commands
  <2>3. commands' \in Seq(Commands) /\ Len(commands') <= CommandCapacity
    BY <1>9, <2>2, AppendType DEF KeyApprove, CommandRoom
  <2>4. QED
    BY <1>9, <2>1, <2>3 DEF KeyApprove
<1>10. CASE KeyAbandon
  <2>1. view.job \in Jobs
    BY <1>10, ViewParts DEF KeyAbandon
  <2>2. AbandonCommand(view.job) \in Commands
    BY <2>1 DEF AbandonCommand, Command, Commands
  <2>3. commands' \in Seq(Commands) /\ Len(commands') <= CommandCapacity
    BY <1>10, <2>2, AppendType DEF KeyAbandon, CommandRoom
  <2>4. view' \in Views
    BY <1>10 DEF KeyAbandon, Views
  <2>5. QED
    BY <1>10, <2>1, <2>3, <2>4 DEF KeyAbandon
<1>11. CASE KeyToggleAll
  <2>1. view \in [type: {"Conflict"}, job: Jobs, conflict: Conflicts,
                  all: BOOLEAN]
    <3>1. view.type = "Conflict"
      BY <1>11, Zenon DEF KeyToggleAll
    <3>2. IdleView.type = "Idle"
      BY DEF IdleView, View
    <3>3. view \in Views
      OBVIOUS
    <3>4. QED
      BY <3>1, <3>2, <3>3 DEF Views
  <2>2. view' \in Views
    <3>1. view' = [view EXCEPT !.all = ~@]
      BY <1>11, Zenon DEF KeyToggleAll
    <3>2. view' \in [type: {"Conflict"}, job: Jobs, conflict: Conflicts,
                     all: BOOLEAN]
      BY <2>1, <3>1
    <3>3. QED
      BY <3>2 DEF Views
  <2>3. QED
    BY <1>11, <2>2 DEF KeyToggleAll
<1>12. CASE KeyResolve
  <2>1. view.conflict \in Conflicts /\ view.all \in BOOLEAN
        /\ view.conflict.job \in Jobs
    BY <1>12, ViewParts DEF KeyResolve, Conflicts
  <2>2. PICK a \in Choices :
          resolutions' = <<[job |-> view.conflict.job, action |-> a,
                            all |-> view.all, shown |-> view.conflict]>>
    BY <1>12 DEF KeyResolve
  <2>3. [job |-> view.conflict.job, action |-> a, all |-> view.all,
         shown |-> view.conflict] \in Resolutions
    BY <2>1 DEF Resolutions
  <2>4. resolutions' \in Seq(Resolutions) /\ Len(resolutions') <= 1
    BY <2>2, <2>3
  <2>5. QED
    BY <1>12, <2>4 DEF KeyResolve
<1>13. CASE KeyDismiss
  <2>1. view' \in Views
    BY <1>13 DEF KeyDismiss, Views
  <2>2. QED
    BY <1>13, <2>1 DEF KeyDismiss
<1>14. CASE KeyQuitDenied
  <2>1. cancel' \in BOOLEAN
    BY <1>14 DEF KeyQuitDenied, RequestCancel
  <2>2. QED
    BY <1>14, <2>1 DEF KeyQuitDenied, RequestCancel
<1>15. CASE KeyQuit
  BY <1>15 DEF KeyQuit
<1>16. QED
  BY <1>1, <1>2, <1>3, <1>4, <1>5, <1>6, <1>7, <1>8, <1>9, <1>10, <1>11,
     <1>12, <1>13, <1>14, <1>15 DEF Drain, HandleKey

LEMMA TypeStutter ==
    TypeInvariant /\ UNCHANGED vars => TypeInvariant'
BY DEF TypeInvariant, TypeOK, LocalsAgree, vars, channelVars, coordVars,
   discoveryVars, copyVars, uiVars, historyVars

LEMMA TypeNext == TypeInvariant /\ [Next]_vars => TypeInvariant'
BY TypeCoordinator, TypeProducer, TypeWorkers, TypeScreen, TypeStutter
   DEF Next, Terminated

\* Every variable keeps its type and no channel outgrows its capacity, for
\* any number of jobs and entries and any capacities.
THEOREM TypeCorrect == Spec => []TypeInvariant
<1>1. QED
  BY TypeInit, TypeNext, PTL DEF Spec

----------------------------------------------------------------------------
(* The protocol.  Steps that leave its variables alone are covered by two   *)
(* lemmas (EngineWorks, ScreenMoves); each handover between user and engine *)
(* has its own.                                                             *)

\* What EngineInvariant says beside the typing.
Protocol ==
    /\ BusyHasOneOwner
    /\ PlanComesLast
    /\ EngineHasTheNewest
    /\ UndecidedBeforeReview
    /\ AnnouncedReview
    /\ ReviewOnScreen
    /\ ApprovalsGiven
    /\ DecisionsReachThePlan
    /\ OnlyApprovedJobsRun
    /\ QuitIsIdle

\* No step of this kind announces a review or takes an event.
QuietEvents ==
    \/ events' = events
    \/ \E e \in Events : e.type # "PlanReady" /\ events' = Append(events, e)

LEMMA QuietReviews ==
    ASSUME events \in Seq(Events), QuietEvents
    PROVE  /\ ReviewUnderWay' => ReviewUnderWay
           /\ \A i \in 1..Len(events') :
                 events'[i].type = "PlanReady" =>
                     i \in 1..Len(events) /\ events'[i] = events[i]
<1>1. CASE events' = events
  BY <1>1 DEF ReviewUnderWay
<1>2. CASE \E e \in Events :
              e.type # "PlanReady" /\ events' = Append(events, e)
  <2>1. PICK e \in Events :
          e.type # "PlanReady" /\ events' = Append(events, e)
    BY <1>2
  <2>2. /\ Len(events') = Len(events) + 1
        /\ \A i \in 1..Len(events) : events'[i] = events[i]
        /\ events'[Len(events) + 1] = e
    BY <2>1
  <2>3. \A i \in 1..Len(events') :
           events'[i].type = "PlanReady" =>
               i \in 1..Len(events) /\ events'[i] = events[i]
    BY <2>1, <2>2
  <2>4. QED
    BY <2>3 DEF ReviewUnderWay
<1>3. QED
  BY <1>1, <1>2 DEF QuietEvents

\* The engine goes on with its job: nothing changes hands.
LEMMA EngineWorks ==
    ASSUME TypeInvariant, Protocol,
           coord # "idle", coord' # "idle",
           coord' \in BeforeReview => coord \in BeforeReview,
           coord' = "running" => coord = "running",
           QuietEvents,
           UNCHANGED <<commands, nextJob, job, plan, view, overlay, approved,
                       uiPc>>,
           busy' = busy,
           \/ changed' = changed
           \/ coord = "running" /\ changed' \subseteq changed \cup {job}
    PROVE  Protocol'
<1> USE DEF Protocol
<1>1. BusyHasOneOwner'
  BY DEF BusyHasOneOwner, PlanQueued, CoordActive, PlanHeld
<1>2. PlanComesLast' /\ ApprovalsGiven'
  BY DEF PlanComesLast, ApprovalsGiven, Newest
<1>3. EngineHasTheNewest'
  BY DEF EngineHasTheNewest, CoordActive, PlanHeld, Newest
<1>4. events \in Seq(Events)
  BY DEF TypeInvariant, TypeOK
<1>5. UndecidedBeforeReview'
  BY <1>4, QuietReviews DEF UndecidedBeforeReview, PlanQueued, Newest
<1>6. AnnouncedReview'
  BY <1>4, QuietReviews DEF AnnouncedReview, PlanHeld, Newest
<1>7. ReviewOnScreen'
  BY DEF ReviewOnScreen, PlanHeld, Queued, Newest
<1>8. DecisionsReachThePlan'
  BY DEF DecisionsReachThePlan, PlanHeld, Newest
<1>9. OnlyApprovedJobsRun'
  BY DEF OnlyApprovedJobsRun
<1>10. QuitIsIdle'
  BY DEF QuitIsIdle
<1>11. QED
  BY <1>1, <1>2, <1>3, <1>5, <1>6, <1>7, <1>8, <1>9, <1>10

\* The screen changes and at most leaves a review.
LEMMA ScreenMoves ==
    ASSUME TypeInvariant, Protocol,
           UNCHANGED <<commands, events, nextJob, coord, job, plan, approved,
                       changed>>,
           busy' = busy,
           view' = view \/ view'.type # "Review",
           overlay' \in {"none", overlay} \/ view'.type # "Review",
           uiPc' = "quit" => ~busy
    PROVE  Protocol'
<1> USE DEF Protocol
<1>1. BusyHasOneOwner'
  BY DEF BusyHasOneOwner, PlanQueued, CoordActive, PlanHeld
<1>2. PlanComesLast' /\ ApprovalsGiven'
  BY DEF PlanComesLast, ApprovalsGiven, Newest
<1>3. EngineHasTheNewest'
  BY DEF EngineHasTheNewest, CoordActive, PlanHeld, Newest
<1>5. UndecidedBeforeReview'
  BY DEF UndecidedBeforeReview, PlanQueued, Newest, ReviewUnderWay
<1>6. AnnouncedReview'
  BY DEF AnnouncedReview, PlanHeld, Newest, ReviewUnderWay
<1>7. ReviewOnScreen'
  BY DEF ReviewOnScreen, PlanHeld, Queued, Newest
<1>8. DecisionsReachThePlan'
  BY DEF DecisionsReachThePlan, PlanHeld, Newest
<1>9. OnlyApprovedJobsRun'
  BY DEF OnlyApprovedJobsRun
<1>10. QuitIsIdle'
  BY DEF QuitIsIdle
<1>11. QED
  BY <1>1, <1>2, <1>3, <1>5, <1>6, <1>7, <1>8, <1>9, <1>10

\* Publishing progress and asking about a collision announce no review.
LEMMA QuietMessages ==
    ASSUME TypeInvariant, coord # "idle"
    PROVE  /\ \A t \in {"Planning", "Progress"} : TryProgress(t) => QuietEvents
           /\ \A t \in {"Planning", "Finished", "Failed"} :
                 SendEvent(Event(t, job, NoConflict)) => QuietEvents
           /\ conflict \in Conflicts /\ SendEvent(Event("Conflict", job, conflict))
                 => QuietEvents
<1>1. job \in Jobs
  BY DEF TypeInvariant, TypeOK, LocalsAgree
<1>2. \A t \in {"Planning", "Progress", "Finished", "Failed"} :
         /\ Event(t, job, NoConflict) \in Events
         /\ Event(t, job, NoConflict).type # "PlanReady"
  BY <1>1, EventType DEF Event
<1>3. conflict \in Conflicts =>
         /\ Event("Conflict", job, conflict) \in Events
         /\ Event("Conflict", job, conflict).type # "PlanReady"
  BY <1>1, EventType DEF Event
<1>4. QED
  BY <1>2, <1>3 DEF TryProgress, SendEvent, QuietEvents

\* The executor neither takes nor gives anything but events, and changes
\* files for its own job only.
ExecutorFrame ==
    /\ UNCHANGED <<commands, nextJob, job, coord, plan, view, overlay,
                   approved, uiPc>>
    /\ busy' = busy

LEMMA ProducerQuiet ==
    ASSUME TypeInvariant, Producer
    PROVE  /\ coord = "running" /\ ExecutorFrame /\ QuietEvents
           /\ changed' \subseteq changed \cup {job}
<1>1. prod # "off" /\ ProducerFrame
  BY DEF Producer,
     BeginExecution, CloseQueue, VisitDirectory, VisitFile, VisitIdentical,
     VisitCollision, VisitFails, Enqueue, OfferConflict, AwaitDecision,
     AwaitTimesOut, TakeResolution, AskAgain, SourceWins, DestinationStays,
     DestinationGone, SubtreeSkipped, DecisionFails, JoinWorkers,
     CleanUpSources, ItemDone, ItemFails, ItemsEnd
<1>2. coord = "running"
  BY <1>1 DEF TypeInvariant, LocalsAgree
<1>3. ExecutorFrame
  BY <1>1 DEF ProducerFrame, ExecutorFrame, coordVars, uiVars
<1>4. changed' \subseteq changed \cup {job}
  BY DEF Producer,
     BeginExecution, CloseQueue, VisitDirectory, VisitFile, VisitIdentical,
     VisitCollision, VisitFails, Enqueue, OfferConflict, AwaitDecision,
     AwaitTimesOut, TakeResolution, AskAgain, SourceWins, DestinationStays,
     DestinationGone, SubtreeSkipped, DecisionFails, JoinWorkers,
     CleanUpSources, ItemDone, ItemFails, ItemsEnd
<1>5. QuietEvents
  <2>1. CASE BeginExecution
    <3>1. TryProgress("Progress") \/ events' = events
      BY <2>1, Zenon DEF BeginExecution, channelVars
    <3>2. QED
      BY <1>2, <3>1, QuietMessages DEF QuietEvents
  <2>2. CASE CloseQueue
    BY <1>2, <2>2, QuietMessages DEF CloseQueue
  <2>3. CASE VisitDirectory
    BY <2>3 DEF VisitDirectory, channelVars, QuietEvents
  <2>4. CASE VisitFile
    BY <1>2, <2>4, QuietMessages DEF VisitFile
  <2>5. CASE VisitIdentical
    BY <1>2, <2>5, QuietMessages DEF VisitIdentical
  <2>6. CASE VisitCollision
    <3>1. TryProgress("Progress") \/ events' = events
      BY <2>6 DEF VisitCollision
    <3>2. QED
      BY <1>2, <3>1, QuietMessages DEF QuietEvents
  <2>7. CASE VisitFails
    <3>1. TryProgress("Progress") \/ events' = events
      BY <2>7 DEF VisitFails
    <3>2. QED
      BY <1>2, <3>1, QuietMessages DEF QuietEvents
  <2>8. CASE Enqueue
    BY <2>8 DEF Enqueue, channelVars, QuietEvents
  <2>9. CASE OfferConflict
    BY <1>2, <2>9, QuietMessages
    DEF OfferConflict, TypeInvariant, LocalsAgree, AtCollision
  <2>10. CASE AwaitDecision
    BY <2>10 DEF AwaitDecision, channelVars, QuietEvents
  <2>11. CASE AwaitTimesOut
    BY <2>11 DEF AwaitTimesOut, channelVars, QuietEvents
  <2>12. CASE TakeResolution
    BY <2>12 DEF TakeResolution, channelVars, QuietEvents
  <2>13. CASE AskAgain
    BY <2>13 DEF AskAgain, channelVars, QuietEvents
  <2>14. CASE SourceWins
    BY <2>14 DEF SourceWins, channelVars, QuietEvents
  <2>15. CASE DestinationStays
    BY <1>2, <2>15, QuietMessages DEF DestinationStays
  <2>16. CASE DestinationGone
    BY <2>16 DEF DestinationGone, channelVars, QuietEvents
  <2>17. CASE SubtreeSkipped
    BY <2>17 DEF SubtreeSkipped, channelVars, QuietEvents
  <2>18. CASE DecisionFails
    BY <2>18 DEF DecisionFails, channelVars, QuietEvents
  <2>19. CASE JoinWorkers
    <3>1. TryProgress("Progress") \/ events' = events
      BY <2>19, Zenon DEF JoinWorkers, channelVars
    <3>2. QED
      BY <1>2, <3>1, QuietMessages DEF QuietEvents
  <2>20. CASE CleanUpSources
    BY <2>20 DEF CleanUpSources, channelVars, QuietEvents
  <2>21. CASE ItemDone
    BY <1>2, <2>21, QuietMessages DEF ItemDone
  <2>22. CASE ItemFails
    BY <2>22 DEF ItemFails, channelVars, QuietEvents
  <2>23. CASE ItemsEnd
    <3>1. TryProgress("Progress") \/ events' = events
      BY <2>23, Zenon DEF ItemsEnd, channelVars
    <3>2. QED
      BY <1>2, <3>1, QuietMessages DEF QuietEvents
  <2>24. QED
    BY <2>1, <2>2, <2>3, <2>4, <2>5, <2>6, <2>7, <2>8, <2>9,
       <2>10, <2>11, <2>12, <2>13, <2>14, <2>15, <2>16, <2>17,
       <2>18, <2>19, <2>20, <2>21, <2>22, <2>23
    DEF Producer
<1>6. QED
  BY <1>2, <1>3, <1>4, <1>5

LEMMA WorkersQuiet ==
    ASSUME TypeInvariant, Workers \/ WorkerProgress
    PROVE  /\ coord = "running" /\ ExecutorFrame /\ QuietEvents
           /\ changed' \subseteq changed \cup {job}
<1> USE DEF Workers, WorkerPublishes, WorkerFails, WorkerDiscards,
        WorkerProgress
<1>1. inflight > 0 /\ ProducerFrame /\ changed' \subseteq changed \cup {job}
  BY DEF WorkerFrame
<1>2. coord = "running"
  BY <1>1 DEF TypeInvariant, LocalsAgree, Copying, AtCollision
<1>3. ExecutorFrame
  BY <1>1 DEF ProducerFrame, ExecutorFrame, coordVars, uiVars
<1>4. QuietEvents
  BY <1>2, QuietMessages DEF QuietEvents
<1>5. QED
  BY <1>1, <1>2, <1>3, <1>4

LEMMA ProtocolExecutor ==
    ASSUME TypeInvariant, Protocol, Producer \/ Workers \/ WorkerProgress
    PROVE  Protocol'
<1>1. /\ coord = "running" /\ ExecutorFrame /\ QuietEvents
      /\ changed' \subseteq changed \cup {job}
  BY ProducerQuiet, WorkersQuiet
<1>2. /\ coord # "idle" /\ coord' # "idle" /\ busy' = busy
      /\ coord' \in BeforeReview => coord \in BeforeReview
      /\ coord' = "running" => coord = "running"
      /\ UNCHANGED <<commands, nextJob, job, plan, view, overlay, approved,
                     uiPc>>
  BY <1>1 DEF ExecutorFrame, BeforeReview
<1>3. QED
  BY <1>1, <1>2, EngineWorks

----------------------------------------------------------------------------
(* The coordinator *)

CoordinatorStays ==
    \/ AnnouncePlanning \/ PlanningProgress \/ Planner \/ RejectPlan
    \/ FinishExecution \/ ReportJob

LEMMA ProtocolCoordinatorStays ==
    ASSUME TypeInvariant, Protocol, CoordinatorStays
    PROVE  Protocol'
<1> USE DEF CoordinatorStays, Planner, AnnouncePlanning, PlanningProgress,
        PlanningFails, PlanningSucceeds, RejectPlan, FinishExecution,
        ReportJob, channelVars, coordVars, uiVars, historyVars
<1>1. coord # "idle" /\ coord' # "idle"
  BY DEF TypeInvariant, LocalsAgree
<1>2. /\ coord' \in BeforeReview => coord \in BeforeReview
      /\ coord' = "running" => coord = "running"
  BY DEF BeforeReview
<1>3. /\ UNCHANGED <<commands, nextJob, job, plan, view, overlay, approved,
                     uiPc, changed>>
      /\ busy' = busy
  OBVIOUS
<1>4. QuietEvents
  BY <1>1, QuietMessages DEF QuietEvents
<1>5. QED
  BY <1>1, <1>2, <1>3, <1>4, EngineWorks

\* What a coordinator step that receives a command sees: the command, and
\* that with it the busy flag is up when it is a Plan.
LEMMA Received ==
    ASSUME TypeInvariant, NEW t \in {"Plan", "Approve", "Abandon"}, Receive(t)
    PROVE  /\ coord = "idle" /\ Len(commands) \in Nat \ {0}
           /\ Head(commands) = commands[1] /\ commands[1].type = t
           /\ commands[1].job \in Jobs
           /\ Len(commands') = Len(commands) - 1
           /\ \A i \in 1..Len(commands') :
                 i + 1 \in 1..Len(commands) /\ commands'[i] = commands[i + 1]
           /\ events' = events
<1>1. commands \in Seq(Commands) /\ commands # <<>>
  BY DEF Receive, TypeInvariant, TypeOK
<1>2. Len(commands) \in Nat \ {0} /\ Head(commands) = commands[1]
  BY <1>1
<1>3. commands[1] \in Commands
  BY <1>1, <1>2
<1>4. commands[1].job \in Jobs
  BY <1>3 DEF Commands
<1>5. QED
  BY <1>1, <1>2, <1>4 DEF Receive

LEMMA ProtocolTakePlan ==
    ASSUME TypeInvariant, Protocol, TakePlan
    PROVE  Protocol'
<1> USE DEF Protocol
<1>1. /\ Len(commands) \in Nat \ {0} /\ commands[1].type = "Plan"
      /\ Head(commands) = commands[1] /\ coord = "idle" /\ events' = events
      /\ Len(commands') = Len(commands) - 1
      /\ \A i \in 1..Len(commands') :
            i + 1 \in 1..Len(commands) /\ commands'[i] = commands[i + 1]
  BY Received DEF TakePlan
<1>2. Len(commands) = 1 /\ commands[1].job = Newest
  BY <1>1 DEF PlanComesLast
<1>3. commands' = <<>>
  BY <1>2 DEF TakePlan, Receive, TypeInvariant, TypeOK
<1>4. /\ coord' = "announcing" /\ job' = Newest
      /\ UNCHANGED <<events, nextJob, plan, view, overlay, approved, changed,
                     uiPc>>
      /\ busy' = busy
  BY <1>1, <1>2 DEF TakePlan, uiVars, historyVars
<1>5. PlanQueued
  BY <1>1 DEF PlanQueued
<1>6. BusyHasOneOwner'
  BY <1>3, <1>4, <1>5 DEF BusyHasOneOwner, PlanQueued, CoordActive, PlanHeld
<1>7. PlanComesLast' /\ ApprovalsGiven' /\ QuitIsIdle'
  BY <1>3, <1>4 DEF PlanComesLast, ApprovalsGiven, Newest, QuitIsIdle
<1>8. EngineHasTheNewest'
  BY <1>4 DEF EngineHasTheNewest, CoordActive, PlanHeld, Newest
<1>9. UndecidedBeforeReview'
  BY <1>3, <1>4, <1>5 DEF UndecidedBeforeReview, PlanQueued, Newest,
     ReviewUnderWay
<1>10. AnnouncedReview'
  BY <1>4, <1>5 DEF AnnouncedReview, UndecidedBeforeReview, Newest,
     ReviewUnderWay
<1>11. ReviewOnScreen'
  BY <1>4, <1>5 DEF ReviewOnScreen, UndecidedBeforeReview
<1>12. DecisionsReachThePlan'
  BY <1>4, <1>5 DEF DecisionsReachThePlan, BusyHasOneOwner, PlanHeld
<1>13. OnlyApprovedJobsRun'
  BY <1>4 DEF OnlyApprovedJobsRun
<1>14. QED
  BY <1>6, <1>7, <1>8, <1>9, <1>10, <1>11, <1>12, <1>13

LEMMA ProtocolPresentPlan ==
    ASSUME TypeInvariant, Protocol, PresentPlan
    PROVE  Protocol'
<1> USE DEF Protocol
<1>1. /\ coord = "presenting" /\ coord' = "idle"
      /\ events' = Append(events, Event("PlanReady", job, NoConflict))
      /\ plan' = [job |-> job, kind |-> kind, mode |-> mode, entries |-> left]
      /\ UNCHANGED <<commands, nextJob, view, overlay, approved, changed,
                     uiPc>>
      /\ busy' = busy
  BY DEF PresentPlan, SendEvent, uiVars, historyVars
<1>2. /\ job = Newest /\ job \in Jobs /\ commands = <<>>
      /\ ~ReviewUnderWay /\ view.type # "Review" /\ Newest \notin approved
  BY <1>1 DEF EngineHasTheNewest, CoordActive, UndecidedBeforeReview,
     BeforeReview, TypeInvariant, LocalsAgree
<1>3. plan'.job = Newest /\ PlanHeld'
  BY <1>1, <1>2 DEF PlanHeld, NoPlan, NoJob, Jobs
<1>4. /\ Len(events') = Len(events) + 1 /\ Len(events) \in Nat
      /\ \A i \in 1..Len(events) :
            events'[i] = events[i] /\ events'[i].type # "PlanReady"
      /\ events'[Len(events) + 1].job = Newest
  BY <1>1, <1>2 DEF Event, TypeInvariant, TypeOK, ReviewUnderWay
<1>5. BusyHasOneOwner'
  BY <1>1, <1>2, <1>3 DEF BusyHasOneOwner, PlanQueued, CoordActive
<1>6. PlanComesLast' /\ ApprovalsGiven' /\ QuitIsIdle'
  BY <1>1, <1>2 DEF PlanComesLast, ApprovalsGiven, Newest, QuitIsIdle
<1>7. EngineHasTheNewest'
  BY <1>1, <1>3 DEF EngineHasTheNewest, CoordActive, Newest
<1>8. UndecidedBeforeReview'
  BY <1>1, <1>2 DEF UndecidedBeforeReview, PlanQueued, BeforeReview
<1>9. AnnouncedReview'
  BY <1>1, <1>2, <1>3, <1>4 DEF AnnouncedReview, Newest
<1>10. ReviewOnScreen'
  BY <1>1, <1>2 DEF ReviewOnScreen
<1>11. DecisionsReachThePlan'
  BY <1>1, <1>2 DEF DecisionsReachThePlan, Newest
<1>12. OnlyApprovedJobsRun'
  BY <1>1 DEF OnlyApprovedJobsRun
<1>13. QED
  BY <1>5, <1>6, <1>7, <1>8, <1>9, <1>10, <1>11, <1>12

LEMMA ProtocolReleaseBusy ==
    ASSUME TypeInvariant, Protocol, ReleaseBusy
    PROVE  Protocol'
<1> USE DEF Protocol
<1>1. /\ coord = "releasing" /\ coord' = "idle"
      /\ UNCHANGED <<commands, events, nextJob, job, plan, view, overlay,
                     approved, changed, uiPc>>
  BY DEF ReleaseBusy, channelVars, uiVars, historyVars
<1>2. ~busy'
  BY DEF ReleaseBusy
<1>3. ~PlanQueued /\ ~PlanHeld
  BY <1>1 DEF BusyHasOneOwner, CoordActive
<1>4. BusyHasOneOwner'
  BY <1>1, <1>2, <1>3 DEF BusyHasOneOwner, PlanQueued, PlanHeld, CoordActive
<1>5. PlanComesLast' /\ ApprovalsGiven' /\ QuitIsIdle'
  BY <1>1, <1>2 DEF PlanComesLast, ApprovalsGiven, Newest, QuitIsIdle
<1>6. EngineHasTheNewest'
  BY <1>1 DEF EngineHasTheNewest, CoordActive, PlanHeld, Newest
<1>7. UndecidedBeforeReview'
  BY <1>1, <1>3 DEF UndecidedBeforeReview, PlanQueued, BeforeReview
<1>8. AnnouncedReview'
  BY <1>1 DEF AnnouncedReview, Newest, ReviewUnderWay, PlanHeld
<1>9. ReviewOnScreen' /\ DecisionsReachThePlan' /\ OnlyApprovedJobsRun'
  BY <1>1 DEF ReviewOnScreen, DecisionsReachThePlan, OnlyApprovedJobsRun,
     PlanHeld, Newest, Queued
<1>10. QED
  BY <1>4, <1>5, <1>6, <1>7, <1>8, <1>9

\* A decision that is received while a plan is on hold is about that plan.
LEMMA DecisionMatches ==
    ASSUME TypeInvariant, Protocol,
           NEW t \in {"Approve", "Abandon"}, Receive(t)
    PROVE  plan.job = Head(commands).job <=> PlanHeld
<1>1. Head(commands) = commands[1] /\ commands[1].job \in Jobs
      /\ Len(commands) \in Nat \ {0}
  BY Received
<1>2. CASE PlanHeld
  BY <1>1, <1>2 DEF Protocol, DecisionsReachThePlan, EngineHasTheNewest
<1>3. CASE ~PlanHeld
  BY <1>1, <1>3 DEF PlanHeld, NoPlan, NoJob, Jobs
<1>4. QED
  BY <1>2, <1>3

\* A decision that finds no plan on hold leaves everything as it was.
LEMMA ProtocolStaleDecision ==
    ASSUME TypeInvariant, Protocol,
           NEW t \in {"Approve", "Abandon"}, Receive(t), ~PlanHeld,
           UNCHANGED <<nextJob, coord, job, view, overlay, approved, changed,
                       uiPc, plan>>,
           busy' = busy
    PROVE  Protocol'
<1> USE DEF Protocol
<1>1. /\ coord = "idle" /\ Len(commands) \in Nat \ {0}
      /\ commands[1].type = t /\ events' = events
      /\ Len(commands') = Len(commands) - 1
      /\ \A i \in 1..Len(commands') :
            i + 1 \in 1..Len(commands) /\ commands'[i] = commands[i + 1]
  BY Received
<1>2. PlanQueued' <=> PlanQueued
  <2>1. PlanQueued' => PlanQueued
    BY <1>1 DEF PlanQueued
  <2>2. ASSUME PlanQueued PROVE PlanQueued'
    <3>1. PICK i \in 1..Len(commands) : commands[i].type = "Plan"
      BY <2>2 DEF PlanQueued
    <3>2. i # 1
      BY <1>1, <3>1
    <3>3. i - 1 \in 1..Len(commands') /\ commands'[i - 1] = commands[i]
      BY <1>1, <3>1, <3>2
    <3>4. QED
      BY <3>1, <3>3 DEF PlanQueued
  <2>3. QED
    BY <2>1, <2>2
<1>3. BusyHasOneOwner'
  BY <1>2 DEF BusyHasOneOwner, PlanHeld, CoordActive
<1>4. PlanComesLast'
  BY <1>1 DEF PlanComesLast, Newest
<1>5. ApprovalsGiven'
  BY <1>1 DEF ApprovalsGiven, Newest
<1>6. EngineHasTheNewest' /\ QuitIsIdle' /\ OnlyApprovedJobsRun'
  BY DEF EngineHasTheNewest, QuitIsIdle, CoordActive, PlanHeld, Newest,
     OnlyApprovedJobsRun
<1>7. UndecidedBeforeReview'
  BY <1>1, <1>2 DEF UndecidedBeforeReview, BeforeReview, Newest, ReviewUnderWay
<1>8. AnnouncedReview'
  BY <1>1 DEF AnnouncedReview, Newest, ReviewUnderWay
<1>9. ReviewOnScreen' /\ DecisionsReachThePlan'
  BY DEF ReviewOnScreen, DecisionsReachThePlan, PlanHeld, Newest
<1>10. QED
  BY <1>3, <1>4, <1>5, <1>6, <1>7, <1>8, <1>9

\* The plan on hold leaves the coordinator's slot.
LEMMA ProtocolDecision ==
    ASSUME TypeInvariant, Protocol,
           NEW t \in {"Approve", "Abandon"}, Receive(t), PlanHeld,
           plan' = NoPlan,
           UNCHANGED <<nextJob, view, overlay, approved, changed, uiPc>>,
           \/ /\ t = "Approve" /\ coord' = "running" /\ job' = plan.job
              /\ busy' = busy
           \/ t = "Abandon" /\ ~busy' /\ UNCHANGED <<coord, job>>
    PROVE  Protocol'
<1> USE DEF Protocol
<1>1. /\ coord = "idle" /\ Len(commands) \in Nat \ {0}
      /\ commands[1].type = t /\ events' = events
      /\ Head(commands) = commands[1] /\ commands[1].job \in Jobs
      /\ Len(commands') = Len(commands) - 1
      /\ \A i \in 1..Len(commands') :
            i + 1 \in 1..Len(commands) /\ commands'[i] = commands[i + 1]
  BY Received
<1>2. ~PlanQueued /\ ~PlanQueued' /\ ~PlanHeld'
  BY <1>1 DEF DecisionsReachThePlan, PlanQueued, PlanHeld
<1>3. commands # <<>>
  BY DEF Receive
<1>4. ~ReviewUnderWay /\ ~ReviewUnderWay'
  BY <1>1, <1>3 DEF AnnouncedReview, ReviewUnderWay
<1>5. plan.job = Newest /\ commands[1].job = Newest
  BY <1>1 DEF EngineHasTheNewest, DecisionsReachThePlan
<1>6. /\ t = "Approve" => Newest \in approved
      /\ t = "Abandon" => Newest \notin approved /\ view.type # "Review"
  BY <1>1, <1>5 DEF ApprovalsGiven, DecisionsReachThePlan, ReviewOnScreen,
     Queued
<1>7. BusyHasOneOwner'
  <2>1. CASE t = "Approve"
    BY <1>2, <2>1 DEF BusyHasOneOwner, CoordActive
  <2>2. CASE t = "Abandon"
    BY <1>1, <1>2, <2>2 DEF BusyHasOneOwner, CoordActive
  <2>3. QED
    BY <2>1, <2>2
<1>8. PlanComesLast' /\ ApprovalsGiven'
  BY <1>1 DEF PlanComesLast, ApprovalsGiven, Newest
<1>9. EngineHasTheNewest'
  BY <1>1, <1>2, <1>5 DEF EngineHasTheNewest, CoordActive, Newest
<1>10. QuitIsIdle'
  <2>1. busy' => busy
    OBVIOUS
  <2>2. QED
    BY <2>1 DEF QuitIsIdle
<1>11. UndecidedBeforeReview'
  BY <1>1, <1>2 DEF UndecidedBeforeReview, BeforeReview
<1>12. AnnouncedReview'
  BY <1>1, <1>4 DEF AnnouncedReview, ReviewUnderWay
<1>13. ReviewOnScreen'
  BY <1>6 DEF ReviewOnScreen, Newest
<1>14. DecisionsReachThePlan'
  BY <1>2 DEF DecisionsReachThePlan
<1>15. OnlyApprovedJobsRun'
  BY <1>1, <1>5, <1>6 DEF OnlyApprovedJobsRun
<1>16. QED
  BY <1>7, <1>8, <1>9, <1>10, <1>11, <1>12, <1>13, <1>14, <1>15

LEMMA ProtocolTakeApprove ==
    ASSUME TypeInvariant, Protocol, TakeApprove
    PROVE  Protocol'
<1>1. /\ Receive("Approve") /\ plan' = NoPlan /\ busy' = busy
      /\ UNCHANGED <<nextJob, view, overlay, approved, changed, uiPc>>
  BY DEF TakeApprove, uiVars, historyVars
<1>2. CASE PlanHeld
  <2>1. coord' = "running" /\ job' = plan.job
    BY <1>1, <1>2, DecisionMatches DEF TakeApprove
  <2>2. QED
    BY <1>1, <1>2, <2>1, ProtocolDecision
<1>3. CASE ~PlanHeld
  <2>1. UNCHANGED <<coord, job, plan>>
    BY <1>1, <1>3, DecisionMatches DEF TakeApprove, PlanHeld
  <2>2. QED
    BY <1>1, <1>3, <2>1, ProtocolStaleDecision
<1>4. QED
  BY <1>2, <1>3

LEMMA ProtocolTakeAbandon ==
    ASSUME TypeInvariant, Protocol, TakeAbandon
    PROVE  Protocol'
<1>1. /\ Receive("Abandon")
      /\ UNCHANGED <<nextJob, coord, job, view, overlay, approved, changed,
                     uiPc>>
  BY DEF TakeAbandon, uiVars, historyVars
<1>2. CASE PlanHeld
  <2>1. plan.job = Head(commands).job
    BY <1>1, <1>2, DecisionMatches
  <2>2. plan' = NoPlan /\ ~busy'
    BY <2>1 DEF TakeAbandon
  <2>3. QED
    BY <1>1, <1>2, <2>2, ProtocolDecision
<1>3. CASE ~PlanHeld
  <2>1. plan.job # Head(commands).job
    BY <1>1, <1>3, DecisionMatches
  <2>2. plan' = plan /\ busy' = busy
    BY <2>1 DEF TakeAbandon
  <2>3. QED
    BY <1>1, <1>3, <2>2, ProtocolStaleDecision
<1>4. QED
  BY <1>2, <1>3

----------------------------------------------------------------------------
(* The screen loop *)

\* Only an announced review becomes a review on screen.
LEMMA ViewOfReview ==
    ASSUME NEW e \in Events
    PROVE  /\ e.type = "PlanReady" => /\ ViewOf(e).type = "Review"
                                      /\ ViewOf(e).job = e.job
           /\ e.type # "PlanReady" => ViewOf(e).type # "Review"
<1>1. e.type \in {"Planning", "PlanReady", "Progress", "Finished", "Failed",
                  "Conflict"}
  BY DEF Events
<1>2. CASE e.type = "PlanReady"
  BY <1>2 DEF ViewOf, View
<1>3. CASE e.type = "Progress"
  BY <1>3 DEF ViewOf, View
<1>4. CASE e.type = "Failed"
  BY <1>4 DEF ViewOf, View
<1>5. CASE e.type = "Planning"
  BY <1>5 DEF ViewOf, View
<1>6. CASE e.type = "Finished"
  BY <1>6 DEF ViewOf, View
<1>7. CASE e.type = "Conflict"
  BY <1>7 DEF ViewOf, View
<1>8. QED
  BY <1>1, <1>2, <1>3, <1>4, <1>5, <1>6, <1>7

LEMMA ProtocolDrainEvent ==
    ASSUME TypeInvariant, Protocol, DrainEvent
    PROVE  Protocol'
<1> USE DEF Protocol
<1>1. /\ UNCHANGED <<commands, nextJob, coord, job, plan, overlay, approved,
                     changed, uiPc>>
      /\ busy' = busy /\ view' = ViewOf(Head(events))
  BY DEF DrainEvent, EngineFrame, coordVars
<1>2. /\ Len(events) \in Nat \ {0} /\ Head(events) = events[1]
      /\ events[1] \in Events /\ Len(events') = Len(events) - 1
      /\ \A i \in 1..Len(events') :
            i + 1 \in 1..Len(events) /\ events'[i] = events[i + 1]
  BY DEF DrainEvent, TypeInvariant, TypeOK
<1>3. ReviewUnderWay' => ReviewUnderWay
  BY <1>2 DEF ReviewUnderWay
<1>4. BusyHasOneOwner'
  BY <1>1 DEF BusyHasOneOwner, PlanQueued, CoordActive, PlanHeld
<1>5. PlanComesLast' /\ ApprovalsGiven' /\ DecisionsReachThePlan'
  BY <1>1 DEF PlanComesLast, ApprovalsGiven, DecisionsReachThePlan, Newest,
     PlanHeld
<1>6. EngineHasTheNewest' /\ OnlyApprovedJobsRun' /\ QuitIsIdle'
  BY <1>1 DEF EngineHasTheNewest, CoordActive, PlanHeld, Newest,
     OnlyApprovedJobsRun, QuitIsIdle
<1>7. UndecidedBeforeReview' /\ AnnouncedReview' /\ ReviewOnScreen'
  <2>1. CASE events[1].type = "PlanReady"
    <3>1. view'.type = "Review" /\ view'.job = Newest
      BY <1>1, <1>2, <2>1, ViewOfReview DEF AnnouncedReview
    <3>2. ReviewUnderWay
      BY <1>2, <2>1 DEF ReviewUnderWay
    <3>3. PlanHeld /\ commands = <<>> /\ Newest \notin approved
      BY <3>2 DEF AnnouncedReview
    <3>4. ~ReviewUnderWay'
      <4>1. SUFFICES ASSUME NEW i \in 1..Len(events'),
                            events'[i].type = "PlanReady"
                     PROVE  FALSE
        BY DEF ReviewUnderWay
      <4>2. /\ i \in Int /\ i >= 1 /\ i + 1 \in 1..Len(events)
            /\ events[i + 1].type = "PlanReady"
        BY <1>2, <4>1
      <4>3. 1 \in 1..Len(events)
        BY <1>2
      <4>4. i + 1 = 1
        BY <2>1, <4>2, <4>3 DEF AnnouncedReview
      <4>5. QED
        BY <4>2, <4>4
    <3>5. ~PlanQueued /\ coord = "idle"
      BY <3>3 DEF BusyHasOneOwner, CoordActive
    <3>6. UndecidedBeforeReview'
      BY <1>1, <3>5 DEF UndecidedBeforeReview, PlanQueued, BeforeReview
    <3>7. AnnouncedReview'
      BY <3>4 DEF AnnouncedReview, ReviewUnderWay
    <3>8. ReviewOnScreen'
      BY <1>1, <3>1, <3>3 DEF ReviewOnScreen, PlanHeld, Queued, Newest
    <3>9. QED
      BY <3>6, <3>7, <3>8
  <2>2. CASE events[1].type # "PlanReady"
    <3>1. view'.type # "Review"
      BY <1>1, <1>2, <2>2, ViewOfReview
    <3>2. UndecidedBeforeReview'
      BY <1>1, <1>3, <3>1 DEF UndecidedBeforeReview, PlanQueued, Newest
    <3>3. ReviewUnderWay' =>
             /\ PlanHeld' /\ commands' = <<>> /\ view'.type # "Review"
             /\ Newest' \notin approved'
      BY <1>1, <1>3, <3>1 DEF AnnouncedReview, PlanHeld, Newest
    <3>4. ASSUME NEW i \in 1..Len(events'), events'[i].type = "PlanReady"
          PROVE  /\ events'[i].job = Newest'
                 /\ \A k \in 1..Len(events') :
                       events'[k].type = "PlanReady" => k = i
      <4>1. i + 1 \in 1..Len(events) /\ events[i + 1].type = "PlanReady"
            /\ events'[i] = events[i + 1]
        BY <1>2, <3>4
      <4>2. ASSUME NEW k \in 1..Len(events'), events'[k].type = "PlanReady"
            PROVE  k = i
        <5>1. k + 1 \in 1..Len(events) /\ events[k + 1].type = "PlanReady"
          BY <1>2, <4>2
        <5>2. k + 1 = i + 1
          BY <4>1, <5>1 DEF AnnouncedReview
        <5>3. QED
          BY <5>2
      <4>3. events'[i].job = Newest'
        BY <1>1, <4>1 DEF AnnouncedReview, Newest
      <4>4. QED
        BY <4>2, <4>3
    <3>5. AnnouncedReview'
      BY <3>3, <3>4 DEF AnnouncedReview
    <3>6. ReviewOnScreen'
      BY <3>1 DEF ReviewOnScreen
    <3>7. QED
      BY <3>2, <3>5, <3>6
  <2>3. QED
    BY <2>1, <2>2
<1>8. QED
  BY <1>4, <1>5, <1>6, <1>7

\* A submission finds the engine's slot empty and no review on screen.
LEMMA ProtocolSubmit ==
    ASSUME TypeInvariant, Protocol, NEW k \in Kinds, Submit(k),
           view.type = "Idle" \/ overlay = "prompt",
           UNCHANGED <<coord, job, plan, changed>>,
           uiPc' = "drain",
           overlay' \in {"none", overlay}
    PROVE  Protocol'
<1> USE DEF Protocol
<1>1. /\ ~busy /\ nextJob' = nextJob + 1
      /\ UNCHANGED <<events, approved>>
  BY Zenon DEF Submit, EngineFree
<1>2. \/ /\ busy'
         /\ commands' = Append(commands, Command("Plan", nextJob, k))
         /\ view' = View("Planning", nextJob, NoConflict, FALSE)
      \/ ~busy' /\ commands' = commands /\ view' = view
  BY Zenon DEF Submit
<1>3. ~PlanQueued /\ coord = "idle" /\ ~PlanHeld
  BY <1>1 DEF BusyHasOneOwner, CoordActive
<1>4. ~ReviewUnderWay /\ ~ReviewUnderWay'
  BY <1>1, <1>3 DEF AnnouncedReview, ReviewUnderWay
<1>5. view.type # "Review" /\ view'.type # "Review"
  <2>1. view.type # "Review"
    BY <1>3 DEF ReviewOnScreen
  <2>2. QED
    BY <1>2, <2>1 DEF View
<1>6. /\ nextJob \in Nat /\ Newest' = nextJob /\ nextJob \notin approved
      /\ \A j \in approved : j <= Newest'
  BY <1>1, EngineAssumption DEF TypeInvariant, TypeOK, Newest, ApprovalsGiven,
     Jobs
<1>7. commands \in Seq(Commands)
  BY DEF TypeInvariant, TypeOK
<1>8. \/ /\ busy' /\ Len(commands') = Len(commands) + 1
         /\ Len(commands) \in Nat
         /\ \A i \in 1..Len(commands) : commands'[i] = commands[i]
         /\ commands'[Len(commands) + 1].type = "Plan"
         /\ commands'[Len(commands) + 1].job = Newest'
      \/ ~busy' /\ commands' = commands
  <2>1. CASE /\ busy'
             /\ commands' = Append(commands, Command("Plan", nextJob, k))
    <3>1. /\ Len(commands') = Len(commands) + 1
          /\ Len(commands) \in Nat
          /\ \A i \in 1..Len(commands) : commands'[i] = commands[i]
          /\ commands'[Len(commands) + 1] = Command("Plan", nextJob, k)
      BY <1>7, <2>1
    <3>2. Command("Plan", nextJob, k).type = "Plan"
          /\ Command("Plan", nextJob, k).job = Newest'
      BY <1>6 DEF Command
    <3>3. QED
      BY <2>1, <3>1, <3>2
  <2>2. CASE ~busy' /\ commands' = commands
    BY <2>2
  <2>3. QED
    BY <1>2, <2>1, <2>2
<1>9. BusyHasOneOwner'
  <2>1. PlanQueued' <=> busy'
    BY <1>3, <1>8 DEF PlanQueued
  <2>2. QED
    BY <1>3, <2>1 DEF BusyHasOneOwner, CoordActive, PlanHeld
<1>10. PlanComesLast'
  BY <1>3, <1>8 DEF PlanComesLast, PlanQueued
<1>11. EngineHasTheNewest' /\ DecisionsReachThePlan'
  BY <1>3 DEF EngineHasTheNewest, CoordActive, PlanHeld, DecisionsReachThePlan
<1>12. UndecidedBeforeReview'
  BY <1>1, <1>3, <1>4, <1>5, <1>6 DEF UndecidedBeforeReview, BeforeReview
<1>13. AnnouncedReview' /\ ReviewOnScreen'
  BY <1>4, <1>5 DEF AnnouncedReview, ReviewUnderWay, ReviewOnScreen
<1>14. ApprovalsGiven'
  <2>1. \A i \in 1..Len(commands') :
           commands'[i].type = "Approve" =>
               i \in 1..Len(commands) /\ commands'[i] = commands[i]
    BY <1>8
  <2>2. QED
    BY <1>1, <1>6, <2>1 DEF ApprovalsGiven
<1>15. OnlyApprovedJobsRun'
  BY <1>1 DEF OnlyApprovedJobsRun
<1>16. QuitIsIdle'
  BY DEF QuitIsIdle
<1>17. QED
  BY <1>9, <1>10, <1>11, <1>12, <1>13, <1>14, <1>15, <1>16

\* A decision key appends a command about the job under review.
LEMMA ProtocolKeyDecision ==
    ASSUME TypeInvariant, Protocol, view.type = "Review", overlay = "none",
           NEW t \in {"Approve", "Abandon"},
           commands' = Append(commands, Command(t, view.job, "none")),
           UNCHANGED <<events, nextJob, coord, job, plan, overlay, changed>>,
           busy' = busy, uiPc' = "drain",
           \/ /\ t = "Approve" /\ view' = view
              /\ approved' = approved \cup {view.job}
           \/ t = "Abandon" /\ view' = IdleView /\ approved' = approved
    PROVE  Protocol'
<1> USE DEF Protocol
<1>1. view.job = Newest /\ ~PlanQueued /\ ~ReviewUnderWay
      /\ coord \notin BeforeReview
  BY DEF ReviewOnScreen, UndecidedBeforeReview, AnnouncedReview
<1>2. /\ commands \in Seq(Commands) /\ Len(commands) \in Nat
      /\ Len(commands') = Len(commands) + 1
      /\ \A i \in 1..Len(commands) : commands'[i] = commands[i]
      /\ commands'[Len(commands) + 1] = Command(t, view.job, "none")
  BY DEF TypeInvariant, TypeOK
<1>3. commands'[Len(commands) + 1].type = t
      /\ commands'[Len(commands) + 1].job = Newest
  BY <1>1, <1>2 DEF Command
<1>4. ~PlanQueued' /\ ~ReviewUnderWay'
  BY <1>1, <1>2, <1>3 DEF PlanQueued, ReviewUnderWay
<1>5. view'.type = "Review" => t = "Approve"
  BY DEF IdleView, View
<1>6. Newest' = Newest /\ Newest \in Int
  BY DEF Newest, TypeInvariant, TypeOK
<1>7. BusyHasOneOwner'
  BY <1>1, <1>4 DEF BusyHasOneOwner, CoordActive, PlanHeld
<1>8. PlanComesLast'
  BY <1>4 DEF PlanComesLast, PlanQueued
<1>9. EngineHasTheNewest'
  BY <1>6 DEF EngineHasTheNewest, CoordActive, PlanHeld
<1>10. UndecidedBeforeReview' /\ AnnouncedReview'
  BY <1>1, <1>4 DEF UndecidedBeforeReview, AnnouncedReview, ReviewUnderWay
<1>11. ReviewOnScreen'
  BY <1>1, <1>5, <1>6 DEF ReviewOnScreen
<1>12. ApprovalsGiven'
  <2>1. ASSUME NEW i \in 1..Len(commands'), commands'[i].type = "Approve"
        PROVE  commands'[i].job \in approved'
    <3>1. CASE i \in 1..Len(commands)
      BY <1>2, <2>1, <3>1 DEF ApprovalsGiven
    <3>2. CASE i = Len(commands) + 1
      BY <1>1, <1>3, <2>1, <3>2
    <3>3. QED
      BY <1>2, <3>1, <3>2
  <2>2. \A j \in approved' : j <= Newest'
    BY <1>1, <1>6 DEF ApprovalsGiven
  <2>3. QED
    BY <2>1, <2>2 DEF ApprovalsGiven
<1>13. DecisionsReachThePlan'
  <2>1. SUFFICES ASSUME PlanHeld'
                 PROVE  /\ \A i \in 1..Len(commands') :
                              /\ commands'[i].type # "Plan"
                              /\ commands'[i].job = Newest'
                        /\ Newest' \in approved' =>
                              /\ commands' # <<>>
                              /\ Head(commands').type = "Approve"
    BY DEF DecisionsReachThePlan
  <2>2. PlanHeld
    BY <2>1 DEF PlanHeld
  <2>3. \A i \in 1..Len(commands') :
           commands'[i].type # "Plan" /\ commands'[i].job = Newest'
    BY <1>2, <1>3, <1>6, <2>2 DEF DecisionsReachThePlan
  <2>4. commands' # <<>> /\ Head(commands') = commands'[1]
    BY <1>2
  <2>5. CASE Newest \in approved
    <3>1. commands # <<>> /\ Head(commands).type = "Approve"
      BY <2>2, <2>5 DEF DecisionsReachThePlan
    <3>2. Len(commands) # 0 /\ Head(commands) = commands[1]
      BY <1>2, <3>1
    <3>3. 1 \in 1..Len(commands)
      BY <1>2, <3>2
    <3>4. commands'[1] = commands[1]
      BY <1>2, <3>3
    <3>5. QED
      BY <2>3, <2>4, <3>1, <3>2, <3>4
  <2>6. CASE Newest \notin approved /\ t = "Approve"
    <3>1. ~Queued("Abandon")
      BY <2>6 DEF ReviewOnScreen
    <3>2. \A i \in 1..Len(commands) : commands[i].type # "Approve"
      BY <2>2, <2>6 DEF ApprovalsGiven, DecisionsReachThePlan
    <3>3. \A i \in 1..Len(commands) :
             commands[i].type \in {"Plan", "Approve", "Abandon"}
      BY <1>2 DEF Commands
    <3>4. \A i \in 1..Len(commands) : FALSE
      BY <1>1, <3>1, <3>2, <3>3 DEF Queued, PlanQueued
    <3>5. Len(commands) = 0
      BY <1>2, <3>4
    <3>6. QED
      BY <1>3, <2>3, <2>4, <2>6, <3>5
  <2>7. CASE Newest \notin approved /\ t = "Abandon"
    BY <1>6, <2>3, <2>7
  <2>8. QED
    BY <2>5, <2>6, <2>7
<1>14. OnlyApprovedJobsRun' /\ QuitIsIdle'
  BY DEF OnlyApprovedJobsRun, QuitIsIdle
<1>15. QED
  BY <1>7, <1>8, <1>9, <1>10, <1>11, <1>12, <1>13, <1>14

\* The keys that decide nothing, and the poll between two keys.
ScreenOnly ==
    \/ DrainDone \/ NoKey \/ KeyOpenOverlay \/ KeyCloseOverlay \/ KeyCancel
    \/ KeyToggleAll \/ KeyResolve \/ KeyDismiss \/ KeyQuitDenied \/ KeyQuit

LEMMA ProtocolScreenOnly ==
    ASSUME TypeInvariant, Protocol, ScreenOnly
    PROVE  Protocol'
<1> USE DEF ScreenOnly, DrainDone, NoKey, KeyOpenOverlay, KeyCloseOverlay,
        KeyCancel, KeyToggleAll, KeyResolve, KeyDismiss, KeyQuitDenied,
        KeyQuit, Key, OperationKey, EngineFrame, RequestCancel, channelVars
<1>1. UNCHANGED <<commands, events, nextJob, coord, job, plan, approved,
                  changed>>
  BY DEF coordVars
<1>2. busy' = busy
  OBVIOUS
<1>3. view' = view \/ view'.type # "Review"
  <2>1. CASE KeyToggleAll
    <3>1. view.type = "Conflict" /\ view' = [view EXCEPT !.all = ~@]
      BY <2>1, Zenon
    <3>2. view'.type = "Conflict"
      <4>1. view \in Views
        BY DEF TypeInvariant, TypeOK
      <4>2. IdleView.type = "Idle"
        BY DEF IdleView, View
      <4>3. view \in [type: {"Conflict"}, job: Jobs, conflict: Conflicts,
                      all: BOOLEAN]
        BY <3>1, <4>1, <4>2 DEF Views
      <4>4. QED
        BY <3>1, <4>3
    <3>3. QED
      BY <3>2
  <2>2. CASE KeyDismiss
    BY <2>2 DEF IdleView, View
  <2>3. CASE ~KeyToggleAll /\ ~KeyDismiss
    BY <2>3, Zenon
  <2>4. QED
    BY <2>1, <2>2, <2>3
<1>4. overlay' \in {"none", overlay} \/ view'.type # "Review"
  <2>1. CASE KeyOpenOverlay
    BY <2>1
  <2>2. CASE ~KeyOpenOverlay
    BY <2>2, Zenon
  <2>3. QED
    BY <2>1, <2>2
<1>5. uiPc' = "quit" => ~busy
  <2>1. CASE KeyQuit
    BY <2>1, Zenon DEF QuitForbidden
  <2>2. CASE ~KeyQuit
    BY <2>2
  <2>3. QED
    BY <2>1, <2>2
<1>6. QED
  BY <1>1, <1>2, <1>3, <1>4, <1>5, ScreenMoves

LEMMA ProtocolKeys ==
    ASSUME TypeInvariant, Protocol,
           KeySubmit \/ KeySubmitName \/ KeyApprove \/ KeyAbandon
    PROVE  Protocol'
<1> USE DEF Key, OperationKey, EngineFrame, coordVars
<1>1. CASE KeySubmit
  <2>1. PICK k \in Kinds : Submit(k)
    BY <1>1, Zenon DEF KeySubmit
  <2>2. /\ view.type = "Idle" /\ overlay' = overlay /\ uiPc' = "drain"
        /\ UNCHANGED <<coord, job, plan, changed>>
    BY <1>1 DEF KeySubmit
  <2>3. QED
    BY <2>1, <2>2, ProtocolSubmit
<1>2. CASE KeySubmitName
  <2>1. PICK k \in Kinds : Submit(k)
    BY <1>2, Zenon DEF KeySubmitName
  <2>2. /\ overlay = "prompt" /\ overlay' \in {"none", overlay}
        /\ uiPc' = "drain" /\ UNCHANGED <<coord, job, plan, changed>>
    BY <1>2 DEF KeySubmitName
  <2>3. QED
    BY <2>1, <2>2, ProtocolSubmit
<1>3. CASE KeyApprove
  <2>1. /\ view.type = "Review" /\ overlay = "none" /\ uiPc' = "drain"
        /\ commands' = Append(commands, Command("Approve", view.job, "none"))
        /\ UNCHANGED <<events, nextJob, coord, job, plan, overlay, changed>>
        /\ busy' = busy /\ view' = view
        /\ approved' = approved \cup {view.job}
    BY <1>3 DEF KeyApprove
  <2>2. QED
    BY <2>1, ProtocolKeyDecision
<1>4. CASE KeyAbandon
  <2>1. /\ view.type = "Review" /\ overlay = "none" /\ uiPc' = "drain"
        /\ commands' = Append(commands, Command("Abandon", view.job, "none"))
        /\ UNCHANGED <<events, nextJob, coord, job, plan, overlay, changed>>
        /\ busy' = busy /\ view' = IdleView /\ approved' = approved
    BY <1>4 DEF KeyAbandon, AbandonCommand
  <2>2. QED
    BY <2>1, ProtocolKeyDecision
<1>5. QED
  BY <1>1, <1>2, <1>3, <1>4

----------------------------------------------------------------------------
(* The invariant and what follows from it *)

LEMMA ProtocolInit == Init => Protocol
<1> SUFFICES ASSUME Init PROVE Protocol
  OBVIOUS
<1>1. /\ commands = <<>> /\ events = <<>> /\ coord = "idle" /\ plan = NoPlan
      /\ nextJob = 1 /\ approved = {} /\ changed = {} /\ uiPc = "drain"
      /\ view = IdleView
  BY DEF Init
<1>2. ~busy
  BY DEF Init
<1>3. view.type = "Idle"
  BY <1>1 DEF IdleView, View
<1>4. ~PlanQueued /\ ~ReviewUnderWay /\ ~PlanHeld
  BY <1>1 DEF PlanQueued, ReviewUnderWay, PlanHeld
<1>5. BusyHasOneOwner
  BY <1>1, <1>2, <1>4 DEF BusyHasOneOwner, CoordActive
<1>6. QED
  BY <1>1, <1>3, <1>4, <1>5 DEF Protocol, PlanComesLast, EngineHasTheNewest,
     CoordActive, UndecidedBeforeReview, BeforeReview, AnnouncedReview,
     ReviewUnderWay, ReviewOnScreen, ApprovalsGiven, DecisionsReachThePlan,
     OnlyApprovedJobsRun, QuitIsIdle

LEMMA ProtocolNext ==
    ASSUME TypeInvariant, Protocol, [Next]_vars
    PROVE  Protocol'
<1>1. CASE Coordinator \/ PlanningProgress
  BY <1>1, ProtocolCoordinatorStays, ProtocolTakePlan, ProtocolPresentPlan,
     ProtocolReleaseBusy, ProtocolTakeApprove, ProtocolTakeAbandon
  DEF Coordinator, CoordinatorStays
<1>2. CASE Producer \/ Workers \/ WorkerProgress
  BY <1>2, ProtocolExecutor
<1>3. CASE Drain \/ HandleKey
  BY <1>3, ProtocolDrainEvent, ProtocolScreenOnly, ProtocolKeys
  DEF Drain, HandleKey, ScreenOnly
<1>4. CASE UNCHANGED vars
  <2>1. /\ UNCHANGED <<commands, events, nextJob, coord, job, plan, approved,
                       changed, view, overlay, uiPc>>
        /\ busy' = busy
    BY <1>4 DEF vars, channelVars, coordVars, uiVars, historyVars
  <2>2. uiPc' = "quit" => ~busy
    BY <2>1 DEF Protocol, QuitIsIdle
  <2>3. QED
    BY <2>1, <2>2, ScreenMoves
<1>5. QED
  BY <1>1, <1>2, <1>3, <1>4 DEF Next, Terminated

LEMMA InvariantParts == EngineInvariant <=> TypeInvariant /\ Protocol
BY DEF EngineInvariant, Protocol

\* The inductive invariant holds of every execution, for any number of jobs
\* and entries and any capacities of the channels.
THEOREM EngineInvariantHolds == Spec => []EngineInvariant
<1>1. Init => EngineInvariant
  BY TypeInit, ProtocolInit, InvariantParts
<1>2. EngineInvariant /\ [Next]_vars => EngineInvariant'
  <2>1. SUFFICES ASSUME EngineInvariant, [Next]_vars PROVE EngineInvariant'
    OBVIOUS
  <2>2. TypeInvariant /\ Protocol
    BY <2>1, InvariantParts
  <2>3. TypeInvariant'
    BY <2>1, <2>2, TypeNext
  <2>4. Protocol'
    BY <2>1, <2>2, ProtocolNext
  <2>5. QED
    BY <2>3, <2>4 DEF EngineInvariant, Protocol
<1>3. QED
  BY <1>1, <1>2, PTL DEF Spec

\* The busy flag always has exactly one owner and an owner always has the
\* flag: no operation can be admitted beside another, and none is refused
\* once the last one is over.
THEOREM BusyHasOneOwnerHolds == Spec => []BusyHasOneOwner
<1>1. EngineInvariant => BusyHasOneOwner
  BY DEF EngineInvariant
<1>2. QED
  BY <1>1, EngineInvariantHolds, PTL

\* Nothing runs, and nothing changes the file system, that was not approved
\* in its own review.
THEOREM OnlyApprovedJobsRunHolds == Spec => []OnlyApprovedJobsRun
<1>1. EngineInvariant => OnlyApprovedJobsRun
  BY DEF EngineInvariant
<1>2. QED
  BY <1>1, EngineInvariantHolds, PTL

\* The program never leaves its loop while the engine holds, plans or runs a
\* job, although the view on screen may already say that nothing is going on.
THEOREM QuitLeavesNothingRunningHolds == Spec => []QuitLeavesNothingRunning
<1>1. EngineInvariant => QuitLeavesNothingRunning
  BY DEF EngineInvariant, BusyHasOneOwner, QuitIsIdle,
     QuitLeavesNothingRunning
<1>2. QED
  BY <1>1, EngineInvariantHolds, PTL

-----------------------------------------------------------------------------
(***************************************************************************)
(* Proofs about what becomes of a job: that the protocol implements        *)
(* ReviewedJobs, that a running execution does not forget a cancellation,  *)
(* and how a job ends (OutcomeInvariant).  All rest on EngineInvariant:    *)
(* with it every step is either one step of the abstract specification or  *)
(* none, and nothing but the job itself touches what its end is made of.   *)
(***************************************************************************)
\* What a step must leave alone to be no abstract step.
StageVars == <<commands, coord, plan, nextJob, approved>>

LEMMA StageStutter ==
    ASSUME UNCHANGED StageVars, busy' = busy
    PROVE  [Reviewed!Next]_Reviewed!vars
BY DEF StageVars, Reviewed!vars, Stage, PlanQueued, PlanHeld

\* Where the job is, told by the one owner of the slot.
OwnerTells ==
    /\ Stage = "idle" <=> coord = "idle" /\ ~PlanQueued /\ ~PlanHeld
    /\ PlanQueued => Stage = "planning"
    /\ coord \in {"announcing", "planning", "rejecting"} => Stage = "planning"
    /\ coord = "presenting" \/ PlanHeld => Stage = "review"
    /\ coord \in {"running", "reporting"} => Stage = "executing"
    /\ coord = "releasing" => Stage = "closing"

LEMMA StageOf ==
    /\ BusyHasOneOwner => OwnerTells
    /\ BusyHasOneOwner' => OwnerTells'
<1>1. BusyHasOneOwner => OwnerTells
  BY DEF BusyHasOneOwner, Stage, CoordActive, OwnerTells
<1>2. BusyHasOneOwner' => OwnerTells'
  BY DEF BusyHasOneOwner, Stage, CoordActive, OwnerTells
<1>3. QED
  BY <1>1, <1>2

LEMMA ImplementsInit == Init => Reviewed!Init
<1> SUFFICES ASSUME Init PROVE Reviewed!Init
  OBVIOUS
<1>1. ~busy /\ nextJob = 1 /\ approved = {}
  BY DEF Init
<1>2. Stage = "idle"
  BY <1>1 DEF Stage
<1>3. QED
  BY <1>1, <1>2 DEF Reviewed!Init

\* An action is an abstract step when stage, number and acceptance move as
\* the abstract action says.
LEMMA AbstractMoves ==
    ASSUME TypeInvariant
    PROVE  UNCHANGED <<nextJob, approved>> =>
              /\ Stage = "planning" /\ Stage' \in {"review", "closing"}
                    => Reviewed!Next
              /\ Stage = "review" /\ Newest \notin approved /\ Stage' = "idle"
                    => Reviewed!Next
              /\ Stage = "review" /\ Newest \in approved
                    /\ Stage' = "executing" => Reviewed!Next
              /\ Stage = "executing" /\ Stage' = "closing" => Reviewed!Next
              /\ Stage = "closing" /\ Stage' = "idle" => Reviewed!Next
<1> USE DEF Reviewed!Next, Newest
<1>1. ASSUME Stage = "planning", Stage' \in {"review", "closing"},
             UNCHANGED <<nextJob, approved>>
      PROVE  Reviewed!Next
  BY <1>1 DEF Reviewed!Plan
<1>2. ASSUME Stage = "review", Newest \notin approved, Stage' = "idle",
             UNCHANGED <<nextJob, approved>>
      PROVE  Reviewed!Next
  BY <1>2 DEF Reviewed!Abandon
<1>3. ASSUME Stage = "review", Newest \in approved, Stage' = "executing",
             UNCHANGED <<nextJob, approved>>
      PROVE  Reviewed!Next
  BY <1>3 DEF Reviewed!Execute
<1>4. ASSUME Stage = "executing", Stage' = "closing",
             UNCHANGED <<nextJob, approved>>
      PROVE  Reviewed!Next
  BY <1>4 DEF Reviewed!Finish
<1>5. ASSUME Stage = "closing", Stage' = "idle",
             UNCHANGED <<nextJob, approved>>
      PROVE  Reviewed!Next
  BY <1>5 DEF Reviewed!Release
<1>6. QED
  BY <1>1, <1>2, <1>3, <1>4, <1>5

LEMMA ImplementsCoordinator ==
    ASSUME EngineInvariant, EngineInvariant', Coordinator \/ PlanningProgress
    PROVE  [Reviewed!Next]_Reviewed!vars
<1> USE DEF channelVars, historyVars
<1>0. /\ TypeInvariant /\ BusyHasOneOwner /\ Protocol
      /\ TypeInvariant' /\ BusyHasOneOwner'
      /\ OwnerTells /\ OwnerTells'
  BY StageOf DEF EngineInvariant, Protocol
<1>1. CASE TakePlan
  <2>1. commands[1].type = "Plan" /\ Len(commands) \in Nat \ {0}
    BY <1>0, <1>1, Received DEF TakePlan
  <2>2. Stage = "planning"
    BY <1>0, <2>1 DEF OwnerTells, PlanQueued
  <2>3. coord' = "announcing" /\ UNCHANGED <<nextJob, approved>>
    BY <1>1 DEF TakePlan
  <2>4. Stage' = "planning"
    BY <1>0, <2>3 DEF OwnerTells
  <2>5. QED
    BY <2>2, <2>3, <2>4 DEF Reviewed!vars
<1>2. CASE AnnouncePlanning \/ PlanningProgress \/ PlanningFails
           \/ PresentPlan \/ FinishExecution
  <2>1. UNCHANGED <<nextJob, approved>>
    BY <1>2 DEF AnnouncePlanning, PlanningProgress, PlanningFails,
       PresentPlan, FinishExecution
  <2>2. Stage' = Stage
    <3>1. CASE AnnouncePlanning \/ PlanningProgress \/ PlanningFails
      <4>1. coord \in {"announcing", "planning", "rejecting"}
            /\ coord' \in {"announcing", "planning", "rejecting"}
        BY <3>1 DEF AnnouncePlanning, PlanningProgress, PlanningFails,
           coordVars
      <4>2. QED
        BY <1>0, <4>1 DEF OwnerTells
    <3>2. CASE PresentPlan
      <4>1. coord = "presenting" /\ coord' = "idle" /\ busy' = busy
            /\ commands' = commands
        BY <3>2 DEF PresentPlan
      <4>2. Stage' # "idle" /\ ~PlanQueued'
        BY <1>0, <4>1
        DEF OwnerTells, BusyHasOneOwner, PlanQueued, CoordActive, Stage
      <4>3. PlanHeld'
        BY <1>0, <4>1, <4>2 DEF OwnerTells
      <4>4. QED
        BY <1>0, <4>1, <4>3 DEF OwnerTells
    <3>3. CASE FinishExecution
      <4>1. coord = "running" /\ coord' = "reporting"
        BY <1>0, <3>3 DEF FinishExecution, TypeInvariant, LocalsAgree
      <4>2. QED
        BY <1>0, <4>1 DEF OwnerTells
    <3>4. QED
      BY <1>2, <3>1, <3>2, <3>3
  <2>3. QED
    BY <2>1, <2>2 DEF Reviewed!vars
<1>3. CASE PlanningSucceeds \/ RejectPlan
  <2>1. /\ coord \in {"planning", "rejecting"}
        /\ coord' \in {"presenting", "releasing"}
        /\ UNCHANGED <<nextJob, approved>>
    BY <1>3 DEF PlanningSucceeds, RejectPlan
  <2>2. Stage = "planning" /\ Stage' \in {"review", "closing"}
    BY <1>0, <2>1 DEF OwnerTells
  <2>3. QED
    BY <1>0, <2>1, <2>2, AbstractMoves
<1>4. CASE ReportJob
  <2>1. /\ coord = "reporting" /\ coord' = "releasing"
        /\ UNCHANGED <<nextJob, approved>>
    BY <1>4 DEF ReportJob
  <2>2. Stage = "executing" /\ Stage' = "closing"
    BY <1>0, <2>1 DEF OwnerTells
  <2>3. QED
    BY <1>0, <2>1, <2>2, AbstractMoves
<1>5. CASE ReleaseBusy
  <2>1. /\ coord = "releasing" /\ UNCHANGED <<nextJob, approved>>
        /\ ~busy'
    BY <1>5 DEF ReleaseBusy
  <2>2. Stage = "closing" /\ Stage' = "idle"
    BY <1>0, <2>1 DEF OwnerTells, Stage
  <2>3. QED
    BY <1>0, <2>1, <2>2, AbstractMoves
<1>6. ASSUME NEW t \in {"Approve", "Abandon"}, Receive(t), ~PlanHeld,
             UNCHANGED <<nextJob, approved, coord, plan>>, busy' = busy
      PROVE  [Reviewed!Next]_Reviewed!vars
  <2>1. coord = "idle" /\ coord' = "idle" /\ ~PlanHeld'
    BY <1>6 DEF Receive, PlanHeld
  <2>2. PlanQueued' <=> PlanQueued
    BY <1>0, <1>6, <2>1 DEF BusyHasOneOwner, CoordActive
  <2>3. Stage' = Stage
    BY <1>6, <2>1, <2>2 DEF Stage
  <2>4. QED
    BY <1>6, <2>3 DEF Reviewed!vars
<1>7. CASE TakeApprove
  <2>1. /\ Receive("Approve") /\ UNCHANGED <<nextJob, approved>>
        /\ busy' = busy /\ plan' = NoPlan
    BY <1>7 DEF TakeApprove
  <2>2. CASE PlanHeld
    <3>1. coord' = "running" /\ job' = plan.job /\ plan.job = Newest
      BY <1>0, <1>7, <2>1, <2>2, DecisionMatches
      DEF TakeApprove, Protocol, EngineHasTheNewest
    <3>2. Newest \in approved
      <4>1. OnlyApprovedJobsRun'
        BY DEF EngineInvariant
      <4>2. QED
        BY <2>1, <3>1, <4>1 DEF OnlyApprovedJobsRun
    <3>3. Stage = "review" /\ Stage' = "executing"
      BY <1>0, <2>2, <3>1 DEF OwnerTells
    <3>4. QED
      BY <1>0, <2>1, <3>2, <3>3, AbstractMoves
  <2>3. CASE ~PlanHeld
    <3>1. UNCHANGED <<coord, plan>>
      BY <1>0, <1>7, <2>1, <2>3, DecisionMatches DEF TakeApprove, PlanHeld
    <3>2. QED
      BY <1>6, <2>1, <2>3, <3>1
  <2>4. QED
    BY <2>2, <2>3
<1>8. CASE TakeAbandon
  <2>1. Receive("Abandon") /\ UNCHANGED <<nextJob, approved, coord>>
    BY <1>8 DEF TakeAbandon
  <2>2. CASE PlanHeld
    <3>1. ~busy'
      BY <1>0, <1>8, <2>1, <2>2, DecisionMatches DEF TakeAbandon
    <3>2. Head(commands).type = "Abandon"
      BY <2>1 DEF Receive
    <3>3. Newest \notin approved
      BY <1>0, <2>2, <3>2 DEF Protocol, DecisionsReachThePlan
    <3>4. Stage = "review" /\ Stage' = "idle"
      BY <1>0, <2>2, <3>1 DEF OwnerTells, Stage
    <3>5. QED
      BY <1>0, <2>1, <3>3, <3>4, AbstractMoves
  <2>3. CASE ~PlanHeld
    <3>1. plan.job # Head(commands).job
      BY <1>0, <2>1, <2>3, DecisionMatches
    <3>2. plan' = plan /\ busy' = busy
      BY <1>8, <3>1 DEF TakeAbandon
    <3>3. QED
      BY <1>6, <2>1, <2>3, <3>2
  <2>4. QED
    BY <2>2, <2>3
<1>9. QED
  BY <1>1, <1>2, <1>3, <1>4, <1>5, <1>7, <1>8 DEF Coordinator, Planner

LEMMA ImplementsSubmit ==
    ASSUME EngineInvariant, EngineInvariant', NEW k \in Kinds, Submit(k),
           UNCHANGED <<coord, plan>>
    PROVE  Reviewed!Next
<1>0. /\ TypeInvariant /\ BusyHasOneOwner /\ ApprovalsGiven
      /\ OwnerTells /\ OwnerTells'
  BY StageOf DEF EngineInvariant
<1>1. /\ ~busy /\ nextJob <= MaxJobs /\ nextJob' = nextJob + 1
      /\ approved' = approved
  BY Zenon DEF Submit, EngineFree
<1>2. Stage = "idle" /\ coord' = "idle" /\ ~PlanHeld'
  BY <1>0, <1>1 DEF Stage, BusyHasOneOwner, CoordActive, PlanHeld
<1>3. Stage' \in {"idle", "planning"}
  BY <1>0, <1>2 DEF OwnerTells
<1>4. /\ nextJob \in Nat /\ nextJob - 1 < MaxJobs /\ nextJob' - 1 = nextJob
      /\ nextJob \notin approved'
  BY <1>0, <1>1, EngineAssumption DEF TypeInvariant, TypeOK, ApprovalsGiven,
     Newest, Jobs
<1>5. ~((nextJob' - 1) \in approved')
  BY <1>4
<1>6. /\ nextJob' - 1 = (nextJob - 1) + 1
      /\ ((nextJob' - 1) \in approved') = FALSE
  BY <1>4, <1>5
<1>7. Reviewed!Submit
  BY <1>2, <1>3, <1>4, <1>6 DEF Reviewed!Submit
<1>8. QED
  BY <1>7 DEF Reviewed!Next

LEMMA ImplementsScreen ==
    ASSUME EngineInvariant, EngineInvariant', Drain \/ HandleKey
    PROVE  [Reviewed!Next]_Reviewed!vars
<1> USE DEF Key, OperationKey, EngineFrame, channelVars, coordVars
<1>0. /\ TypeInvariant /\ BusyHasOneOwner /\ Protocol
      /\ OwnerTells /\ OwnerTells'
  BY StageOf DEF EngineInvariant, Protocol
<1>1. CASE ScreenOnly \/ DrainEvent
  <2>1. UNCHANGED StageVars /\ busy' = busy
    BY <1>1 DEF ScreenOnly, DrainEvent, DrainDone, NoKey, KeyOpenOverlay,
       KeyCloseOverlay, KeyCancel, KeyToggleAll, KeyResolve, KeyDismiss,
       KeyQuitDenied, KeyQuit, RequestCancel, StageVars
  <2>2. QED
    BY <2>1, StageStutter
<1>2. CASE KeySubmit \/ KeySubmitName
  <2>1. PICK k \in Kinds : Submit(k)
    BY <1>2, Zenon DEF KeySubmit, KeySubmitName
  <2>2. UNCHANGED <<coord, plan>>
    BY <1>2 DEF KeySubmit, KeySubmitName
  <2>3. QED
    BY <2>1, <2>2, ImplementsSubmit
<1>3. ASSUME NEW t \in {"Approve", "Abandon"}, view.type = "Review",
             commands' = Append(commands, Command(t, view.job, "none")),
             UNCHANGED <<coord, plan, nextJob>>, busy' = busy
      PROVE  Stage' = Stage /\ ~PlanQueued
  <2>1. ~PlanQueued
    BY <1>0, <1>3 DEF Protocol, UndecidedBeforeReview
  <2>2. /\ Len(commands) \in Nat
        /\ Len(commands') = Len(commands) + 1
        /\ \A i \in 1..Len(commands) : commands'[i] = commands[i]
        /\ commands'[Len(commands) + 1] = Command(t, view.job, "none")
    BY <1>0, <1>3 DEF TypeInvariant, TypeOK
  <2>3. Command(t, view.job, "none").type # "Plan"
    BY DEF Command
  <2>4. ~PlanQueued'
    BY <2>1, <2>2, <2>3 DEF PlanQueued
  <2>5. QED
    BY <1>3, <2>1, <2>4 DEF Stage, PlanHeld
<1>4. CASE KeyApprove
  <2>1. /\ view.type = "Review" /\ approved' = approved \cup {view.job}
        /\ commands' = Append(commands, Command("Approve", view.job, "none"))
        /\ UNCHANGED <<coord, plan, nextJob>> /\ busy' = busy
    BY <1>4 DEF KeyApprove
  <2>2. Stage' = Stage /\ view.job = Newest
    BY <1>0, <1>3, <2>1 DEF Protocol, ReviewOnScreen
  <2>3. CASE Newest \in approved
    <3>1. approved' = approved
      BY <2>1, <2>2, <2>3
    <3>2. QED
      BY <2>1, <2>2, <3>1 DEF Reviewed!vars
  <2>4. CASE Newest \notin approved
    <3>1. Stage = "review"
      BY <1>0, <2>1, <2>4 DEF Protocol, ReviewOnScreen, OwnerTells
    <3>2. Newest' \in approved' /\ Newest' = Newest
      BY <2>1, <2>2 DEF Newest
    <3>3. Reviewed!Approve
      BY <2>1, <2>2, <3>1, <3>2 DEF Reviewed!Approve, Newest
    <3>4. QED
      BY <3>3 DEF Reviewed!Next
  <2>5. QED
    BY <2>3, <2>4
<1>5. CASE KeyAbandon
  <2>1. /\ view.type = "Review" /\ approved' = approved
        /\ commands' = Append(commands, Command("Abandon", view.job, "none"))
        /\ UNCHANGED <<coord, plan, nextJob>> /\ busy' = busy
    BY <1>5 DEF KeyAbandon, AbandonCommand
  <2>2. Stage' = Stage
    BY <1>3, <2>1
  <2>3. QED
    BY <2>1, <2>2 DEF Reviewed!vars
<1>6. QED
  BY <1>1, <1>2, <1>4, <1>5 DEF Drain, HandleKey, ScreenOnly

LEMMA ImplementsNext ==
    ASSUME EngineInvariant, EngineInvariant', [Next]_vars
    PROVE  [Reviewed!Next]_Reviewed!vars
<1>1. CASE Coordinator \/ PlanningProgress
  BY <1>1, ImplementsCoordinator
<1>2. CASE Producer \/ Workers \/ WorkerProgress
  <2>1. ExecutorFrame
    BY <1>2, ProducerQuiet, WorkersQuiet DEF EngineInvariant
  <2>2. UNCHANGED StageVars /\ busy' = busy
    BY <2>1 DEF ExecutorFrame, StageVars
  <2>3. QED
    BY <2>2, StageStutter
<1>3. CASE Drain \/ HandleKey
  BY <1>3, ImplementsScreen
<1>4. CASE UNCHANGED vars
  <2>1. UNCHANGED StageVars /\ busy' = busy
    BY <1>4 DEF vars, StageVars, channelVars, coordVars, historyVars
  <2>2. QED
    BY <2>1, StageStutter
<1>5. QED
  BY <1>1, <1>2, <1>3, <1>4 DEF Next, Terminated

\* The coordinator, its channels, its executor and the screen loop together
\* behave like the reviewed operation of ReviewedJobs: executed when and only
\* when it was approved, and never abandoned once it is.
THEOREM ImplementsReviewedJobsHolds == Spec => ImplementsReviewedJobs
<1>1. Init => Reviewed!Init
  BY ImplementsInit
<1>2. EngineInvariant /\ EngineInvariant' /\ [Next]_vars
         => [Reviewed!Next]_Reviewed!vars
  BY ImplementsNext
<1>3. QED
  BY <1>1, <1>2, EngineInvariantHolds, PTL
  DEF Spec, ImplementsReviewedJobs, Reviewed!Spec

\* Only a submission takes a cancellation back, and no submission is admitted
\* during an execution.
LEMMA OnlySubmitClearsCancel ==
    ASSUME cancel, ~cancel', Next
    PROVE  \E k \in Kinds : Submit(k)
<1>1. ~(Coordinator \/ PlanningProgress)
  BY DEF Coordinator, PlanningProgress, Planner, TakePlan, AnnouncePlanning,
     PlanningFails, PlanningSucceeds, RejectPlan, PresentPlan, ReleaseBusy,
     TakeApprove, TakeAbandon, FinishExecution, ReportJob
<1>2. ~(Producer \/ Workers \/ WorkerProgress)
  BY DEF Producer, BeginExecution, CloseQueue, VisitDirectory, VisitFile,
     VisitIdentical, VisitCollision, VisitFails, Enqueue, OfferConflict,
     AwaitDecision, AwaitTimesOut, TakeResolution, AskAgain, SourceWins,
     DestinationStays, DestinationGone, SubtreeSkipped, DecisionFails,
     JoinWorkers, CleanUpSources, ItemDone, ItemFails, ItemsEnd, Workers,
     WorkerPublishes, WorkerFails, WorkerDiscards, WorkerProgress,
     WorkerFrame, ProducerFrame
<1>3. ~(DrainEvent \/ ScreenOnly \/ KeyApprove \/ KeyAbandon)
  BY DEF DrainEvent, ScreenOnly, DrainDone, NoKey, KeyOpenOverlay,
     KeyCloseOverlay, KeyCancel, KeyToggleAll, KeyResolve, KeyDismiss,
     KeyQuitDenied, KeyQuit, RequestCancel, KeyApprove, KeyAbandon
<1>4. ~Terminated
  BY DEF Terminated, vars
<1>5. KeySubmit \/ KeySubmitName
  BY <1>1, <1>2, <1>3, <1>4, Zenon DEF Next, Drain, HandleKey, ScreenOnly
<1>6. QED
  BY <1>5, Zenon DEF KeySubmit, KeySubmitName

\* Only a submission takes back a cancellation, and none is admitted while the
\* engine works.
LEMMA CancelStands ==
    ASSUME EngineInvariant, [Next]_vars, coord # "idle", cancel
    PROVE  cancel'
<1>1. busy
  BY DEF EngineInvariant, BusyHasOneOwner, CoordActive
<1>2. CASE UNCHANGED vars
  BY <1>2 DEF vars
<1>3. CASE Next
  <2>1. SUFFICES ASSUME ~cancel' PROVE FALSE
    OBVIOUS
  <2>2. PICK k \in Kinds : Submit(k)
    BY <1>3, <2>1, OnlySubmitClearsCancel
  <2>3. QED
    BY <1>1, <2>2, Zenon DEF Submit, EngineFree
<1>4. QED
  BY <1>2, <1>3

\* A cancellation requested during an execution stays requested: the flag is
\* only taken back by a submission, which the busy flag keeps out.
THEOREM CancelIsRememberedHolds == Spec => CancelIsRemembered
<1>1. EngineInvariant /\ [Next]_vars
         => [coord = "running" /\ cancel => cancel']_vars
  BY CancelStands
<1>2. QED
  BY <1>1, EngineInvariantHolds, PTL DEF Spec, CancelIsRemembered

----------------------------------------------------------------------------
(* How a job ends *)

ScreenVars == <<coord, job, plan, kind, mode, report, prod, left, inflight,
                stopped, done, failed, policy, conflict, answer>>

\* The screen loop leaves the engine's locals alone.
LEMMA ScreenLeavesEngine ==
    ASSUME Drain \/ HandleKey
    PROVE  UNCHANGED ScreenVars
BY DEF Drain, DrainEvent, DrainDone, HandleKey, NoKey, KeySubmit,
   KeyOpenOverlay, KeyCloseOverlay, KeySubmitName, KeyCancel, KeyApprove,
   KeyAbandon, KeyToggleAll, KeyResolve, KeyDismiss, KeyQuitDenied, KeyQuit,
   Key, OperationKey, EngineFrame, coordVars, discoveryVars, copyVars,
   ScreenVars

\* The choices stay with their job: they are sent from the prompt that shows
\* the collision, taken by the job they name, and answers are made in the job.
LEMMA ChoicesNext ==
    ASSUME TypeInvariant, ChoicesKeepTheirJob, [Next]_vars
    PROVE  ChoicesKeepTheirJob'
<1> USE DEF ChoicesKeepTheirJob, NoAnswerCrossesJobs
<1>1. CASE Coordinator \/ PlanningProgress
  <2>1. resolutions' = resolutions /\ answer' \in {answer, NoAnswer}
    BY <1>1 DEF Coordinator, Planner, PlanningProgress, TakePlan, Receive,
       AnnouncePlanning, PlanningFails, PlanningSucceeds, RejectPlan,
       PresentPlan, ReleaseBusy, TakeApprove, TakeAbandon, FinishExecution,
       ReportJob, channelVars, discoveryVars
  <2>2. prod' # "decided"
    BY <1>1 DEF Coordinator, Planner, PlanningProgress, TakePlan, Receive,
       AnnouncePlanning, PlanningFails, PlanningSucceeds, RejectPlan,
       PresentPlan, ReleaseBusy, TakeApprove, TakeAbandon, FinishExecution,
       ReportJob, channelVars, discoveryVars, TypeInvariant, LocalsAgree
  <2>3. QED
    BY <2>1, <2>2
<1>2. CASE Producer
  <2>1. job' = job
    BY <1>2, ProducerQuiet DEF ExecutorFrame
  <2>2. CASE TakeResolution
    <3>1. resolutions \in Seq(Resolutions) /\ resolutions # <<>>
      BY <2>2 DEF TakeResolution, TypeInvariant, TypeOK
    <3>2. /\ Len(resolutions) \in Nat \ {0}
          /\ Head(resolutions) = resolutions[1]
      BY <3>1
    <3>3. /\ Len(Tail(resolutions)) = Len(resolutions) - 1
          /\ \A i \in 1..Len(Tail(resolutions)) :
                /\ i + 1 \in 1..Len(resolutions)
                /\ Tail(resolutions)[i] = resolutions[i + 1]
      BY <3>1
    <3>4. prod' = "decided" => Head(resolutions).job = job
                               /\ answer'.shown = Head(resolutions).shown
      BY <2>2 DEF TakeResolution, Addressed
    <3>5. resolutions' = Tail(resolutions)
      BY <2>2 DEF TakeResolution
    <3>6. QED
      BY <2>1, <3>2, <3>3, <3>4, <3>5
  <2>3. CASE VisitCollision
    <3>1. resolutions' = resolutions /\ prod' \in {"offer", "decided"}
          /\ (prod' = "decided" => answer'.shown.job = job)
      BY <2>3 DEF VisitCollision
    <3>2. QED
      BY <2>1, <3>1
  <2>4. CASE AskAgain
    BY <2>1, <2>4 DEF AskAgain, channelVars
  <2>5. CASE ~TakeResolution /\ ~VisitCollision /\ ~AskAgain
    <3>1. resolutions' = resolutions /\ prod' # "decided"
      BY <1>2, <2>5 DEF Producer, BeginExecution, CloseQueue, VisitDirectory,
         VisitFile, VisitIdentical, VisitFails, Enqueue, OfferConflict,
         AwaitDecision, AwaitTimesOut, SourceWins, DestinationStays,
         DestinationGone, SubtreeSkipped, DecisionFails, JoinWorkers,
         CleanUpSources, ItemDone, ItemFails, ItemsEnd, channelVars, Abort
    <3>2. QED
      BY <3>1
  <2>6. QED
    BY <2>2, <2>3, <2>4, <2>5
<1>3. CASE Workers \/ WorkerProgress
  <2>1. UNCHANGED <<resolutions, prod, answer, job>>
    BY <1>3 DEF Workers, WorkerPublishes, WorkerFails, WorkerDiscards,
       WorkerProgress, WorkerFrame, ProducerFrame, coordVars, discoveryVars
  <2>2. QED
    BY <2>1
<1>4. CASE Drain \/ HandleKey
  <2>1. UNCHANGED <<prod, answer, job>>
    BY <1>4, ScreenLeavesEngine DEF ScreenVars
  <2>2. CASE KeyResolve
    <3>1. PICK a \in Choices :
            resolutions' = <<[job |-> view.conflict.job, action |-> a,
                              all |-> view.all, shown |-> view.conflict]>>
      BY <2>2 DEF KeyResolve
    <3>2. Len(resolutions') = 1
          /\ resolutions'[1].job = resolutions'[1].shown.job
      BY <3>1
    <3>3. QED
      BY <2>1, <3>2
  <2>3. CASE ~KeyResolve
    <3>1. resolutions' = resolutions
      BY <1>4, <2>3, Zenon DEF Drain, DrainEvent, DrainDone, HandleKey, NoKey,
         KeySubmit, KeyOpenOverlay, KeyCloseOverlay, KeySubmitName, KeyCancel,
         KeyApprove, KeyAbandon, KeyToggleAll, KeyDismiss, KeyQuitDenied,
         KeyQuit, Submit, RequestCancel, channelVars
    <3>2. QED
      BY <2>1, <3>1
  <2>4. QED
    BY <2>2, <2>3
<1>5. CASE UNCHANGED vars
  BY <1>5 DEF vars, channelVars, coordVars, discoveryVars
<1>6. QED
  BY <1>1, <1>2, <1>3, <1>4, <1>5 DEF Next, Terminated

\* A coordinator step outside an execution starts it with a clean slate, ends
\* it with the outcome, or leaves the executor's locals alone.
LEMMA ScopeCoordinator ==
    ASSUME TypeInvariant, ScopeIsAccountedFor, Coordinator \/ PlanningProgress
    PROVE  ScopeIsAccountedFor'
<1> USE DEF ScopeIsAccountedFor, CompletedMeansEverything
<1>1. cancel' = cancel
  BY DEF Coordinator, Planner, PlanningProgress, TakePlan, Receive,
     AnnouncePlanning, PlanningFails, PlanningSucceeds, RejectPlan,
     PresentPlan, ReleaseBusy, TakeApprove, TakeAbandon, FinishExecution,
     ReportJob
<1>2. CASE FinishExecution
  <2>1. /\ coord = "running" /\ prod = "finished" /\ inflight = 0
        /\ inflight \in Nat
    BY <1>2, EngineAssumption DEF FinishExecution, TypeInvariant, TypeOK,
       LocalsAgree, Copying, AtCollision
  <2>2. /\ coord' = "reporting" /\ prod' = "off" /\ report' = Outcome
        /\ UNCHANGED <<left, inflight, stopped, failed>>
    BY <1>2 DEF FinishExecution, copyVars
  <2>3. Outcome = "Completed" => ~failed /\ ~cancel
    BY DEF Outcome
  <2>4. QED
    BY <2>1, <2>2, <2>3
<1>3. CASE ReportJob
  <2>1. coord' = "releasing" /\ prod' = prod /\ ~stopped'
    BY <1>3 DEF ReportJob
  <2>2. prod = "off"
    BY <1>3 DEF ReportJob, TypeInvariant, TypeOK, LocalsAgree
  <2>3. QED
    BY <2>1, <2>2
<1>4. CASE ~FinishExecution /\ ~ReportJob
  <2>1. /\ coord \notin {"running", "reporting"} /\ coord' # "reporting"
        /\ stopped' = stopped /\ prod' \in {prod, "start"}
    BY <1>4 DEF Coordinator, Planner, PlanningProgress, TakePlan, Receive,
       AnnouncePlanning, PlanningFails, PlanningSucceeds, RejectPlan,
       PresentPlan, ReleaseBusy, TakeApprove, TakeAbandon, copyVars,
       discoveryVars, coordVars
  <2>2. prod = "off"
    BY <2>1 DEF TypeInvariant, TypeOK, LocalsAgree
  <2>3. QED
    BY <2>1, <2>2
<1>5. QED
  BY <1>2, <1>3, <1>4

LEMMA AbortAccounts ==
    ASSUME TypeInvariant, ScopeIsAccountedFor, coord = "running", Abort,
           cancel' = cancel
    PROVE  /\ prod' = "closing" /\ Interrupted'
           /\ stopped' => failed' \/ cancel'
BY DEF ScopeIsAccountedFor, Abort, Interrupted

LEMMA ScopeProducer ==
    ASSUME TypeInvariant, ScopeIsAccountedFor, Producer
    PROVE  ScopeIsAccountedFor'
<1> USE DEF ScopeIsAccountedFor, CompletedMeansEverything, Interrupted
<1>1. coord = "running" /\ coord' = "running"
  BY ProducerQuiet DEF ExecutorFrame
<1>2. cancel' = cancel
  BY DEF Producer, BeginExecution, CloseQueue, VisitDirectory, VisitFile,
     VisitIdentical, VisitCollision, VisitFails, Enqueue, OfferConflict,
     AwaitDecision, AwaitTimesOut, TakeResolution, AskAgain, SourceWins,
     DestinationStays, DestinationGone, SubtreeSkipped, DecisionFails,
     JoinWorkers, CleanUpSources, ItemDone, ItemFails, ItemsEnd, ProducerFrame
<1>3. CASE VisitFails \/ DecisionFails
  <2>1. Abort
    BY <1>3 DEF VisitFails, DecisionFails
  <2>2. QED
    BY <1>1, <1>2, <2>1, AbortAccounts
<1>4. CASE Enqueue
  <2>1. \/ prod' = "visit" /\ UNCHANGED <<stopped, failed>>
        \/ Abort
    BY <1>4 DEF Enqueue
  <2>2. QED
    BY <1>1, <1>2, <2>1, AbortAccounts
<1>5. CASE BeginExecution
  <2>1. stopped' = stopped /\ (prod' = "finished" => failed')
        /\ (failed => failed') /\ prod' \in {"items", "visit", "finished"}
    BY <1>5 DEF BeginExecution
  <2>2. QED
    BY <1>1, <1>2, <2>1
<1>6. CASE CloseQueue
  <2>1. prod' = "closed" /\ (left = 0 \/ Interrupted)
        /\ UNCHANGED <<left, stopped, failed>>
    BY <1>6 DEF CloseQueue, copyVars
  <2>2. QED
    BY <1>1, <1>2, <2>1
<1>7. CASE AwaitDecision
  <2>1. prod' \in {"closing", "listen"} /\ (prod' = "closing" => cancel)
        /\ UNCHANGED <<stopped, failed>>
    BY <1>7 DEF AwaitDecision, GivesUp, copyVars
  <2>2. QED
    BY <1>1, <1>2, <2>1
<1>8. CASE JoinWorkers
  <2>1. /\ prod' \in {"finished", "cleanup"}
        /\ prod' = "cleanup" => ~Interrupted
        /\ prod = "closed" /\ UNCHANGED <<left, stopped, failed>>
    BY <1>8 DEF JoinWorkers
  <2>2. QED
    BY <1>1, <1>2, <2>1
<1>9. CASE CleanUpSources
  <2>1. /\ prod' = "finished" /\ prod = "cleanup" /\ left' = left
        /\ \/ UNCHANGED <<stopped, failed>>
           \/ stopped' = TRUE /\ failed' = TRUE
    BY <1>9 DEF CleanUpSources
  <2>2. QED
    BY <1>1, <1>2, <2>1
<1>10. CASE ItemFails
  <2>1. prod' = "finished" /\ failed' = TRUE /\ stopped' = stopped
    BY <1>10 DEF ItemFails
  <2>2. QED
    BY <1>1, <1>2, <2>1
<1>11. CASE ItemsEnd
  <2>1. /\ prod' = "finished" /\ (left = 0 \/ cancel)
        /\ UNCHANGED <<left, stopped, failed>>
    BY <1>11 DEF ItemsEnd, copyVars
  <2>2. QED
    BY <1>1, <1>2, <2>1
<1>12. CASE \/ VisitDirectory \/ VisitFile \/ VisitIdentical
            \/ VisitCollision \/ OfferConflict \/ AwaitTimesOut
            \/ TakeResolution \/ AskAgain \/ SourceWins \/ DestinationStays
            \/ DestinationGone \/ SubtreeSkipped \/ ItemDone
  <2>1. /\ prod' \in AtCollision \cup {"visit", "enqueue", "items"}
        /\ UNCHANGED <<stopped, failed>>
    BY <1>12 DEF VisitDirectory, VisitFile, VisitIdentical, VisitCollision,
       OfferConflict, AwaitTimesOut, TakeResolution, AskAgain, SourceWins,
       DestinationStays, DestinationGone, SubtreeSkipped, ItemDone, copyVars,
       AtCollision
  <2>2. QED
    BY <1>1, <1>2, <2>1 DEF AtCollision
<1>13. QED
  BY <1>3, <1>4, <1>5, <1>6, <1>7, <1>8, <1>9, <1>10, <1>11, <1>12
  DEF Producer

\* A worker stops the job only with a failure to report, or because of the
\* cancellation.
LEMMA ScopeWorkers ==
    ASSUME TypeInvariant, ScopeIsAccountedFor, Workers \/ WorkerProgress
    PROVE  ScopeIsAccountedFor'
<1> USE DEF ScopeIsAccountedFor, CompletedMeansEverything, Interrupted
<1>1. coord = "running" /\ coord' = "running"
  BY WorkersQuiet DEF ExecutorFrame
<1>2. UNCHANGED <<prod, left>> /\ cancel' = cancel
  BY DEF Workers, WorkerPublishes, WorkerFails, WorkerDiscards,
     WorkerProgress, WorkerFrame, ProducerFrame, discoveryVars
<1>3. CASE WorkerFails
  <2>1. /\ inflight > 0 /\ stopped' = TRUE
        /\ failed' = (failed \/ ~cancel) \/ failed' = TRUE
    BY <1>3 DEF WorkerFails
  <2>2. failed => failed'
    BY <2>1
  <2>3. QED
    BY <1>1, <1>2, <2>1, <2>2
<1>4. CASE ~WorkerFails
  <2>1. UNCHANGED <<stopped, failed>>
    BY <1>4 DEF Workers, WorkerPublishes, WorkerDiscards, WorkerProgress,
       copyVars
  <2>2. QED
    BY <1>1, <1>2, <2>1
<1>5. QED
  BY <1>3, <1>4

LEMMA ScopeScreen ==
    ASSUME EngineInvariant, ScopeIsAccountedFor, [Next]_vars,
           UNCHANGED ScreenVars
    PROVE  ScopeIsAccountedFor'
<1>1. coord # "idle" /\ cancel => cancel'
  BY CancelStands
<1>2. coord = "idle" => prod = "off"
  BY DEF EngineInvariant, TypeInvariant, TypeOK, LocalsAgree
<1>3. QED
  BY <1>1, <1>2 DEF ScopeIsAccountedFor, CompletedMeansEverything,
     Interrupted, ScreenVars

\* Draining an event does not change what the screen will come to show;
\* sending one makes it the last word.
LEMMA ComingDrained ==
    ASSUME TypeInvariant, DrainEvent
    PROVE  Coming' = Coming
<1>1. /\ events \in Seq(Events) /\ events # <<>>
      /\ events' = Tail(events) /\ view' = ViewOf(Head(events))
  BY DEF TypeInvariant, TypeOK, DrainEvent
<1>2. Len(events) \in Nat \ {0} /\ Head(events) = events[1]
  BY <1>1
<1>3. CASE Len(events) = 1
  <2>1. events' = <<>>
    BY <1>1, <1>3
  <2>2. QED
    BY <1>1, <1>2, <1>3, <2>1 DEF Coming
<1>4. CASE Len(events) > 1
  <2>1. events' # <<>> /\ events'[Len(events')] = events[Len(events)]
    <3>1. /\ Len(Tail(events)) = Len(events) - 1
          /\ \A i \in 1..Len(Tail(events)) : Tail(events)[i] = events[i + 1]
      BY <1>1
    <3>2. Len(events) - 1 \in 1..Len(Tail(events))
      BY <1>2, <1>4, <3>1
    <3>3. Tail(events)[Len(events) - 1] = events[Len(events)]
      BY <1>2, <3>1, <3>2
    <3>4. QED
      BY <1>1, <1>4, <3>1, <3>3
  <2>2. ViewOf(events'[Len(events')]) = ViewOf(events[Len(events)])
    BY <2>1
  <2>3. Coming' = ViewOf(events'[Len(events')])
    BY <2>1 DEF Coming, ViewOf, View
  <2>4. QED
    BY <1>1, <2>2, <2>3 DEF Coming
<1>5. Len(events) = 1 \/ Len(events) > 1
  <2>1. \A n \in Nat \ {0} : n = 1 \/ n > 1
    OBVIOUS
  <2>2. QED
    BY <1>2, <2>1, Zenon
<1>6. QED
  BY <1>3, <1>4, <1>5

LEMMA ComingSent ==
    ASSUME TypeInvariant, NEW e \in Events, SendEvent(e)
    PROVE  Coming'.type = ViewOf(e).type /\ Coming'.job = e.job
<1>1. events \in Seq(Events) /\ events' = Append(events, e)
  BY DEF TypeInvariant, TypeOK, SendEvent
<1>2. events' # <<>> /\ events'[Len(events')] = e
  BY <1>1
<1>3. QED
  BY <1>2 DEF Coming, ViewOf, View

LEMMA ComingStays ==
    ASSUME events' = events
    PROVE  /\ view' = view => Coming' = Coming
           /\ events # <<>> => Coming' = Coming
           /\ events = <<>> => Coming' = view' /\ Coming = view
BY DEF Coming, ViewOf, View

\* A step inside a job: nothing is promised yet.
LEMMA LastWordInJob ==
    ASSUME EngineInvariant, coord # "idle", coord' \notin {"idle", "releasing"},
           plan' = plan
    PROVE  LastWordIsTheEnd'
BY DEF EngineInvariant, BusyHasOneOwner, CoordActive, PlanHeld,
   LastWordIsTheEnd

\* The events that close a stage of a job are the last word about it.
LEMMA LastWordSent ==
    ASSUME EngineInvariant, LastWordIsTheEnd,
           RejectPlan \/ ReportJob \/ PresentPlan
    PROVE  LastWordIsTheEnd'
<1>1. coord # "idle" /\ job \in Jobs /\ ~PlanHeld
  BY DEF EngineInvariant, TypeInvariant, LocalsAgree, RejectPlan, ReportJob,
     PresentPlan, BusyHasOneOwner, CoordActive
<1>2. CASE RejectPlan \/ ReportJob
  <2>1. PICK t \in {"Finished", "Failed"} :
          SendEvent(Event(t, job, NoConflict))
    BY <1>2 DEF RejectPlan, ReportJob
  <2>2. Event(t, job, NoConflict) \in Events
    BY <1>1, EventType
  <2>3. Coming'.type = ViewOf(Event(t, job, NoConflict)).type
    BY <2>1, <2>2, ComingSent DEF EngineInvariant
  <2>4. ViewOf(Event(t, job, NoConflict)).type \in Closed
    BY DEF Event, ViewOf, View, Closed
  <2>5. coord' = "releasing" /\ ~PlanHeld'
    BY <1>1, <1>2 DEF RejectPlan, ReportJob, PlanHeld
  <2>6. QED
    BY <2>3, <2>4, <2>5 DEF LastWordIsTheEnd
<1>3. CASE PresentPlan
  <2>1. SendEvent(Event("PlanReady", job, NoConflict))
        /\ Event("PlanReady", job, NoConflict) \in Events
    BY <1>1, <1>3, EventType DEF PresentPlan
  <2>2. Coming'.type = ViewOf(Event("PlanReady", job, NoConflict)).type
        /\ Coming'.job = Event("PlanReady", job, NoConflict).job
    BY <2>1, ComingSent DEF EngineInvariant
  <2>3. Coming'.type = "Review" /\ Coming'.job = job
    BY <2>2 DEF Event, ViewOf, View
  <2>4. coord' = "idle" /\ plan'.job = job
    BY <1>3 DEF PresentPlan
  <2>5. PlanHeld'
    BY <1>1, <2>4 DEF PlanHeld, NoPlan, NoJob, Jobs
  <2>6. QED
    BY <2>3, <2>4, <2>5 DEF LastWordIsTheEnd
<1>4. QED
  BY <1>2, <1>3

\* A Plan command behind the one received is still queued afterwards.
LEMMA PlanStaysQueued ==
    ASSUME TypeInvariant, NEW t \in {"Approve", "Abandon"}, Receive(t)
    PROVE  PlanQueued => PlanQueued'
<1>1. /\ commands \in Seq(Commands) /\ commands # <<>>
      /\ Head(commands).type = t /\ commands' = Tail(commands)
  BY DEF Receive, TypeInvariant, TypeOK
<1>2. SUFFICES ASSUME NEW i \in 1..Len(commands), commands[i].type = "Plan"
               PROVE  PlanQueued'
  BY DEF PlanQueued
<1>3. i # 1
  BY <1>1, <1>2
<1>4. i - 1 \in 1..Len(commands') /\ commands'[i - 1] = commands[i]
  BY <1>1, <1>2, <1>3
<1>5. QED
  BY <1>2, <1>4 DEF PlanQueued

\* A decision received settles the plan on hold: approved, it runs; abandoned,
\* the user has left the review.  Without a plan it changes nothing.
LEMMA LastWordReceived ==
    ASSUME EngineInvariant, LastWordIsTheEnd, TakeApprove \/ TakeAbandon
    PROVE  LastWordIsTheEnd'
<1> USE DEF EngineInvariant
<1>1. PICK t \in {"Approve", "Abandon"} :
        /\ Receive(t)
        /\ t = "Approve" => TakeApprove
        /\ t = "Abandon" => TakeAbandon
  BY DEF TakeApprove, TakeAbandon
<1>2. /\ coord = "idle" /\ commands # <<>> /\ Head(commands) = commands[1]
      /\ 1 \in 1..Len(commands)
      /\ commands[1].type = t /\ commands[1].job \in Jobs
      /\ events' = events /\ view' = view
  <2>1. view' = view /\ commands # <<>>
    BY DEF TakeApprove, TakeAbandon, uiVars, Receive
  <2>2. QED
    BY <1>1, <2>1, Received
<1>3. Coming' = Coming
  BY <1>2, ComingStays
<1>4. CASE PlanHeld
  <2>1. commands[1].job = plan.job /\ plan.job = Newest
    BY <1>2, <1>4 DEF DecisionsReachThePlan, EngineHasTheNewest
  <2>2. CASE t = "Approve"
    <3>1. coord' = "running" /\ plan' = NoPlan
      BY <1>1, <1>2, <2>1, <2>2 DEF TakeApprove
    <3>2. QED
      BY <3>1 DEF LastWordIsTheEnd, PlanHeld
  <2>3. CASE t = "Abandon"
    <3>1. coord' = "idle" /\ plan' = NoPlan
      BY <1>1, <1>2, <2>1, <2>3 DEF TakeAbandon
    <3>2. Newest \notin approved
      BY <1>2, <1>4, <2>3 DEF DecisionsReachThePlan
    <3>3. Queued("Abandon")
      BY <1>2, <2>3 DEF Queued
    <3>4. view.type # "Review" /\ ~ReviewUnderWay
      BY <1>2, <3>2, <3>3 DEF ReviewOnScreen, AnnouncedReview
    <3>5. Coming.type # "Review"
      <4>1. CASE events = <<>>
        BY <3>4, <4>1 DEF Coming
      <4>2. CASE events # <<>>
        <5>1. events[Len(events)] \in Events
              /\ events[Len(events)].type # "PlanReady"
          BY <3>4, <4>2 DEF ReviewUnderWay, TypeInvariant, TypeOK
        <5>2. ViewOf(events[Len(events)]).type # "Review"
          BY <5>1 DEF ViewOf, View, Events
        <5>3. QED
          BY <4>2, <5>2 DEF Coming
      <4>3. QED
        BY <4>1, <4>2
    <3>6. QED
      BY <1>3, <1>4, <3>1, <3>5 DEF LastWordIsTheEnd, PlanHeld, Closed
  <2>4. QED
    BY <1>1, <2>2, <2>3
<1>5. CASE ~PlanHeld
  <2>1. coord' = "idle" /\ ~PlanHeld'
    BY <1>1, <1>2, <1>5 DEF TakeApprove, TakeAbandon, PlanHeld, NoPlan, NoJob,
       Jobs
  <2>2. PlanQueued => PlanQueued'
    BY <1>1, PlanStaysQueued
  <2>3. QED
    BY <1>2, <1>3, <1>5, <2>1, <2>2 DEF LastWordIsTheEnd
<1>6. QED
  BY <1>4, <1>5

\* What the keys and the drain do to the last word.
LEMMA LastWordScreen ==
    ASSUME EngineInvariant, LastWordIsTheEnd,
           UNCHANGED <<coord, plan>>,
           PlanQueued' \/ (PlanQueued' <=> PlanQueued),
           (coord = "idle" /\ ~PlanHeld) \/ (Queued("Abandon") => Queued("Abandon")'),
           \/ Coming'.type = Coming.type /\ Coming'.job = Coming.job
           \/ Coming'.type = "Idle" /\ (PlanHeld => Queued("Abandon")')
           \/ coord = "idle" /\ ~PlanHeld /\ PlanQueued'
    PROVE  LastWordIsTheEnd'
<1>1. PlanHeld' <=> PlanHeld
  BY DEF PlanHeld
<1>2. coord = "idle" /\ PlanHeld => ~PlanQueued
  BY DEF EngineInvariant, BusyHasOneOwner
<1>3. QED
  BY <1>1, <1>2 DEF LastWordIsTheEnd, Closed

LEMMA LastWordKeys ==
    ASSUME EngineInvariant, LastWordIsTheEnd, Drain \/ HandleKey
    PROVE  LastWordIsTheEnd'
<1> USE DEF EngineInvariant
<1>1. UNCHANGED <<coord, plan>>
  BY ScreenLeavesEngine DEF ScreenVars
<1>2. CASE DrainEvent
  <2>1. Coming' = Coming /\ commands' = commands
    BY <1>2, ComingDrained DEF DrainEvent
  <2>2. QED
    BY <1>1, <2>1, LastWordScreen DEF PlanQueued, Queued
<1>3. CASE \/ DrainDone \/ NoKey \/ KeyOpenOverlay \/ KeyCloseOverlay
           \/ KeyCancel \/ KeyResolve \/ KeyQuitDenied \/ KeyQuit
  <2>1. commands' = commands /\ events' = events /\ view' = view
    BY <1>3 DEF DrainDone, NoKey, KeyOpenOverlay, KeyCloseOverlay, KeyCancel,
       KeyResolve, KeyQuitDenied, KeyQuit, RequestCancel, channelVars
  <2>2. QED
    BY <1>1, <2>1, ComingStays, LastWordScreen DEF PlanQueued, Queued
<1>4. CASE KeyToggleAll
  <2>1. /\ commands' = commands /\ events' = events
        /\ view.type = "Conflict" /\ view' = [view EXCEPT !.all = ~@]
    BY <1>4, Zenon DEF KeyToggleAll, OperationKey, channelVars
  <2>2. view \in [type: {"Conflict"}, job: Jobs, conflict: Conflicts,
                  all: BOOLEAN]
    <3>1. view \in Views /\ IdleView.type = "Idle"
      BY DEF TypeInvariant, TypeOK, IdleView, View
    <3>2. QED
      BY <2>1, <3>1 DEF Views
  <2>3. view'.type = view.type /\ view'.job = view.job
    BY <2>1, <2>2
  <2>4. QED
    BY <1>1, <2>1, <2>3, ComingStays, LastWordScreen DEF PlanQueued, Queued
<1>5. CASE KeyDismiss
  <2>1. /\ commands' = commands /\ events' = events
        /\ view.type \in {"Finished", "Error"} /\ view'.type = "Idle"
    BY <1>5 DEF KeyDismiss, OperationKey, channelVars, IdleView, View
  <2>2. events = <<>> => ~PlanHeld
    BY <2>1, ComingStays DEF LastWordIsTheEnd
  <2>3. QED
    BY <1>1, <2>1, <2>2, ComingStays, LastWordScreen DEF PlanQueued, Queued
<1>6. CASE KeyApprove \/ KeyAbandon
  <2>1. PICK t \in {"Approve", "Abandon"} :
          /\ commands' = Append(commands, Command(t, view.job, "none"))
          /\ events' = events
          /\ t = "Approve" => view' = view
          /\ t = "Abandon" => view'.type = "Idle"
    BY <1>6 DEF KeyApprove, KeyAbandon, AbandonCommand, IdleView, View
  <2>2. /\ commands \in Seq(Commands) /\ Len(commands) \in Nat
        /\ Len(commands') = Len(commands) + 1
        /\ \A i \in 1..Len(commands) : commands'[i] = commands[i]
        /\ commands'[Len(commands) + 1] = Command(t, view.job, "none")
    BY <2>1 DEF TypeInvariant, TypeOK
  <2>3. commands'[Len(commands) + 1].type = t
    BY <2>2 DEF Command
  <2>4. (PlanQueued' <=> PlanQueued) /\ (Queued("Abandon") => Queued("Abandon")')
    <3>1. \A i \in 1..Len(commands') :
             i \in 1..Len(commands) \/ i = Len(commands) + 1
      BY <2>2
    <3>2. \A i \in 1..Len(commands) : i \in 1..Len(commands')
      BY <2>2
    <3>3. QED
      BY <2>1, <2>2, <2>3, <3>1, <3>2 DEF PlanQueued, Queued
  <2>5. t = "Abandon" => Queued("Abandon")'
    BY <2>2, <2>3 DEF Queued
  <2>6. CASE t = "Approve"
    BY <1>1, <2>1, <2>4, <2>6, ComingStays, LastWordScreen
  <2>7. CASE t = "Abandon"
    BY <1>1, <2>1, <2>4, <2>5, <2>7, ComingStays, LastWordScreen
  <2>8. QED
    BY <2>6, <2>7
<1>7. CASE KeySubmit \/ KeySubmitName
  <2>1. PICK k \in Kinds : Submit(k)
    BY <1>7, Zenon DEF KeySubmit, KeySubmitName
  <2>2. /\ ~busy /\ events' = events
        /\ \/ commands' = Append(commands, Command("Plan", nextJob, k))
           \/ commands' = commands /\ view' = view
    BY <2>1, Zenon DEF Submit, EngineFree
  <2>3. coord = "idle" /\ ~PlanHeld
    BY <2>2 DEF BusyHasOneOwner, CoordActive
  <2>4. CASE commands' = Append(commands, Command("Plan", nextJob, k))
    <3>1. /\ Len(commands') = Len(commands) + 1 /\ Len(commands) \in Nat
          /\ commands'[Len(commands) + 1] = Command("Plan", nextJob, k)
      BY <2>4 DEF TypeInvariant, TypeOK
    <3>2. commands'[Len(commands) + 1].type = "Plan"
      BY <3>1 DEF Command
    <3>3. PlanQueued'
      BY <3>1, <3>2 DEF PlanQueued
    <3>4. QED
      BY <1>1, <2>3, <3>3, LastWordScreen
  <2>5. CASE commands' = commands /\ view' = view
    BY <1>1, <2>2, <2>5, ComingStays, LastWordScreen DEF PlanQueued, Queued
  <2>6. QED
    BY <2>2, <2>4, <2>5
<1>8. QED
  BY <1>2, <1>3, <1>4, <1>5, <1>6, <1>7 DEF Drain, HandleKey

LEMMA LastWordNext ==
    ASSUME EngineInvariant, LastWordIsTheEnd, [Next]_vars
    PROVE  LastWordIsTheEnd'
<1> USE DEF EngineInvariant
<1>1. CASE Producer \/ Workers \/ WorkerProgress
  BY <1>1, ProducerQuiet, WorkersQuiet, LastWordInJob DEF ExecutorFrame
<1>2. CASE Drain \/ HandleKey
  BY <1>2, LastWordKeys
<1>3. CASE \/ AnnouncePlanning \/ PlanningProgress \/ Planner
           \/ FinishExecution
  <2>1. /\ coord # "idle" /\ coord' \notin {"idle", "releasing"}
        /\ plan' = plan
    BY <1>3 DEF AnnouncePlanning, PlanningProgress, Planner, PlanningFails,
       PlanningSucceeds, FinishExecution, coordVars, TypeInvariant,
       LocalsAgree
  <2>2. QED
    BY <2>1, LastWordInJob
<1>4. CASE RejectPlan \/ ReportJob \/ PresentPlan
  BY <1>4, LastWordSent
<1>5. CASE TakeApprove \/ TakeAbandon
  BY <1>5, LastWordReceived
<1>6. CASE TakePlan
  <2>1. PlanQueued
    BY <1>6, Received DEF TakePlan, PlanQueued
  <2>2. coord' = "announcing" /\ ~PlanHeld'
    BY <1>6, <2>1 DEF TakePlan, BusyHasOneOwner, PlanHeld
  <2>3. QED
    BY <2>2 DEF LastWordIsTheEnd
<1>7. CASE ReleaseBusy
  <2>1. /\ coord = "releasing" /\ events' = events /\ view' = view
        /\ plan' = plan
    BY <1>7 DEF ReleaseBusy, channelVars, uiVars
  <2>2. Coming' = Coming /\ ~PlanHeld'
    BY <2>1, ComingStays DEF BusyHasOneOwner, CoordActive, PlanHeld
  <2>3. QED
    BY <2>1, <2>2 DEF LastWordIsTheEnd
<1>8. CASE UNCHANGED vars
  <2>1. UNCHANGED <<coord, plan, commands, events, view>>
    BY <1>8 DEF vars, channelVars, coordVars, uiVars
  <2>2. QED
    BY <2>1, ComingStays, LastWordScreen DEF PlanQueued, Queued
<1>9. QED
  BY <1>1, <1>2, <1>3, <1>4, <1>5, <1>6, <1>7, <1>8
  DEF Next, Terminated, Coordinator

LEMMA OutcomeInit == Init => OutcomeInvariant
<1> SUFFICES ASSUME Init PROVE OutcomeInvariant
  OBVIOUS
<1>1. EngineInvariant
  BY TypeInit, ProtocolInit, InvariantParts
<1>2. ChoicesKeepTheirJob /\ ScopeIsAccountedFor
  BY DEF Init, ChoicesKeepTheirJob, NoAnswerCrossesJobs, ScopeIsAccountedFor,
     CompletedMeansEverything
<1>3. events = <<>> /\ view.type = "Idle" /\ plan = NoPlan /\ coord = "idle"
  BY DEF Init, IdleView, View
<1>4. LastWordIsTheEnd
  BY <1>3 DEF LastWordIsTheEnd, Coming, Closed, PlanHeld
<1>5. QED
  BY <1>1, <1>2, <1>4 DEF OutcomeInvariant

LEMMA OutcomeNext ==
    ASSUME OutcomeInvariant, [Next]_vars
    PROVE  OutcomeInvariant'
<1> USE DEF OutcomeInvariant
<1>1. TypeInvariant /\ Protocol
  BY InvariantParts
<1>2. EngineInvariant'
  <2>1. TypeInvariant'
    BY <1>1, TypeNext
  <2>2. Protocol'
    BY <1>1, ProtocolNext
  <2>3. QED
    BY <2>1, <2>2 DEF EngineInvariant, Protocol
<1>3. ChoicesKeepTheirJob'
  BY <1>1, ChoicesNext
<1>4. ScopeIsAccountedFor'
  <2>1. CASE Coordinator \/ PlanningProgress \/ Producer \/ Workers
             \/ WorkerProgress
    BY <1>1, <2>1, ScopeCoordinator, ScopeProducer, ScopeWorkers
  <2>2. CASE Drain \/ HandleKey \/ UNCHANGED vars
    <3>1. UNCHANGED ScreenVars
      BY <2>2, ScreenLeavesEngine
      DEF vars, ScreenVars, coordVars, discoveryVars, copyVars
    <3>2. QED
      BY <3>1, ScopeScreen
  <2>3. QED
    BY <2>1, <2>2 DEF Next, Terminated
<1>5. LastWordIsTheEnd'
  BY LastWordNext
<1>6. QED
  BY <1>2, <1>3, <1>4, <1>5

\* The inductive invariant of a job's end: whose choices are on their way, what
\* is left of the scope, and what the screen will come to show.
THEOREM OutcomeInvariantHolds == Spec => []OutcomeInvariant
<1>1. OutcomeInvariant /\ [Next]_vars => OutcomeInvariant'
  BY OutcomeNext
<1>2. QED
  BY <1>1, OutcomeInit, PTL DEF Spec

\* No decision is applied to a collision of another job than the one it was
\* made in, although a leftover choice may still lie in the channel.
THEOREM NoAnswerCrossesJobsHolds == Spec => []NoAnswerCrossesJobs
<1>1. OutcomeInvariant => NoAnswerCrossesJobs
  BY DEF OutcomeInvariant, ChoicesKeepTheirJob
<1>2. QED
  BY <1>1, OutcomeInvariantHolds, PTL

\* A job reported as completed left nothing undone, whatever was cancelled,
\* failed or stopped on the way.
THEOREM CompletedMeansEverythingHolds == Spec => []CompletedMeansEverything
<1>1. OutcomeInvariant => CompletedMeansEverything
  BY DEF OutcomeInvariant, ScopeIsAccountedFor
<1>2. QED
  BY <1>1, OutcomeInvariantHolds, PTL

\* At rest the screen shows a review exactly when the engine holds its plan,
\* and no activity that is over.
THEOREM ScreenAgreesAtRestHolds == Spec => []ScreenAgreesAtRest
<1>1. OutcomeInvariant => ScreenAgreesAtRest
  <2>1. SUFFICES ASSUME OutcomeInvariant, AtRest
                 PROVE  /\ view.type \notin {"Planning", "Running", "Conflict"}
                        /\ view.type = "Review" <=> PlanHeld
                        /\ PlanHeld => view.job = plan.job
    BY DEF ScreenAgreesAtRest
  <2>2. Coming = view /\ ~PlanQueued /\ ~Queued("Abandon") /\ coord = "idle"
    BY <2>1 DEF AtRest, Coming, PlanQueued, Queued
  <2>3. QED
    BY <2>1, <2>2 DEF OutcomeInvariant, LastWordIsTheEnd, Closed
<1>2. QED
  BY <1>1, OutcomeInvariantHolds, PTL
=============================================================================
