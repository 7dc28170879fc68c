---------------------- MODULE StreamingTransferProofs ----------------------
(***************************************************************************)
(* Proofs about StreamingTransfer, for any tree, names, destination, number *)
(* of workers and writes of other programs.  Four invariants, each from the *)
(* ones before: Soundness (types, and what tasks and times say), Order (the *)
(* walk, and which of queue, workers and journal a source is with), Homes  *)
(* (whose each target is) and Cargo (what lies at it).                     *)
(***************************************************************************)
EXTENDS StreamingTransferInvariant, FiniteSetTheorems, SequenceTheorems, TLAPS

Names == DOMAIN Copies
Frames == [into : Seq(Names), left : SUBSET Source]
Steps == {"idle", "open", "read", "check", "publish", "record"}
Workers == [step : Steps, task : Task, data : Data]
Verdicts == {"none", "identical", "source", "destination", "skip"}
Places == {"visit", "ask", "place", "send", "join", "cleanup", "prune", "done"}

\* The modified time tells the versions of a destination file apart.
Dated(entry) ==
    entry.kind = "file" =>
        /\ entry.time = EditTime => entry.data = <<Other, 1>>
        /\ entry.time = PublishTime => entry.data # <<Other, 0>>

\* What the task shows was at its target, and is unless the time differs.
Seen(task, d, reservations) ==
    /\ task.shown.kind = "file" /\ task.target \in DOMAIN d
    /\ Dated(task.shown)
    /\ task.shown.time = PublishTime =>
          task.target \in reservations /\ d[task.target].time = PublishTime
    /\ d[task.target].kind = "file" /\ d[task.target].time = task.shown.time =>
          d[task.target].data = task.shown.data

\* To overwrite what the task shows has been agreed.
Agreed(task, d, reservations, agreements) ==
    task.overwrite =>
        /\ Seen(task, d, reservations)
        /\ <<task.target, task.shown.data>> \in agreements

\* A task a worker has, or will get, is the only one for its target; what it
\* overwrites is not what another one has published.
Handed(task, d, reservations, agreements) ==
    /\ task.target \in reservations
    /\ Agreed(task, d, reservations, agreements)
    /\ task.overwrite => task.shown.time # PublishTime

\* The versions of a source file: the one of the review and a later one.
SourcesTyped ==
    /\ src \in [Source -> Entry]
    /\ \A s \in File : \/ src[s].data = <<s, 0>> /\ src[s].time = StartTime[s]
                       \/ src[s].data = <<s, 1>> /\ src[s].time = EditTime

DestTyped ==
    /\ \A p \in DOMAIN dest : dest[p] \in Entry /\ Dated(dest[p])
    /\ \A p \in DOMAIN dest :
          dest[p].kind = "file" /\ dest[p].time = PublishTime => p \in reserved

DiscoveryTyped ==
    /\ pc \in Places /\ cur \in Task
    /\ frames \in Seq(Frames)
    /\ policy \in [{"file", "type"} -> FileActions \cup {Ask}]
    /\ pc \in {"ask", "place", "send"} => cur.target # <<>> /\ cur.source \in Source
    /\ pc \in {"place", "send"} =>
          /\ cur.source \in File
          /\ Agreed(cur, dest, reserved, agreed)
    /\ pc = "ask" =>
          /\ ~cur.overwrite
          /\ cur.shown.kind = "file" => Seen(cur, dest, reserved)
    /\ pc = "send" => Handed(cur, dest, reserved, agreed)

QueueTyped ==
    /\ queue \in Seq(Task) /\ Len(queue) <= Capacity
    /\ \A i \in 1 .. Len(queue) :
          queue[i].source \in File /\ Handed(queue[i], dest, reserved, agreed)

\* The data in a temporary file are of the version the task was made for, or
\* the check before the publication finds out.
Copied(w, sources) ==
    LET task == w.task IN
    /\ w.step = "read" /\ task.time = EditTime => sources[task.source].time = EditTime
    /\ w.step \in {"check", "publish"} =>
          /\ w.data[1] = task.source
          /\ task.time = EditTime => w.data[2] = 1
          /\ w.data[2] = 1 => sources[task.source].time = EditTime
    /\ w.step = "publish" /\ w.data[2] = 1 => task.time = EditTime

WorkersTyped ==
    /\ worker \in [Worker -> Workers]
    /\ \A w \in Worker : worker[w].step # "idle" =>
          /\ worker[w].task.source \in File
          /\ Handed(worker[w].task, dest, reserved, agreed)
          /\ Copied(worker[w], src)

RestTyped ==
    /\ operation \in Operations
    /\ journal \in Seq([source : File, time : 0 .. 10])
    /\ unpruned \subseteq Directory
    /\ cancelled \in BOOLEAN /\ stopped \in BOOLEAN /\ failed \in BOOLEAN
    /\ completed \in Nat /\ edits \in 0 .. Edits /\ faults \in 0 .. Faults
    /\ verdict \in [Source -> Verdicts] /\ home \in [Source -> Seq(Names)]

Soundness ==
    /\ SourcesTyped /\ DestTyped /\ DiscoveryTyped /\ QueueTyped
    /\ WorkersTyped /\ RestTyped

-----------------------------------------------------------------------------
(* What happens to the destination, the reservations and the agreements. *)

Rewritten(old, new) ==
    /\ new.kind = "file" /\ old.time # PublishTime
    /\ \/ new.time = EditTime /\ new.data = <<Other, 1>>
       \/ new.time = PublishTime
DestGoesOn ==
    /\ reserved \subseteq reserved' /\ agreed \subseteq agreed'
    /\ \A p \in DOMAIN dest :
          p \in DOMAIN dest' /\ (dest'[p] = dest[p] \/ Rewritten(dest[p], dest'[p]))

LEMMA SeenStays ==
    ASSUME DestGoesOn, NEW task, Seen(task, dest, reserved)
    PROVE  Seen(task, dest', reserved')
<1> DEFINE p == task.target
<1>1. p \in DOMAIN dest /\ p \in DOMAIN dest'
  BY DEF DestGoesOn, Seen
<1>2. CASE dest'[p] = dest[p]
  BY <1>1, <1>2 DEF DestGoesOn, Seen
<1>3. CASE Rewritten(dest[p], dest'[p])
  <2>1. task.shown.time # PublishTime
    BY <1>3 DEF Seen, Rewritten
  <2>2. dest'[p].time = EditTime => dest'[p].data = <<Other, 1>>
    BY <1>3 DEF Rewritten, EditTime, PublishTime
  <2>3. dest'[p].time \in {EditTime, PublishTime}
    BY <1>3 DEF Rewritten
  <2> QED
    BY <1>1, <2>1, <2>2, <2>3 DEF Seen, Dated
<1> QED
  BY <1>1, <1>2, <1>3 DEF DestGoesOn

LEMMA AgreedStays ==
    ASSUME DestGoesOn, NEW task, Agreed(task, dest, reserved, agreed)
    PROVE  Agreed(task, dest', reserved', agreed')
  BY SeenStays DEF DestGoesOn, Agreed

LEMMA HandedStays ==
    ASSUME DestGoesOn, NEW task, Handed(task, dest, reserved, agreed)
    PROVE  Handed(task, dest', reserved', agreed')
  BY AgreedStays DEF DestGoesOn, Handed

(* The parts of the invariant that a step leaves alone. *)

LEMMA DestStays ==
    ASSUME DestTyped, UNCHANGED dest, reserved \subseteq reserved', agreed \subseteq agreed'
    PROVE  DestTyped' /\ DestGoesOn
  BY DEF DestTyped, DestGoesOn

LEMMA QueueStays ==
    ASSUME QueueTyped, DestGoesOn, UNCHANGED queue
    PROVE  QueueTyped'
  BY HandedStays DEF QueueTyped

LEMMA WorkersStay ==
    ASSUME WorkersTyped, DestGoesOn, UNCHANGED worker,
           \A s \in File : src[s].time = EditTime => src'[s].time = EditTime
    PROVE  WorkersTyped'
<1> SUFFICES ASSUME NEW w \in Worker, worker[w].step # "idle"
             PROVE  /\ worker[w].task.source \in File
                    /\ Handed(worker[w].task, dest', reserved', agreed')
                    /\ Copied(worker[w], src')
  BY DEF WorkersTyped
<1>1. /\ worker[w].task.source \in File
      /\ Handed(worker[w].task, dest, reserved, agreed)
      /\ Copied(worker[w], src)
  BY DEF WorkersTyped
<1>2. Copied(worker[w], src')
  BY <1>1 DEF Copied
<1> QED
  BY <1>1, <1>2, HandedStays

LEMMA DiscoveryStays ==
    ASSUME DiscoveryTyped, DestGoesOn, UNCHANGED <<frames, cur, policy>>,
           pc' = pc \/ pc' \in {"visit", "join", "cleanup", "prune", "done"}
    PROVE  DiscoveryTyped'
<1>1. CASE pc' = pc
  BY <1>1, SeenStays, AgreedStays, HandedStays DEF DiscoveryTyped
<1>2. CASE pc' \in {"visit", "join", "cleanup", "prune", "done"}
  BY <1>2 DEF DiscoveryTyped, Places
<1> QED
  BY <1>1, <1>2

-----------------------------------------------------------------------------
LEMMA NoTaskTyped == NoTask \in Task
<1>1. Folder \in Entry
  BY DEF Folder, Entry, Data
<1>2. <<>> \in Seq(DOMAIN Copies)
  OBVIOUS
<1> QED
  BY <1>1, <1>2 DEF NoTask, Task, NoSource

LEMMA InitSound == Init => Soundness
<1> SUFFICES ASSUME Init PROVE Soundness
  OBVIOUS
<1> USE TransferAssumption
<1>1. SourcesTyped
  <2>1. Folder \in Entry
    BY DEF Folder, Entry, Data
  <2>2. ASSUME NEW s \in File PROVE FileOf(<<s, 0>>, StartTime[s]) \in Entry
    BY DEF FileOf, Entry, Data
  <2> QED
    BY <2>1, <2>2 DEF Init, SourcesTyped, FileOf, Source
<1>2. DestTyped
  BY DEF Init, DestTyped, Dated, EditTime, PublishTime, Entry
<1>3. DiscoveryTyped
  <2>1. Roots \in SUBSET Source
    BY DEF Roots
  <2>2. [into |-> <<>>, left |-> Roots] \in Frames
    BY <2>1 DEF Frames, Names
  <2>3. frames \in Seq(Frames)
    BY <2>2 DEF Init
  <2> QED
    BY <2>3, NoTaskTyped DEF Init, DiscoveryTyped, Places
<1>4. QueueTyped
  BY DEF Init, QueueTyped
<1>5. WorkersTyped
  <2>1. Idle \in Workers
    BY NoTaskTyped DEF Idle, Workers, Steps, Data
  <2> QED
    BY <2>1 DEF Init, WorkersTyped, Idle
<1>6. RestTyped
  <2>1. cancelled \in BOOLEAN /\ stopped \in BOOLEAN /\ failed \in BOOLEAN
    BY DEF Init
  <2>2. journal \in Seq([source : File, time : 0 .. 10])
    BY DEF Init
  <2>3. completed \in Nat /\ edits \in 0 .. Edits /\ faults \in 0 .. Faults
    BY DEF Init
  <2> QED
    BY <2>1, <2>2, <2>3 DEF Init, RestTyped, Verdicts
<1> QED
  BY <1>1, <1>2, <1>3, <1>4, <1>5, <1>6 DEF Soundness

-----------------------------------------------------------------------------
(* Discovery. *)

\* A step of discovery that leaves disk, queue and workers alone.
LEMMA DecisionSound ==
    ASSUME Soundness, UNCHANGED <<disk, queue, worker, journal, unpruned, bounds>>,
           reserved \subseteq reserved', agreed \subseteq agreed',
           DestGoesOn => DiscoveryTyped',
           cancelled' \in BOOLEAN, stopped' \in BOOLEAN, failed' \in BOOLEAN,
           completed' \in Nat, verdict' \in [Source -> Verdicts],
           home' \in [Source -> Seq(Names)]
    PROVE  Soundness'
<1>1. DestTyped' /\ DestGoesOn
  BY DestStays DEF Soundness, disk
<1>2. QueueTyped' /\ WorkersTyped'
  BY <1>1, QueueStays, WorkersStay DEF Soundness, disk
<1>3. SourcesTyped' /\ RestTyped'
  BY DEF Soundness, SourcesTyped, RestTyped, disk, bounds
<1> QED
  BY <1>1, <1>2, <1>3 DEF Soundness

(* A visit that fails ends discovery. *)
LEMMA AbortSound ==
    ASSUME Soundness, VisitInterrupted \/ VisitFails \/ ResolveFails \/ PlaceFails
    PROVE  Soundness'
<1>1. /\ Abort /\ faults' \in {faults, faults - 1} /\ (faults' # faults => faults > 0)
      /\ UNCHANGED <<disk, policy, reserved, queue, worker, journal, unpruned,
                     cancelled, completed, edits, history>>
  BY DEF VisitInterrupted, VisitFails, ResolveFails, PlaceFails, bounds
<1>2. DestTyped' /\ DestGoesOn
  BY <1>1, DestStays DEF Soundness, disk, history
<1>3. QueueTyped' /\ WorkersTyped' /\ SourcesTyped'
  BY <1>1, <1>2, QueueStays, WorkersStay DEF Soundness, SourcesTyped, disk
<1>4. DiscoveryTyped'
  <2>1. pc' = "join" /\ frames' = <<>> /\ cur' = NoTask
    BY <1>1 DEF Abort
  <2>2. frames' \in Seq(Frames) /\ cur' \in Task
    BY <2>1, NoTaskTyped
  <2> QED
    BY <1>1, <2>1, <2>2 DEF Soundness, DiscoveryTyped, Places
<1>5. RestTyped'
  <2>1. failed' \in BOOLEAN /\ stopped' \in BOOLEAN
    BY <1>1 DEF Soundness, RestTyped, Abort
  <2>2. faults' \in 0 .. Faults
    BY <1>1, TransferAssumption DEF Soundness, RestTyped
  <2> QED
    BY <1>1, <2>1, <2>2 DEF Soundness, RestTyped, disk, history
<1> QED
  BY <1>2, <1>3, <1>4, <1>5 DEF Soundness

LEMMA FramesTyped ==
    ASSUME DiscoveryTyped, frames # <<>>
    PROVE  /\ Frame \in Frames /\ Tail(frames) \in Seq(Frames)
           /\ \A s : Left(s) \in Seq(Frames)
<1>1. Frame \in Frames /\ Tail(frames) \in Seq(Frames)
  BY HeadTailProperties DEF Frame, DiscoveryTyped
<1>2. ASSUME NEW s PROVE Left(s) \in Seq(Frames)
  <2>1. [Frame EXCEPT !.left = @ \ {s}] \in Frames
    BY <1>1 DEF Frames
  <2> HIDE DEF Frame
  <2>2. <<[Frame EXCEPT !.left = @ \ {s}]>> \in Seq(Frames)
    BY <2>1
  <2> QED
    BY <1>1, <2>2, ConcatProperties DEF Left
<1> QED
  BY <1>1, <1>2

LEMMA PathsTyped ==
    ASSUME DiscoveryTyped, frames # <<>>, NEW s \in Source
    PROVE  /\ Append(Frame.into, NameOf[s]) \in Seq(Names)
           /\ Append(Frame.into, NameOf[s]) # <<>>
<1>1. Frame.into \in Seq(Names) /\ NameOf[s] \in Names
  BY FramesTyped, TransferAssumption DEF Frames, Names
<1> QED
  BY <1>1, AppendProperties

LEMMA EnterTyped ==
    ASSUME NEW d \in Directory, NEW path \in Seq(Names), NEW rest \in Seq(Frames)
    PROVE  <<Enter(d, path)>> \o rest \in Seq(Frames)
<1>1. Enter(d, path) \in Frames
  BY TransferAssumption DEF Enter, Frames
<1>2. <<Enter(d, path)>> \in Seq(Frames)
  BY <1>1
<1> QED
  BY <1>2, ConcatProperties

LEMMA LeaveSound ==
    ASSUME Soundness, LeaveDirectory \/ EndDiscovery
    PROVE  Soundness'
<1>1. CASE LeaveDirectory
  <2>1. frames' \in Seq(Frames)
    BY <1>1, FramesTyped DEF LeaveDirectory, Inside, Soundness
  <2> QED
    BY <1>1, <2>1, DecisionSound
       DEF LeaveDirectory, Inside, Soundness, DiscoveryTyped, RestTyped, flags, history
<1>2. CASE EndDiscovery
  BY <1>2, DecisionSound, DiscoveryStays
     DEF EndDiscovery, Soundness, RestTyped, flags, history
<1> QED
  BY <1>1, <1>2

(* A new folder, or any other entry where there was none. *)
LEMMA PutGoesOn ==
    ASSUME DestTyped, NEW path, ~Exists(path), NEW entry \in Entry, dest' = Put(path, entry),
           Dated(entry), entry.time # PublishTime \/ path \in reserved,
           reserved' = reserved, agreed' = agreed
    PROVE  DestTyped' /\ DestGoesOn
  BY DEF DestTyped, DestGoesOn, Put, Exists

LEMMA FolderTyped == Folder \in Entry /\ Dated(Folder) /\ Folder.time # PublishTime
  BY DEF Folder, Entry, Data, Dated, PublishTime

\* What is considered has been seen.
LEMMA ConsideredSeen ==
    ASSUME DiscoveryTyped, DestTyped, frames # <<>>,
           NEW s \in Source, NEW time \in 0 .. 9, NEW shown \in Entry
    PROVE  /\ Considered(s, time, shown) \in Task
           /\ Considered(s, time, shown).target = Append(Frame.into, NameOf[s])
           /\ Considered(s, time, shown).target # <<>>
           /\ Considered(s, time, shown).source = s
           /\ Considered(s, time, shown).shown = shown
           /\ ~Considered(s, time, shown).overwrite
           /\ LET path == Append(Frame.into, NameOf[s]) IN
              Exists(path) /\ shown = dest[path] /\ shown.kind = "file" =>
                  Seen(Considered(s, time, shown), dest, reserved)
<1> DEFINE path == Append(Frame.into, NameOf[s])
<1>1. path \in Seq(DOMAIN Copies) /\ path # <<>>
  BY PathsTyped DEF Names
<1> HIDE DEF path
<1>2. Considered(s, time, shown) = [source |-> s, target |-> path, time |-> time,
                                   overwrite |-> FALSE, shown |-> shown]
  BY DEF Considered, path
<1>3. Considered(s, time, shown) \in Task
  BY <1>1, <1>2 DEF Task
<1>4. ASSUME Exists(path), shown = dest[path], shown.kind = "file"
      PROVE  Seen(Considered(s, time, shown), dest, reserved)
  BY <1>2, <1>4 DEF Seen, Exists, DestTyped
<1> QED
  BY <1>1, <1>2, <1>3, <1>4 DEF path

LEMMA VisitDirectorySound ==
    ASSUME Soundness, NEW d \in Directory, VisitDirectory(d)
    PROVE  Soundness'
<1> DEFINE path == Append(Frame.into, NameOf[d])
<1>1. /\ pc = "visit" /\ frames # <<>> /\ d \in Source
      /\ DiscoveryTyped /\ DestTyped
      /\ UNCHANGED <<operation, src, policy, reserved, queue, worker, journal, unpruned,
                     flags, completed, bounds, verdict, agreed>>
  BY DEF VisitDirectory, Inside, Source, Soundness
<1>2. path \in Seq(Names) /\ Left(d) \in Seq(Frames)
  BY <1>1, PathsTyped, FramesTyped
<1>3. home' \in [Source -> Seq(Names)]
  BY <1>2 DEF VisitDirectory, Found, Soundness, RestTyped
<1> HIDE DEF path
<1>4. CASE ~Exists(path) /\ dest' = Put(path, Folder)
           /\ frames' = <<Enter(d, path)>> \o Left(d) /\ UNCHANGED <<pc, cur>>
  <2>1. DestTyped' /\ DestGoesOn
    BY <1>1, <1>4, PutGoesOn, FolderTyped
  <2>2. frames' \in Seq(Frames)
    BY <1>2, <1>4, EnterTyped
  <2>3. DiscoveryTyped'
    BY <1>1, <1>4, <2>2 DEF DiscoveryTyped
  <2>4. QueueTyped' /\ WorkersTyped'
    BY <1>1, <2>1, QueueStays, WorkersStay DEF Soundness
  <2>5. SourcesTyped' /\ RestTyped'
    BY <1>1, <1>3 DEF Soundness, SourcesTyped, RestTyped, flags, bounds
  <2> QED
    BY <2>1, <2>3, <2>4, <2>5 DEF Soundness
<1>5. CASE frames' = <<Enter(d, path)>> \o Left(d) /\ UNCHANGED <<operation, dest, pc, cur>>
  <2>1. frames' \in Seq(Frames)
    BY <1>2, <1>5, EnterTyped
  <2>2. DiscoveryTyped'
    BY <1>1, <1>5, <2>1 DEF DiscoveryTyped
  <2> QED
    BY <1>1, <1>5, <1>3, <2>2, DecisionSound DEF Soundness, RestTyped, disk, flags
<1>6. CASE /\ Exists(path) /\ dest[path].kind = "file"
           /\ cur' = Considered(d, 0, dest[path]) /\ frames' = Left(d)
           /\ pc' = "ask" /\ UNCHANGED dest
  <2>1. dest[path] \in Entry
    BY <1>1, <1>6 DEF DestTyped, Exists
  <2>2. /\ cur' \in Task /\ cur'.target # <<>> /\ cur'.source = d
        /\ ~cur'.overwrite /\ cur'.shown = dest[path]
        /\ Seen(cur', dest, reserved)
    BY <1>1, <1>6, <2>1, ConsideredSeen DEF path
  <2>3. DiscoveryTyped'
    BY <1>1, <1>2, <1>6, <2>2 DEF DiscoveryTyped, Places
  <2> QED
    BY <1>1, <1>6, <1>3, <2>3, DecisionSound DEF Soundness, RestTyped, disk, flags
<1> QED
  BY <1>4, <1>5, <1>6 DEF VisitDirectory, path

LEMMA VisitFileSound ==
    ASSUME Soundness, NEW s \in File, VisitFile(s)
    PROVE  Soundness'
<1> DEFINE path == Append(Frame.into, NameOf[s])
<1>1. /\ pc = "visit" /\ frames # <<>> /\ s \in Source
      /\ DiscoveryTyped /\ DestTyped /\ SourcesTyped /\ RestTyped
      /\ frames' = Left(s)
      /\ UNCHANGED <<disk, policy, reserved, queue, worker, journal, unpruned,
                     flags, completed, bounds, agreed>>
  BY DEF VisitFile, Inside, Source, Soundness
<1>2. Left(s) \in Seq(Frames) /\ src[s].time \in 0 .. 9
  BY <1>1, FramesTyped DEF SourcesTyped, Entry
<1>3. PICK shown \in Entry :
        /\ cur' = Considered(s, src[s].time, shown)
        /\ pc' \in {"ask", "place"}
        /\ pc' = "ask" => Exists(path) /\ shown = dest[path]
  <2>1. Exists(path) => dest[path] \in Entry
    BY <1>1 DEF DestTyped, Exists
  <2> QED
    BY <2>1, FolderTyped DEF VisitFile
<1>4. /\ cur' \in Task /\ cur'.target # <<>> /\ cur'.source = s /\ ~cur'.overwrite
      /\ cur'.shown = shown
      /\ Exists(path) /\ shown = dest[path] /\ shown.kind = "file" =>
            Seen(cur', dest, reserved)
  BY <1>1, <1>2, <1>3, ConsideredSeen
<1> HIDE DEF path
<1>5. DiscoveryTyped'
  BY <1>1, <1>2, <1>3, <1>4 DEF DiscoveryTyped, Places, Agreed, disk
<1>6. verdict' \in [Source -> Verdicts]
  <2>1. verdict' = verdict \/ verdict' = [verdict EXCEPT ![s] = "identical"]
    BY DEF VisitFile
  <2> QED
    BY <1>1, <2>1 DEF RestTyped, Verdicts
<1>7. home' \in [Source -> Seq(Names)]
  BY <1>1, PathsTyped DEF VisitFile, Found, RestTyped
<1> QED
  BY <1>1, <1>5, <1>6, <1>7, DecisionSound DEF RestTyped, flags

(* Decisions. *)

LEMMA PolicyTyped ==
    ASSUME DiscoveryTyped, NEW action \in FileActions, NEW all \in BOOLEAN,
           Adopt(action, all)
    PROVE  policy' \in [{"file", "type"} -> FileActions \cup {Ask}]
<1>1. ConflictKind \in {"file", "type"}
  BY DEF ConflictKind
<1> HIDE DEF ConflictKind
<1> QED
  BY <1>1 DEF Adopt, DiscoveryTyped

LEMMA VerdictTyped ==
    ASSUME RestTyped, NEW v \in Verdicts, Settle(v)
    PROVE  verdict' \in [Source -> Verdicts]
  BY DEF RestTyped, Settle

LEMMA AskAgainSound ==
    ASSUME Soundness, NEW action \in FileActions, AskAgain(action)
    PROVE  Soundness'
<1>1. ASSUME DestGoesOn PROVE DiscoveryTyped'
  <2>1. policy' \in [{"file", "type"} -> FileActions \cup {Ask}]
    BY DEF AskAgain, Soundness, DiscoveryTyped
  <2> QED
    BY <1>1, <2>1, SeenStays, AgreedStays, HandedStays
       DEF AskAgain, Soundness, DiscoveryTyped
<1> QED
  BY <1>1, DecisionSound DEF AskAgain, Soundness, RestTyped, flags, history

LEMMA KeepSourceSound ==
    ASSUME Soundness, NEW action \in FileActions, NEW all \in BOOLEAN,
           KeepSource(action, all)
    PROVE  Soundness'
<1>1. /\ pc = "ask" /\ pc' = "place"
      /\ ConflictKind = "file" /\ Adopt(action, all)
      /\ cur' = [cur EXCEPT !.overwrite = TRUE]
      /\ Settle("source")
      /\ agreed' = agreed \cup {<<cur.target, cur.shown.data>>}
      /\ UNCHANGED <<disk, frames, reserved, queue, worker, journal, unpruned,
                     flags, completed, bounds, home>>
  BY DEF KeepSource, Chosen
<1>2. /\ cur \in Task /\ cur.target # <<>> /\ cur.source \in File
      /\ Seen(cur, dest, reserved)
  BY <1>1 DEF Soundness, DiscoveryTyped, ConflictKind
<1>3. /\ cur' \in Task /\ cur'.target = cur.target /\ cur'.source = cur.source
      /\ cur'.shown = cur.shown
  BY <1>1, <1>2 DEF Task
<1>4. Seen(cur', dest, reserved)
  BY <1>2, <1>3 DEF Seen
<1>5. Agreed(cur', dest', reserved', agreed')
  BY <1>1, <1>3, <1>4 DEF Agreed, disk
<1>6. DiscoveryTyped'
  BY <1>1, <1>2, <1>3, <1>5, PolicyTyped DEF Soundness, DiscoveryTyped, Places, Source
<1>7. verdict' \in [Source -> Verdicts]
  BY <1>1, VerdictTyped DEF Soundness, Verdicts
<1> QED
  BY <1>1, <1>6, <1>7, DecisionSound DEF Soundness, RestTyped, flags

LEMMA KeepDestinationSound ==
    ASSUME Soundness, NEW action \in FileActions, NEW all \in BOOLEAN,
           KeepDestination(action, all)
    PROVE  Soundness'
<1>1. /\ pc = "ask" /\ pc' = "place"
      /\ ConflictKind = "file" /\ Adopt(action, all)
      /\ Settle("destination")
      /\ UNCHANGED <<disk, frames, cur, reserved, queue, worker, journal, unpruned,
                     flags, completed, bounds, agreed, home>>
  BY DEF KeepDestination, Chosen
<1>2. cur.source \in File /\ ~cur.overwrite
  BY <1>1 DEF Soundness, DiscoveryTyped, ConflictKind
<1>3. DiscoveryTyped'
  BY <1>1, <1>2, PolicyTyped DEF Soundness, DiscoveryTyped, Places, Agreed
<1>4. verdict' \in [Source -> Verdicts]
  BY <1>1, VerdictTyped DEF Soundness, Verdicts
<1> QED
  BY <1>1, <1>3, <1>4, DecisionSound DEF Soundness, RestTyped, flags

LEMMA SkipSound ==
    ASSUME Soundness, NEW action \in FileActions, NEW all \in BOOLEAN,
           SkipFile(action, all) \/ SkipFolder(action, all)
    PROVE  Soundness'
<1>1. /\ pc' = "visit" /\ cur' = NoTask /\ Adopt(action, all) /\ Settle("skip")
      /\ completed' \in {completed, completed + 1}
      /\ UNCHANGED <<disk, frames, reserved, queue, worker, journal, unpruned,
                     flags, bounds, agreed, home>>
  BY DEF SkipFile, SkipFolder
<1>2. DiscoveryTyped'
  BY <1>1, PolicyTyped, NoTaskTyped DEF Soundness, DiscoveryTyped, Places
<1>3. verdict' \in [Source -> Verdicts]
  BY <1>1, VerdictTyped DEF Soundness, Verdicts
<1>4. completed' \in Nat
  BY <1>1 DEF Soundness, RestTyped
<1> QED
  BY <1>1, <1>2, <1>3, <1>4, DecisionSound DEF Soundness, RestTyped, flags

(* Keep both takes a free name: the first of those tried. *)
LEMMA KeepBothTargetFree ==
    ASSUME NEW path \in Seq(Names), path # <<>>, FreeTried(path) # {}
    PROVE  KeepBothTarget(path) \in Seq(Names) /\ KeepBothTarget(path) # <<>>
           /\ Free(KeepBothTarget(path))
           /\ \E i \in FreeTried(path) : KeepBothTarget(path) = Tried(path)[i]
<1> DEFINE name == path[Len(path)]
           others == [i \in DOMAIN Copies[name] |-> Sibling(path, Copies[name][i])]
           first == CHOOSE i \in FreeTried(path) : \A j \in FreeTried(path) : i <= j
<1>1. Len(path) \in 1 .. Len(path) /\ name \in Names
  BY EmptySeq, ElementOfSeq
<1>2. Copies[name] \in Seq(Names)
  BY <1>1, TransferAssumption DEF Names
<1>3. ASSUME NEW other \in Names
      PROVE  Sibling(path, other) \in Seq(Names) \ {<<>>}
  <2>1. /\ Sibling(path, other) \in Seq(Names)
        /\ Len(Sibling(path, other)) = Len(path)
    BY <1>1, ExceptSeq DEF Sibling
  <2> QED
    BY <1>1, <2>1
<1>4. others \in Seq(Seq(Names) \ {<<>>})
  <2>1. \A i \in 1 .. Len(Copies[name]) : Copies[name][i] \in Names
    BY <1>2, ElementOfSeq
  <2>2. DOMAIN Copies[name] = 1 .. Len(Copies[name]) /\ Len(Copies[name]) \in Nat
    BY <1>2, LenProperties
  <2> QED
    BY <1>3, <2>1, <2>2
<1>5. <<path>> \in Seq(Seq(Names) \ {<<>>})
  OBVIOUS
<1> HIDE DEF others
<1>6. Tried(path) \in Seq(Seq(Names) \ {<<>>})
  <2>1. Tried(path) = <<path>> \o others
    BY DEF Tried, others
  <2> QED
    BY <1>4, <1>5, <2>1, ConcatProperties
<1>7. FreeTried(path) \subseteq 1 .. Len(Tried(path)) /\ FreeTried(path) \subseteq Nat
  BY <1>6, LenProperties DEF FreeTried
<1>8. \E i \in FreeTried(path) : \A j \in FreeTried(path) : i <= j
  <2>1. PICK i \in FreeTried(path) : \A j \in FreeTried(path) : <<j, i>> \notin OpToRel(<, Nat)
    BY <1>7, WFMin, NatLessThanWellFounded
  <2>2. ASSUME NEW j \in FreeTried(path) PROVE i <= j
    <3>1. j \in Nat /\ i \in Nat /\ <<j, i>> \in Nat \X Nat
      BY <1>7
    <3>2. OpToRel(<, Nat) = {pair \in Nat \X Nat : pair[1] < pair[2]}
      BY DEF OpToRel
    <3>3. ~ (j < i)
      BY <2>1, <3>1, <3>2
    <3> QED
      BY <3>1, <3>3
  <2> QED
    BY <2>2
<1>9. first \in FreeTried(path)
  BY <1>8
<1>10. KeepBothTarget(path) = Tried(path)[first]
  BY DEF KeepBothTarget
<1> HIDE DEF first
<1>11. Free(Tried(path)[first])
  BY <1>9 DEF FreeTried
<1>12. Tried(path)[first] \in Seq(Names) \ {<<>>}
  BY <1>6, <1>7, <1>9, ElementOfSeq
<1> QED
  BY <1>9, <1>10, <1>11, <1>12

LEMMA KeepBothSound ==
    ASSUME Soundness, NEW all \in BOOLEAN, KeepBoth(all)
    PROVE  Soundness'
<1> DEFINE target == KeepBothTarget(cur.target)
<1>1. /\ pc = "ask" /\ pc' = "send" /\ cur.source \in File
      /\ Adopt("KeepBoth", all)
      /\ FreeTried(cur.target) # {}
      /\ cur' = [cur EXCEPT !.target = target]
      /\ reserved' = reserved \cup {target}
      /\ Found(cur.source, target)
      /\ UNCHANGED <<disk, frames, queue, worker, journal, unpruned, flags,
                     completed, bounds, verdict, agreed>>
  BY DEF KeepBoth, Chosen
<1>2. cur \in Task /\ cur.target \in Seq(Names) /\ cur.target # <<>> /\ ~cur.overwrite
  BY <1>1 DEF Soundness, DiscoveryTyped, Task, Names
<1>3. target \in Seq(Names) /\ target # <<>>
  BY <1>1, <1>2, KeepBothTargetFree
<1> HIDE DEF target
<1>4. /\ cur' \in Task /\ cur'.target = target /\ cur'.source = cur.source
      /\ ~cur'.overwrite
  BY <1>1, <1>2, <1>3 DEF Task, Names
<1>5. Handed(cur', dest', reserved', agreed')
  BY <1>1, <1>4 DEF Handed, Agreed
<1>6. "KeepBoth" \in FileActions
  BY DEF FileActions
<1>7. DiscoveryTyped'
  BY <1>1, <1>3, <1>4, <1>5, <1>6, PolicyTyped
     DEF Soundness, DiscoveryTyped, Places, Source, Handed
<1>8. home' \in [Source -> Seq(Names)]
  BY <1>1, <1>3 DEF Soundness, RestTyped, Found
<1> QED
  BY <1>1, <1>7, <1>8, DecisionSound DEF Soundness, RestTyped, flags

LEMMA KeepBothFolderSound ==
    ASSUME Soundness, NEW all \in BOOLEAN, KeepBothFolder(all)
    PROVE  Soundness'
<1> DEFINE target == KeepBothTarget(cur.target)
<1>1. /\ pc = "ask" /\ pc' = "visit" /\ cur.source \in Directory /\ cur' = NoTask
      /\ Adopt("KeepBoth", all)
      /\ FreeTried(cur.target) # {}
      /\ dest' = Put(target, Folder)
      /\ frames' = <<Enter(cur.source, target)>> \o frames
      /\ Found(cur.source, target)
      /\ UNCHANGED <<operation, src, reserved, queue, worker, journal, unpruned,
                     flags, completed, bounds, verdict, agreed>>
  BY DEF KeepBothFolder, Chosen
<1>2. cur.target \in Seq(Names) /\ cur.target # <<>> /\ frames \in Seq(Frames)
  BY <1>1 DEF Soundness, DiscoveryTyped, Task, Names
<1>3. target \in Seq(Names) /\ ~Exists(target)
  BY <1>1, <1>2, KeepBothTargetFree DEF Free
<1> HIDE DEF target
<1>4. DestTyped' /\ DestGoesOn
  BY <1>1, <1>3, PutGoesOn, FolderTyped DEF Soundness
<1>5. frames' \in Seq(Frames)
  BY <1>1, <1>2, <1>3, EnterTyped
<1>6. "KeepBoth" \in FileActions
  BY DEF FileActions
<1>7. DiscoveryTyped'
  BY <1>1, <1>5, <1>6, PolicyTyped, NoTaskTyped DEF Soundness, DiscoveryTyped, Places
<1>8. QueueTyped' /\ WorkersTyped'
  BY <1>1, <1>4, QueueStays, WorkersStay DEF Soundness
<1>9. home' \in [Source -> Seq(Names)]
  BY <1>1, <1>3 DEF Soundness, RestTyped, Found
<1>10. SourcesTyped' /\ RestTyped'
  BY <1>1, <1>9 DEF Soundness, SourcesTyped, RestTyped, flags, bounds
<1> QED
  BY <1>4, <1>7, <1>8, <1>10 DEF Soundness

LEMMA JournalTyped ==
    ASSUME RestTyped, NEW source \in File, NEW time \in 0 .. 9,
           journal' = Journaled(source, time)
    PROVE  journal' \in Seq([source : File, time : 0 .. 10])
<1>1. [source |-> source, time |-> JournalTime(time)] \in [source : File, time : 0 .. 10]
  BY DEF JournalTime, Unknown
<1> QED
  BY <1>1, AppendProperties DEF Journaled, RestTyped

LEMMA RecordKeptSound ==
    ASSUME Soundness, RecordKept
    PROVE  Soundness'
<1>1. /\ pc = "place" /\ pc' = "visit" /\ cur' = NoTask
      /\ journal' = Journaled(cur.source, cur.time) /\ completed' = completed + 1
      /\ UNCHANGED <<disk, frames, policy, reserved, queue, worker, unpruned,
                     flags, bounds, history>>
  BY DEF RecordKept
<1>2. cur.source \in File /\ cur.time \in 0 .. 9
  BY <1>1 DEF Soundness, DiscoveryTyped, Task
<1>3. DestTyped' /\ DestGoesOn
  BY <1>1, DestStays DEF Soundness, disk, history
<1>4. QueueTyped' /\ WorkersTyped' /\ SourcesTyped'
  BY <1>1, <1>3, QueueStays, WorkersStay DEF Soundness, SourcesTyped, disk
<1>5. DiscoveryTyped'
  BY <1>1, NoTaskTyped DEF Soundness, DiscoveryTyped, Places
<1>6. journal' \in Seq([source : File, time : 0 .. 10]) /\ completed' \in Nat
  <2>1. RestTyped
    BY DEF Soundness
  <2>2. journal' \in Seq([source : File, time : 0 .. 10])
    BY <1>1, <1>2, <2>1, JournalTyped
  <2>3. completed' \in Nat
    BY <1>1, <2>1 DEF RestTyped
  <2> QED
    BY <2>2, <2>3
<1>7. RestTyped'
  BY <1>1, <1>6 DEF Soundness, RestTyped, disk, flags, bounds, history
<1> QED
  BY <1>3, <1>4, <1>5, <1>7 DEF Soundness

(* What has been published is reserved: it is not handed out again. *)
LEMMA ReserveSound ==
    ASSUME Soundness, Reserve
    PROVE  Soundness'
<1>1. /\ pc = "place" /\ pc' = "send" /\ cur.target \notin reserved
      /\ reserved' = reserved \cup {cur.target}
      /\ UNCHANGED <<disk, frames, cur, policy, queue, worker, journal,
                     unpruned, flags, completed, bounds, history>>
  BY DEF Reserve
<1>2. ASSUME DestGoesOn PROVE DiscoveryTyped'
  <2>1. Agreed(cur, dest, reserved, agreed)
    BY <1>1 DEF Soundness, DiscoveryTyped
  <2>2. cur.overwrite => cur.shown.time # PublishTime
    BY <1>1, <2>1 DEF Agreed, Seen
  <2>3. Agreed(cur', dest', reserved', agreed')
    BY <1>1, <1>2, <2>1, AgreedStays
  <2>4. Handed(cur', dest', reserved', agreed')
    BY <1>1, <2>2, <2>3 DEF Handed
  <2> QED
    BY <1>1, <2>3, <2>4 DEF Soundness, DiscoveryTyped, Places
<1> QED
  BY <1>1, <1>2, DecisionSound DEF Soundness, RestTyped, flags, history

LEMMA EnqueueSound ==
    ASSUME Soundness, Enqueue
    PROVE  Soundness'
<1>1. /\ pc = "send" /\ Len(queue) < Capacity /\ queue' = Append(queue, cur)
      /\ pc' = "visit" /\ cur' = NoTask
      /\ UNCHANGED <<disk, frames, policy, reserved, worker, journal, unpruned,
                     flags, completed, bounds, history>>
  BY DEF Enqueue, Room
<1>2. /\ cur \in Task /\ cur.source \in File
      /\ Handed(cur, dest, reserved, agreed)
  BY <1>1 DEF Soundness, DiscoveryTyped
<1>3. DestTyped' /\ DestGoesOn
  BY <1>1, DestStays DEF Soundness, disk, history
<1>4. QueueTyped'
  <2>1. queue \in Seq(Task)
    BY DEF Soundness, QueueTyped
  <2>2. /\ queue' \in Seq(Task) /\ Len(queue') = Len(queue) + 1
        /\ \A i \in 1 .. Len(queue) : queue'[i] = queue[i]
        /\ queue'[Len(queue) + 1] = cur
    BY <1>1, <1>2, <2>1, AppendProperties
  <2>3. Len(queue') <= Capacity
    BY <1>1, <2>1, <2>2, TransferAssumption
  <2>4. ASSUME NEW i \in 1 .. Len(queue')
        PROVE  queue'[i].source \in File /\ Handed(queue'[i], dest', reserved', agreed')
    <3>1. CASE i \in 1 .. Len(queue)
      BY <1>3, <2>2, <3>1, HandedStays DEF Soundness, QueueTyped
    <3>2. CASE i = Len(queue) + 1
      BY <1>2, <1>3, <2>2, <3>2, HandedStays
    <3> QED
      BY <2>1, <2>2, <3>1, <3>2
  <2> QED
    BY <2>2, <2>3, <2>4 DEF QueueTyped
<1>5. WorkersTyped' /\ SourcesTyped'
  BY <1>1, <1>3, WorkersStay DEF Soundness, SourcesTyped, disk
<1>6. DiscoveryTyped'
  BY <1>1, NoTaskTyped DEF Soundness, DiscoveryTyped, Places
<1>7. RestTyped'
  BY <1>1 DEF Soundness, RestTyped, disk, flags, bounds, history
<1> QED
  BY <1>3, <1>4, <1>5, <1>6, <1>7 DEF Soundness

-----------------------------------------------------------------------------
(* Workers. *)

\* A step of one worker that leaves the disk alone.
LEMMA WorkerSound ==
    ASSUME Soundness, NEW w \in Worker, NEW next \in Workers,
           worker' = [worker EXCEPT ![w] = next],
           next.step # "idle" =>
               /\ next.task.source \in File
               /\ Handed(next.task, dest, reserved, agreed)
               /\ Copied(next, src),
           UNCHANGED <<disk, discovery, history>>,
           QueueTyped', RestTyped'
    PROVE  Soundness'
<1>1. DestTyped' /\ DestGoesOn
  BY DestStays DEF Soundness, disk, discovery, history
<1>2. DiscoveryTyped' /\ SourcesTyped'
  BY <1>1, DiscoveryStays DEF Soundness, SourcesTyped, disk, discovery
<1>3. WorkersTyped'
  BY DEF Soundness, WorkersTyped, disk, discovery, history
<1> QED
  BY <1>1, <1>2, <1>3 DEF Soundness

LEMMA ReceiveSound ==
    ASSUME Soundness, NEW w \in Worker, Receive(w)
    PROVE  Soundness'
<1>1. /\ queue # <<>> /\ queue' = Tail(queue)
      /\ UNCHANGED <<disk, discovery, journal, unpruned, flags, completed,
                     bounds, history>>
  BY DEF Receive
<1>2. /\ queue \in Seq(Task) /\ Head(queue) = queue[1] /\ 1 \in 1 .. Len(queue)
      /\ queue' \in Seq(Task) /\ Len(queue') = Len(queue) - 1
      /\ \A i \in 1 .. Len(queue') :
            i + 1 \in 1 .. Len(queue) /\ queue'[i] = queue[i + 1]
  BY <1>1, HeadTailProperties DEF Soundness, QueueTyped
<1>3. /\ Head(queue) \in Task /\ Head(queue).source \in File
      /\ Handed(Head(queue), dest, reserved, agreed)
  BY <1>2 DEF Soundness, QueueTyped
<1>4. QueueTyped'
  <2>1. Len(queue') <= Capacity
    BY <1>2, TransferAssumption DEF Soundness, QueueTyped
  <2> QED
    BY <1>1, <1>2, <2>1 DEF Soundness, QueueTyped, disk, discovery, history
<1>5. RestTyped'
  BY <1>1 DEF Soundness, RestTyped, disk, flags, bounds, history
<1>6. CASE UNCHANGED worker
  <2>1. DestTyped' /\ DestGoesOn
    BY <1>1, DestStays DEF Soundness, disk, discovery, history
  <2> QED
    BY <1>1, <1>4, <1>5, <1>6, <2>1, DiscoveryStays, WorkersStay
       DEF Soundness, SourcesTyped, disk, discovery
<1>7. CASE worker' = [worker EXCEPT ![w] =
                 [step |-> "open", task |-> Head(queue), data |-> <<Other, 0>>]]
  <2>1. [step |-> "open", task |-> Head(queue), data |-> <<Other, 0>>] \in Workers
    BY <1>3 DEF Workers, Steps, Data
  <2> QED
    BY <1>1, <1>3, <1>4, <1>5, <1>7, <2>1, WorkerSound DEF Copied
<1> QED
  BY <1>6, <1>7 DEF Receive

LEMMA IdleTyped == Idle \in Workers /\ Idle.step = "idle"
  BY NoTaskTyped DEF Idle, Workers, Steps, Data

\* The task of a worker that is not idle.
LEMMA TaskTyped ==
    ASSUME Soundness, NEW w \in Worker, ~At(w, "idle")
    PROVE  /\ worker[w] \in Workers /\ TaskOf(w) \in Task
           /\ TaskOf(w).source \in File /\ TaskOf(w).source \in Source
           /\ Handed(TaskOf(w), dest, reserved, agreed)
           /\ Copied(worker[w], src)
  BY DEF Soundness, WorkersTyped, Workers, At, TaskOf, Source

LEMMA SourceVersions ==
    ASSUME SourcesTyped, NEW s \in File
    PROVE  \/ src[s].data = <<s, 0>> /\ src[s].time # EditTime
           \/ src[s].data = <<s, 1>> /\ src[s].time = EditTime
<1>1. StartTime[s] \in 0 .. 7
  BY TransferAssumption
<1> QED
  BY <1>1 DEF SourcesTyped, EditTime

\* A source that matches its task is of the version the task was made for.
LEMMA MatchingVersion ==
    ASSUME Soundness, NEW task \in Task, task.source \in File, SourceMatches(task)
    PROVE  src[task.source].time = task.time
  BY DEF SourceMatches, Matches, Task, Unknown

LEMMA CopyingSound ==
    ASSUME Soundness, NEW w \in Worker, Open(w) \/ ReadSource(w) \/ CheckCopy(w)
    PROVE  Soundness'
<1>1. /\ ~At(w, "idle")
      /\ UNCHANGED <<disk, discovery, queue, journal, unpruned, flags,
                     completed, bounds, history>>
  BY DEF Open, ReadSource, CheckCopy, At
<1>2. QueueTyped' /\ RestTyped'
  <2>1. DestGoesOn
    BY <1>1, DestStays DEF Soundness, disk, discovery, history
  <2> QED
    BY <1>1, <2>1, QueueStays DEF Soundness, RestTyped, disk, flags, bounds, history
<1>3. /\ worker \in [Worker -> Workers] /\ worker[w] \in Workers /\ TaskOf(w) \in Task
      /\ TaskOf(w).source \in File /\ Handed(TaskOf(w), dest, reserved, agreed)
      /\ Copied(worker[w], src)
  BY <1>1, TaskTyped DEF Soundness, WorkersTyped
<1>4. \/ src[TaskOf(w).source].data = <<TaskOf(w).source, 0>>
         /\ src[TaskOf(w).source].time # EditTime
      \/ src[TaskOf(w).source].data = <<TaskOf(w).source, 1>>
         /\ src[TaskOf(w).source].time = EditTime
  BY <1>3, SourceVersions DEF Soundness
<1>5. CASE Open(w)
  <2> DEFINE next == [worker[w] EXCEPT !.step = "read"]
  <2>1. /\ next \in Workers /\ next.task = TaskOf(w) /\ next.step = "read"
        /\ worker' = [worker EXCEPT ![w] = next]
    BY <1>3, <1>5 DEF Workers, Steps, Open, Goes, TaskOf
  <2>2. Copied(next, src)
    BY <1>3, <1>5, <2>1, MatchingVersion DEF Copied, Open
  <2> QED
    BY <1>1, <1>2, <1>3, <2>1, <2>2, WorkerSound
<1>6. CASE ReadSource(w)
  <2> DEFINE read == src[TaskOf(w).source].data
             next == [worker[w] EXCEPT !.step = "check", !.data = read]
  <2>1. read \in Data
    BY <1>3 DEF Soundness, SourcesTyped, Source, Entry
  <2>2. /\ next \in Workers /\ next.task = TaskOf(w) /\ next.step = "check"
        /\ next.data = read
    BY <1>3, <2>1 DEF Workers, Steps, TaskOf
  <2>3. worker' = [worker EXCEPT ![w] = next]
    BY <1>3, <1>6 DEF ReadSource, TaskOf, Workers
  <2>4. TaskOf(w).time = EditTime => src[TaskOf(w).source].time = EditTime
    BY <1>3, <1>6 DEF Copied, ReadSource, At, TaskOf
  <2>5. Copied(next, src)
    BY <1>3, <1>4, <2>2, <2>4 DEF Copied
  <2> QED
    BY <1>1, <1>2, <1>3, <2>2, <2>3, <2>5, WorkerSound
<1>7. CASE CheckCopy(w)
  <2> DEFINE next == [worker[w] EXCEPT !.step = "publish"]
  <2>1. /\ next \in Workers /\ next.task = TaskOf(w) /\ next.step = "publish"
        /\ next.data = worker[w].data
        /\ worker' = [worker EXCEPT ![w] = next]
    BY <1>3, <1>7 DEF Workers, Steps, CheckCopy, Goes, TaskOf
  <2>2. Copied(next, src)
    BY <1>3, <1>7, <2>1, MatchingVersion DEF Copied, CheckCopy, At, TaskOf
  <2> QED
    BY <1>1, <1>2, <1>3, <2>1, <2>2, WorkerSound
<1> QED
  BY <1>5, <1>6, <1>7

(* What is replaced is what the task shows, and was agreed. *)
LEMMA PublishReplaces ==
    ASSUME Soundness, NEW w \in Worker, Publish(w), Exists(TaskOf(w).target)
    PROVE  /\ dest[TaskOf(w).target].time # PublishTime
           /\ <<TaskOf(w).target, dest[TaskOf(w).target].data>> \in agreed
<1> DEFINE task == TaskOf(w)
<1>1. task \in Task /\ Handed(task, dest, reserved, agreed)
  BY TaskTyped DEF Publish, At
<1>2. task.overwrite /\ Matches(dest[task.target], task.shown.kind, task.shown.time)
  BY DEF Publish, TargetMatches
<1>3. Seen(task, dest, reserved) /\ <<task.target, task.shown.data>> \in agreed
      /\ task.shown.time # PublishTime
  BY <1>1, <1>2 DEF Handed, Agreed
<1>4. task.shown.time \in 0 .. 9
  BY <1>1 DEF Task, Entry
<1>5. dest[task.target].kind = "file" /\ dest[task.target].time = task.shown.time
  BY <1>2, <1>3, <1>4 DEF Matches, Seen, Unknown
<1> QED
  BY <1>3, <1>5 DEF Seen

LEMMA PublishSound ==
    ASSUME Soundness, NEW w \in Worker, Publish(w)
    PROVE  Soundness'
<1> DEFINE task == TaskOf(w)
           new == FileOf(worker[w].data, PublishTime)
           next == [worker[w] EXCEPT !.step = "record"]
<1>1. /\ ~At(w, "idle") /\ At(w, "publish")
      /\ dest' = Put(task.target, new)
      /\ worker' = [worker EXCEPT ![w].step = "record"]
      /\ UNCHANGED <<operation, src, discovery, queue, journal, unpruned,
                     flags, completed, bounds, history>>
  BY DEF Publish, Goes, At
<1>2. /\ worker \in [Worker -> Workers] /\ worker[w] \in Workers
      /\ task.source \in File /\ Handed(task, dest, reserved, agreed)
      /\ Copied(worker[w], src)
  BY <1>1, TaskTyped DEF Soundness, WorkersTyped
<1>3. /\ new \in Entry /\ Dated(new) /\ new.time = PublishTime /\ new.kind = "file"
  <2>1. worker[w].data \in Data /\ worker[w].data[1] \in File
    BY <1>1, <1>2 DEF Workers, Copied, At, TaskOf
  <2>2. worker[w].data # <<Other, 0>>
    BY <2>1, TransferAssumption
  <2> QED
    BY <2>1, <2>2 DEF FileOf, Entry, Dated, PublishTime, EditTime
<1>4. /\ next \in Workers /\ next.task = task /\ next.step = "record"
      /\ worker' = [worker EXCEPT ![w] = next]
  BY <1>1, <1>2 DEF Workers, Steps, TaskOf
<1> HIDE DEF new, next
<1>5. task.target \in reserved
  BY <1>2 DEF Handed
<1>6. DestTyped' /\ DestGoesOn
  <2>1. DestTyped /\ reserved' = reserved /\ agreed' = agreed
    BY <1>1 DEF Soundness, discovery, history
  <2>2. CASE ~Exists(task.target)
    BY <1>1, <1>3, <1>5, <2>1, <2>2, PutGoesOn
  <2>3. CASE Exists(task.target)
    <3>1. Rewritten(dest[task.target], new)
      BY <1>3, <2>3, PublishReplaces DEF Rewritten
    <3>2. /\ DOMAIN dest' = DOMAIN dest
          /\ dest'[task.target] = new
          /\ \A p \in DOMAIN dest : p # task.target => dest'[p] = dest[p]
      BY <1>1, <2>3 DEF Put, Exists
    <3> QED
      BY <1>3, <1>5, <2>1, <3>1, <3>2 DEF DestTyped, DestGoesOn
  <2> QED
    BY <2>2, <2>3
<1>7. DiscoveryTyped'
  BY <1>1, <1>6, DiscoveryStays DEF Soundness, discovery
<1>8. QueueTyped'
  BY <1>1, <1>6, QueueStays DEF Soundness
<1>9. WorkersTyped'
  <2> SUFFICES ASSUME NEW v \in Worker, worker'[v].step # "idle"
               PROVE  /\ worker'[v].task.source \in File
                      /\ Handed(worker'[v].task, dest', reserved', agreed')
                      /\ Copied(worker'[v], src')
    BY <1>2, <1>4 DEF WorkersTyped
  <2>1. CASE v = w
    <3>1. worker'[v] = next /\ Copied(next, src')
      BY <1>2, <1>4, <2>1 DEF Copied
    <3> QED
      BY <1>2, <1>4, <1>6, <3>1, HandedStays
  <2>2. CASE v # w
    <3>1. worker'[v] = worker[v]
      BY <1>2, <1>4, <2>2
    <3> QED
      BY <1>1, <1>6, <3>1, HandedStays DEF Soundness, WorkersTyped
  <2> QED
    BY <2>1, <2>2
<1>10. SourcesTyped' /\ RestTyped'
  BY <1>1 DEF Soundness, SourcesTyped, RestTyped, flags, bounds, history
<1> QED
  BY <1>6, <1>7, <1>8, <1>9, <1>10 DEF Soundness

LEMMA EndsSound ==
    ASSUME Soundness, NEW w \in Worker, RecordCopied(w) \/ CopyFails(w)
    PROVE  Soundness'
<1>1. /\ ~At(w, "idle") /\ worker' = [worker EXCEPT ![w] = Idle]
      /\ UNCHANGED <<disk, discovery, queue, unpruned, cancelled, edits, history>>
  BY DEF RecordCopied, CopyFails, Rest, At, flags, bounds
<1>2. QueueTyped'
  <2>1. DestGoesOn
    BY <1>1, DestStays DEF Soundness, disk, discovery, history
  <2> QED
    BY <1>1, <2>1, QueueStays DEF Soundness
<1>3. RestTyped'
  <2>1. CASE RecordCopied(w)
    <3>1. TaskOf(w).source \in File /\ TaskOf(w).time \in 0 .. 9
      BY <1>1, TaskTyped DEF Task
    <3>2. RestTyped
      BY DEF Soundness
    <3>3. journal' \in Seq([source : File, time : 0 .. 10])
      BY <2>1, <3>1, <3>2, JournalTyped DEF RecordCopied
    <3> QED
      BY <1>1, <2>1, <3>2, <3>3
         DEF RecordCopied, RestTyped, disk, flags, bounds, history
  <2>2. CASE CopyFails(w)
    <3>1. stopped' \in BOOLEAN /\ failed' \in BOOLEAN
      BY <2>2 DEF CopyFails
    <3>2. faults' \in 0 .. Faults
      BY <2>2, TransferAssumption DEF CopyFails, Soundness, RestTyped
    <3> QED
      BY <1>1, <2>2, <3>1, <3>2 DEF CopyFails, Soundness, RestTyped, disk, history
  <2> QED
    BY <2>1, <2>2
<1> QED
  BY <1>1, <1>2, <1>3, IdleTyped, WorkerSound

-----------------------------------------------------------------------------
(* Cleanup, the user and other programs. *)

\* A step that leaves destination, queue, workers and decisions alone.
LEMMA AsideSound ==
    ASSUME Soundness, SourcesTyped', RestTyped',
           \A s \in File : src[s].time = EditTime => src'[s].time = EditTime,
           pc' \in {pc, "cleanup", "prune", "done"},
           UNCHANGED <<dest, frames, cur, policy, reserved, queue, worker, agreed>>
    PROVE  Soundness'
<1>1. DestTyped' /\ DestGoesOn
  BY DestStays DEF Soundness
<1> QED
  BY <1>1, DiscoveryStays, QueueStays, WorkersStay DEF Soundness

LEMMA CleanupSound ==
    ASSUME Soundness, Cleanup
    PROVE  Soundness'
<1>1. SourcesTyped /\ RestTyped
  BY DEF Soundness
<1> USE DEF disk, discovery, flags, bounds, history
<1>2. CASE Join
  <2>1. Cardinality(Source) \in Nat
    BY TransferAssumption, FS_CardinalityType
  <2>2. completed' \in Nat /\ pc' \in {"cleanup", "done"}
    BY <1>1, <1>2, <2>1 DEF Join, RestTyped
  <2> QED
    BY <1>1, <1>2, <2>2, AsideSound DEF Join, SourcesTyped, RestTyped
<1>3. CASE RemoveSource
  <2>1. /\ Oldest \in [source : File, time : 0 .. 10]
        /\ journal' \in Seq([source : File, time : 0 .. 10])
    BY <1>1, <1>3, HeadTailProperties DEF RemoveSource, Oldest, RestTyped
  <2>2. src' = [src EXCEPT ![Oldest.source].kind = "gone"]
    BY <1>3 DEF RemoveSource
  <2>3. SourcesTyped' /\ \A s \in File : src'[s].time = src[s].time
    BY <1>1, <2>1, <2>2 DEF SourcesTyped, Source, Entry
  <2> QED
    BY <1>1, <1>3, <2>1, <2>3, AsideSound DEF RemoveSource, RestTyped
<1>4. CASE CleanupFails
  <2>1. faults' \in 0 .. Faults
    BY <1>1, <1>4, TransferAssumption DEF CleanupFails, RestTyped
  <2>2. failed' \in BOOLEAN /\ stopped' \in BOOLEAN
    BY <1>4 DEF CleanupFails
  <2> QED
    BY <1>1, <1>4, <2>1, <2>2, AsideSound DEF CleanupFails, SourcesTyped, RestTyped
<1>5. CASE CleanupEnds \/ PruneEnds
  BY <1>1, <1>5, AsideSound DEF CleanupEnds, PruneEnds, SourcesTyped, RestTyped
<1>6. ASSUME NEW d \in Directory, Prune(d) PROVE Soundness'
  <2>1. src' = src \/ src' = [src EXCEPT ![d].kind = "gone"]
    BY <1>6 DEF Prune
  <2>2. SourcesTyped' /\ \A s \in File : src'[s].time = src[s].time
    <3>1. CASE src' = src
      BY <1>1, <3>1 DEF SourcesTyped
    <3>2. CASE src' = [src EXCEPT ![d].kind = "gone"]
      <4>1. d \in Source /\ d \notin File
        BY TransferAssumption DEF Source
      <4>2. [src[d] EXCEPT !.kind = "gone"] \in Entry
        BY <1>1, <4>1 DEF SourcesTyped, Entry
      <4>3. src' \in [Source -> Entry]
        BY <1>1, <3>2, <4>2 DEF SourcesTyped
      <4>4. \A s \in File : src'[s] = src[s]
        BY <1>1, <3>2, <4>1 DEF SourcesTyped, Source
      <4> QED
        BY <1>1, <4>3, <4>4 DEF SourcesTyped
    <3> QED
      BY <2>1, <3>1, <3>2
  <2> QED
    BY <1>1, <1>6, <2>2, AsideSound DEF Prune, RestTyped
<1> QED
  BY <1>2, <1>3, <1>4, <1>5, <1>6 DEF Cleanup

LEMMA OutsideSound ==
    ASSUME Soundness, Outside
    PROVE  Soundness'
<1>1. SourcesTyped /\ RestTyped /\ DestTyped
  BY DEF Soundness
<1> USE DEF disk, discovery, flags, bounds, history
<1>2. CASE Cancel
  <2>1. cancelled' \in BOOLEAN
    BY <1>2 DEF Cancel
  <2> QED
    BY <1>1, <1>2, <2>1, AsideSound DEF Cancel, SourcesTyped, RestTyped
<1>3. ASSUME NEW s \in File, EditSource(s) PROVE Soundness'
  <2>1. /\ src' = [src EXCEPT ![s] = FileOf(<<s, 1>>, EditTime)]
        /\ edits' \in 0 .. Edits
    BY <1>1, <1>3, TransferAssumption DEF EditSource, RestTyped
  <2>2. FileOf(<<s, 1>>, EditTime) \in Entry
    BY DEF FileOf, Entry, Data, EditTime
  <2>3. SourcesTyped' /\ \A t \in File : src[t].time = EditTime => src'[t].time = EditTime
    BY <1>1, <2>1, <2>2 DEF SourcesTyped, Source, FileOf
  <2> QED
    BY <1>1, <1>3, <2>1, <2>3, AsideSound DEF EditSource, RestTyped
<1>4. FileOf(<<Other, 1>>, EditTime) \in Entry
  BY DEF FileOf, Entry, Data, EditTime
<1>5. Dated(FileOf(<<Other, 1>>, EditTime)) /\ FileOf(<<Other, 1>>, EditTime).time # PublishTime
  BY DEF FileOf, Dated, EditTime, PublishTime
<1>6. ASSUME DestTyped', DestGoesOn, edits' \in 0 .. Edits,
             UNCHANGED <<operation, src, discovery, queue, worker, journal,
                         unpruned, flags, completed, faults, history>>
      PROVE  Soundness'
  BY <1>1, <1>6, DiscoveryStays, QueueStays, WorkersStay
     DEF Soundness, SourcesTyped, RestTyped
<1>7. ASSUME NEW path \in DOMAIN dest, EditDestination(path) PROVE Soundness'
  <2>1. /\ dest[path].kind = "file" /\ dest[path].data = <<Other, 0>>
        /\ dest' = [dest EXCEPT ![path] = FileOf(<<Other, 1>>, EditTime)]
        /\ edits' \in 0 .. Edits
    BY <1>1, <1>7, TransferAssumption DEF EditDestination, RestTyped
  <2>2. Rewritten(dest[path], FileOf(<<Other, 1>>, EditTime))
    BY <1>1, <2>1 DEF DestTyped, Dated, Rewritten, FileOf
  <2>3. DestTyped' /\ DestGoesOn
    BY <1>1, <1>4, <1>5, <1>7, <2>1, <2>2 DEF DestTyped, DestGoesOn, EditDestination
  <2> QED
    BY <1>6, <1>7, <2>1, <2>3 DEF EditDestination
<1>8. ASSUME NEW path, CreateDestination(path) PROVE Soundness'
  <2>1. edits' \in 0 .. Edits
    BY <1>1, <1>8, TransferAssumption DEF CreateDestination, RestTyped
  <2>2. DestTyped' /\ DestGoesOn
    BY <1>1, <1>4, <1>5, <1>8, PutGoesOn DEF CreateDestination
  <2> QED
    BY <1>6, <1>8, <2>1, <2>2 DEF CreateDestination
<1> QED
  BY <1>2, <1>3, <1>7, <1>8 DEF Outside

-----------------------------------------------------------------------------
LEMMA NextSound == Soundness /\ [Next]_vars => Soundness'
<1> SUFFICES ASSUME Soundness, [Next]_vars PROVE Soundness'
  OBVIOUS
<1>1. CASE Discovery
  BY <1>1, AbortSound, LeaveSound, VisitDirectorySound, VisitFileSound, AskAgainSound,
     KeepSourceSound, KeepDestinationSound, SkipSound, KeepBothSound,
     KeepBothFolderSound, RecordKeptSound, ReserveSound, EnqueueSound DEF Discovery
<1>2. ASSUME NEW w \in Worker, Work(w) PROVE Soundness'
  BY <1>2, ReceiveSound, CopyingSound, PublishSound, EndsSound DEF Work
<1>3. CASE UNCHANGED vars
  <2>1. SourcesTyped' /\ RestTyped'
    BY <1>3 DEF Soundness, SourcesTyped, RestTyped, vars, disk, flags, bounds, history
  <2> QED
    BY <1>3, <2>1, AsideSound DEF vars, disk, discovery, history
<1> QED
  BY <1>1, <1>2, <1>3, CleanupSound, OutsideSound DEF Next, Finished

LEMMA AlwaysSound == Spec => []Soundness
<1> QED
  BY InitSound, NextSound, PTL DEF Spec

(* Every variable keeps its type, for any tree, names and destination. *)
THEOREM TransferTypeCorrect == Spec => []TypeOK
<1>1. Soundness => TypeOK
  <2> SUFFICES ASSUME Soundness PROVE TypeOK
    OBVIOUS
  <2>1. DOMAIN queue = 1 .. Len(queue)
    BY LenProperties DEF Soundness, QueueTyped
  <2> QED
    BY <2>1
       DEF Names, Soundness, TypeOK, SourcesTyped, DestTyped, DiscoveryTyped,
           QueueTyped, WorkersTyped, RestTyped, Workers, Steps, Places, Verdicts,
           At, TaskOf
<1> QED
  BY <1>1, AlwaysSound, PTL

(* What is published is the version whose metadata discovery had seen, however
   the source is written during its copy. *)
THEOREM OnlySeenVersionsArePublished == Spec => []CopyIsTheSeenVersion
<1>1. Soundness => CopyIsTheSeenVersion
  BY TaskTyped DEF CopyIsTheSeenVersion, Copied, At, TaskOf
<1> QED
  BY <1>1, AlwaysSound, PTL

(* No step replaces a file at the destination but as the user agreed, and in
   the version that was shown. *)
THEOREM NothingElseIsReplaced == Spec => ReplacedOnlyAsAgreed
<1>1. Soundness /\ [Next]_vars =>
        [\A p \in DOMAIN dest : dest[p].kind = "file" =>
            /\ p \in DOMAIN dest'
            /\ \/ dest'[p] = dest[p]
               \/ dest'[p].data = <<Other, 1>>
               \/ <<p, dest[p].data>> \in agreed]_vars
  <2> SUFFICES ASSUME Soundness, Next, NEW p \in DOMAIN dest, dest[p].kind = "file"
               PROVE  /\ p \in DOMAIN dest'
                      /\ \/ dest'[p] = dest[p]
                         \/ dest'[p].data = <<Other, 1>>
                         \/ <<p, dest[p].data>> \in agreed
    OBVIOUS
  <2> USE DEF disk
  <2>1. CASE UNCHANGED dest
    BY <2>1
  <2>2. ASSUME NEW path, NEW entry, ~Exists(path), dest' = Put(path, entry)
        PROVE  p \in DOMAIN dest' /\ dest'[p] = dest[p]
    BY <2>2 DEF Put, Exists
  <2>3. CASE Discovery
    <3>1. ASSUME NEW d \in Directory, VisitDirectory(d)
          PROVE  p \in DOMAIN dest' /\ dest'[p] = dest[p]
      BY <2>2, <3>1 DEF VisitDirectory
    <3>2. ASSUME NEW all \in BOOLEAN, KeepBothFolder(all)
          PROVE  p \in DOMAIN dest' /\ dest'[p] = dest[p]
      <4>1. cur.target \in Seq(Names) /\ cur.target # <<>>
        BY <3>2 DEF Soundness, DiscoveryTyped, Task, Names, KeepBothFolder, Chosen
      <4>2. ~Exists(KeepBothTarget(cur.target))
        BY <3>2, <4>1, KeepBothTargetFree DEF KeepBothFolder, Free
      <4> QED
        BY <2>2, <3>2, <4>2 DEF KeepBothFolder
    <3> QED
      BY <2>1, <2>3, <3>1, <3>2
         DEF Discovery, VisitInterrupted, VisitFails, LeaveDirectory, VisitFile,
             AskAgain, KeepSource, KeepDestination, SkipFile, SkipFolder, KeepBoth,
             ResolveFails, RecordKept, Reserve, PlaceFails, Enqueue, EndDiscovery
  <2>4. ASSUME NEW w \in Worker, Work(w)
        PROVE  p \in DOMAIN dest' /\ (dest'[p] = dest[p] \/ <<p, dest[p].data>> \in agreed)
    <3>1. CASE Publish(w)
      <4> DEFINE new == FileOf(worker[w].data, PublishTime)
      <4>1. dest' = Put(TaskOf(w).target, new)
        BY <3>1 DEF Publish
      <4>2. p \in DOMAIN dest' /\ (p # TaskOf(w).target => dest'[p] = dest[p])
        BY <4>1 DEF Put
      <4>3. p = TaskOf(w).target => <<p, dest[p].data>> \in agreed
        BY <3>1, PublishReplaces DEF Exists
      <4> QED
        BY <4>2, <4>3
    <3> QED
      BY <2>1, <2>4, <3>1
         DEF Work, Receive, Open, ReadSource, CheckCopy, RecordCopied, CopyFails
  <2>5. CASE Cleanup
    BY <2>1, <2>5
       DEF Cleanup, Join, RemoveSource, CleanupFails, CleanupEnds, Prune, PruneEnds
  <2>6. CASE Outside
    <3>1. ASSUME NEW path \in DOMAIN dest, EditDestination(path)
          PROVE  p \in DOMAIN dest' /\ (dest'[p] = dest[p] \/ dest'[p].data = <<Other, 1>>)
      BY <3>1 DEF EditDestination, FileOf
    <3>2. ASSUME NEW path, CreateDestination(path)
          PROVE  p \in DOMAIN dest' /\ dest'[p] = dest[p]
      BY <2>2, <3>2 DEF CreateDestination
    <3> QED
      BY <2>1, <2>6, <3>1, <3>2 DEF Outside, Cancel, EditSource
  <2> QED
    BY <2>1, <2>3, <2>4, <2>5, <2>6 DEF Next, Finished, vars
<1> QED
  BY <1>1, AlwaysSound, PTL DEF Spec, ReplacedOnlyAsAgreed

-----------------------------------------------------------------------------
(* The trees below the directories. *)

Nodes == Directory \cup {Top}

LEMMA BelowIsLeast ==
    ASSUME NEW d \in Nodes, NEW S \in SUBSET Source,
           Children[d] \subseteq S, HoldsItsTrees(S)
    PROVE  Below[d] \subseteq S
  BY DEF Below, Nodes

LEMMA BelowHolds ==
    ASSUME NEW d \in Nodes
    PROVE  /\ Below[d] \subseteq Source /\ Children[d] \subseteq Below[d]
           /\ HoldsItsTrees(Below[d])
           /\ Top \notin Below[d]
<1>1. Children[d] \subseteq Source
  BY TransferAssumption DEF Nodes
<1>2. Below[d] \subseteq Source /\ Children[d] \subseteq Below[d]
  BY <1>1 DEF Below, Nodes
<1>3. ASSUME NEW e \in Directory \cap Below[d], NEW s \in Children[e]
      PROVE  s \in Below[d]
  <2>1. s \in Source
    BY TransferAssumption
  <2>2. ASSUME NEW S \in SUBSET Source, Children[d] \subseteq S, HoldsItsTrees(S)
        PROVE  s \in S
    <3>1. e \in S
      BY <2>2, BelowIsLeast
    <3> QED
      BY <2>2, <3>1 DEF HoldsItsTrees
  <2> QED
    BY <2>1, <2>2 DEF Below, Nodes
<1> QED
  BY <1>2, <1>3, TransferAssumption DEF HoldsItsTrees

LEMMA BelowIsNested ==
    ASSUME NEW d \in Nodes, NEW e \in Directory \cap Below[d]
    PROVE  Below[e] \subseteq Below[d]
<1>1. Below[d] \subseteq Source /\ HoldsItsTrees(Below[d])
  BY BelowHolds
<1>2. Children[e] \subseteq Below[d]
  BY <1>1 DEF HoldsItsTrees
<1> QED
  BY <1>1, <1>2, BelowIsLeast DEF Nodes

LEMMA BelowSplits ==
    ASSUME NEW d \in Nodes, NEW s \in Below[d]
    PROVE  s \in Children[d] \/ \E e \in Children[d] \cap Directory : s \in Below[e]
<1> DEFINE S == Children[d] \cup UNION {Below[e] : e \in Children[d] \cap Directory}
<1>1. S \subseteq Source
  BY BelowHolds, TransferAssumption DEF Nodes
<1>2. ASSUME NEW f \in Directory \cap S PROVE Children[f] \subseteq S
  <2>1. CASE f \in Children[d]
    BY <2>1, BelowHolds DEF Nodes
  <2>2. ASSUME NEW e \in Children[d] \cap Directory, f \in Below[e]
        PROVE  Children[f] \subseteq S
    <3>1. Children[f] \subseteq Below[e]
      BY <2>2, BelowHolds DEF Nodes, HoldsItsTrees
    <3> QED
      BY <3>1
  <2> QED
    BY <2>1, <2>2
<1>3. HoldsItsTrees(S) /\ Children[d] \subseteq S
  BY <1>2 DEF HoldsItsTrees
<1> HIDE DEF S
<1>4. Below[d] \subseteq S
  BY <1>1, <1>3, BelowIsLeast
<1> USE DEF S
<1> QED
  BY <1>4

LEMMA OneParent ==
    ASSUME NEW d \in Nodes, NEW e \in Nodes, NEW s \in Children[d], s \in Children[e]
    PROVE  d = e
  BY TransferAssumption DEF Nodes

LEMMA ParentIsBelow ==
    ASSUME NEW d \in Nodes, NEW e \in Nodes, NEW s \in Below[d], s \in Children[e]
    PROVE  e = d \/ e \in Below[d]
<1> DEFINE S == {x \in Below[d] : \A f \in Nodes : x \in Children[f] => f = d \/ f \in Below[d]}
<1>1. S \subseteq Source
  BY BelowHolds
<1>2. Children[d] \subseteq S
  BY BelowHolds, OneParent
<1>3. ASSUME NEW f \in Directory \cap S, NEW x \in Children[f] PROVE x \in S
  <2>1. f \in Nodes /\ f \in Below[d]
    BY DEF Nodes
  <2>2. x \in Below[d]
    BY <2>1, BelowHolds DEF HoldsItsTrees
  <2> QED
    BY <2>1, <2>2, OneParent
<1>4. HoldsItsTrees(S)
  BY <1>3 DEF HoldsItsTrees
<1> HIDE DEF S
<1>5. Below[d] \subseteq S
  BY <1>1, <1>2, <1>4, BelowIsLeast
<1> USE DEF S
<1> QED
  BY <1>5

\* Two trees that share an entry lie one inside the other.
LEMMA TreesNest ==
    ASSUME NEW d \in Directory, NEW e \in Directory, NEW s \in Below[d], s \in Below[e]
    PROVE  d = e \/ d \in Below[e] \/ e \in Below[d]
<1> DEFINE Nested == d = e \/ d \in Below[e] \/ e \in Below[d]
           S == {x \in Below[d] : x \in Below[e] => Nested}
<1>1. d \in Nodes /\ e \in Nodes /\ S \subseteq Source
  BY BelowHolds DEF Nodes
<1>2. Children[d] \subseteq S
  BY <1>1, BelowHolds, ParentIsBelow
<1>3. ASSUME NEW f \in Directory \cap S, NEW x \in Children[f] PROVE x \in S
  <2>1. f \in Nodes /\ f \in Below[d]
    BY DEF Nodes
  <2>2. x \in Below[d]
    BY <1>1, <2>1, BelowHolds DEF HoldsItsTrees
  <2> QED
    BY <1>1, <2>1, <2>2, ParentIsBelow
<1>4. HoldsItsTrees(S)
  BY <1>3 DEF HoldsItsTrees
<1> HIDE DEF S
<1>5. Below[d] \subseteq S
  BY <1>1, <1>2, <1>4, BelowIsLeast
<1> USE DEF S
<1> QED
  BY <1>5

LEMMA SiblingsAreApart ==
    ASSUME NEW d \in Nodes, NEW s \in Children[d], NEW t \in Children[d] \cap Directory
    PROVE  s \notin Below[t] /\ d \notin Below[t] /\ s # d /\ d # t
<1>1. t \in Nodes /\ t \in Below[d] /\ s \in Below[d] /\ Below[t] \subseteq Below[d]
  BY BelowHolds, BelowIsNested DEF Nodes
<1>2. d \notin Below[d]
  BY BelowHolds, TransferAssumption DEF Nodes
<1> QED
  BY <1>1, <1>2, ParentIsBelow

-----------------------------------------------------------------------------
(* The open directories. *)

Lefts(fs) == UNION {fs[i].left : i \in DOMAIN fs}
Disjoint(fs) == \A i, j \in DOMAIN fs : i # j => fs[i].left \cap fs[j].left = {}

LEMMA FramesPush ==
    ASSUME NEW x \in Frames, NEW fs \in Seq(Frames)
    PROVE  /\ Lefts(<<x>> \o fs) = x.left \cup Lefts(fs)
           /\ Disjoint(fs) /\ x.left \cap Lefts(fs) = {} => Disjoint(<<x>> \o fs)
<1> DEFINE gs == <<x>> \o fs
<1>1. /\ DOMAIN gs = 1 .. Len(fs) + 1 /\ DOMAIN fs = 1 .. Len(fs) /\ Len(fs) \in Nat
      /\ gs[1] = x /\ \A i \in 1 .. Len(fs) : gs[i + 1] = fs[i]
  OBVIOUS
<1> HIDE DEF gs
<1>2. ASSUME NEW i \in DOMAIN gs
      PROVE  i = 1 \/ \E j \in DOMAIN fs : i = j + 1 /\ gs[i] = fs[j]
  <2>1. i = 1 \/ (i - 1 \in 1 .. Len(fs) /\ i = (i - 1) + 1)
    BY <1>1
  <2> QED
    BY <1>1, <2>1
<1>3. Lefts(gs) = x.left \cup Lefts(fs)
  <2>1. \A j \in DOMAIN fs : j + 1 \in DOMAIN gs /\ gs[j + 1] = fs[j]
    BY <1>1
  <2>2. 1 \in DOMAIN gs
    BY <1>1
  <2> QED
    BY <1>1, <1>2, <2>1, <2>2 DEF Lefts
<1>4. ASSUME Disjoint(fs), x.left \cap Lefts(fs) = {}, NEW i \in DOMAIN gs,
             NEW j \in DOMAIN gs, i # j
      PROVE  gs[i].left \cap gs[j].left = {}
  <2>1. \A k \in DOMAIN fs : x.left \cap fs[k].left = {}
    BY <1>4 DEF Lefts
  <2>2. CASE i = 1
    BY <1>1, <1>2, <1>4, <2>1, <2>2
  <2>3. CASE j = 1
    BY <1>1, <1>2, <1>4, <2>1, <2>3
  <2>4. CASE i # 1 /\ j # 1
    <3>1. PICK k \in DOMAIN fs, l \in DOMAIN fs :
             /\ i = k + 1 /\ gs[i] = fs[k] /\ j = l + 1 /\ gs[j] = fs[l]
      BY <1>2, <2>4
    <3>2. k # l
      BY <1>1, <1>4, <3>1
    <3> QED
      BY <1>4, <3>1, <3>2 DEF Disjoint
  <2> QED
    BY <2>2, <2>3, <2>4
<1> QED
  BY <1>3, <1>4 DEF Disjoint, gs

LEMMA FramesPop ==
    ASSUME NEW fs \in Seq(Frames), fs # <<>>
    PROVE  /\ Lefts(fs) = Head(fs).left \cup Lefts(Tail(fs))
           /\ Disjoint(fs) => Disjoint(Tail(fs)) /\ Head(fs).left \cap Lefts(Tail(fs)) = {}
<1>1. /\ Head(fs) \in Frames /\ Tail(fs) \in Seq(Frames)
      /\ Head(fs) = fs[1] /\ 1 \in DOMAIN fs
      /\ DOMAIN Tail(fs) = 1 .. Len(fs) - 1 /\ DOMAIN fs = 1 .. Len(fs) /\ Len(fs) \in Nat
      /\ \A i \in 1 .. Len(fs) - 1 : Tail(fs)[i] = fs[i + 1]
  BY HeadTailProperties
<1>2. fs = <<Head(fs)>> \o Tail(fs)
  OBVIOUS
<1>3. Lefts(fs) = Head(fs).left \cup Lefts(Tail(fs))
  BY <1>1, <1>2, FramesPush
<1>4. \A i \in DOMAIN Tail(fs) : i + 1 \in DOMAIN fs /\ i + 1 # 1 /\ Tail(fs)[i] = fs[i + 1]
  BY <1>1
<1>5. ASSUME Disjoint(fs), NEW i \in DOMAIN Tail(fs), NEW j \in DOMAIN Tail(fs), i # j
      PROVE  Tail(fs)[i].left \cap Tail(fs)[j].left = {}
  <2>1. i + 1 # j + 1
    BY <1>1, <1>5
  <2> QED
    BY <1>4, <1>5, <2>1 DEF Disjoint
<1>6. ASSUME Disjoint(fs), NEW i \in DOMAIN Tail(fs)
      PROVE  fs[1].left \cap Tail(fs)[i].left = {}
  BY <1>1, <1>4, <1>6 DEF Disjoint
<1>7. Disjoint(fs) => Disjoint(Tail(fs))
  BY <1>5 DEF Disjoint
<1>8. Disjoint(fs) => Head(fs).left \cap Lefts(Tail(fs)) = {}
  BY <1>1, <1>6 DEF Lefts
<1> QED
  BY <1>3, <1>7, <1>8

-----------------------------------------------------------------------------
(* What the walk does to the entries that are still ahead. *)

LEMMA WaitingTyped ==
    ASSUME DiscoveryTyped
    PROVE  /\ Waiting = Lefts(frames) /\ Waiting \subseteq Source
           /\ cur.source \in Source \cup {NoSource}
           /\ NoSource \notin Source /\ NoTask.source = NoSource
           /\ Pending \subseteq Source /\ Waiting \subseteq Ahead /\ Ahead \subseteq Source
<1>1. Waiting \subseteq Source
  <2>1. ASSUME NEW i \in DOMAIN frames PROVE frames[i].left \subseteq Source
    <3>1. frames \in Seq(Frames) /\ i \in 1 .. Len(frames)
      BY DEF DiscoveryTyped
    <3>2. frames[i] \in Frames
      BY <3>1
    <3> QED
      BY <3>2 DEF Frames
  <2> QED
    BY <2>1 DEF Waiting
<1>2. cur.source \in Source \cup {NoSource}
  BY DEF DiscoveryTyped, Task
<1>3. Ahead \subseteq Source
  BY <1>1, BelowHolds DEF Ahead, Pending, Nodes
<1> QED
  BY <1>1, <1>2, <1>3, TransferAssumption
     DEF Waiting, Lefts, Pending, Ahead, NoSource, NoTask

LEMMA CurrentNotAhead ==
    ASSUME DiscoveryTyped, WalkIsApart
    PROVE  cur.source \notin Ahead
<1>1. CASE cur.source \in Source
  <2>1. cur.source \in Pending
    BY <1>1 DEF Pending
  <2> QED
    BY <2>1 DEF WalkIsApart, Ahead
<1>2. CASE cur.source \notin Source
  BY <1>2, WaitingTyped
<1> QED
  BY <1>1, <1>2

\* An entry is taken from those that wait, to be decided about.
LEMMA TakeWalk ==
    ASSUME DiscoveryTyped, WalkIsApart, cur.source \notin Source, NEW s \in Waiting,
           Disjoint(frames'), Waiting' = Waiting \ {s}, cur'.source = s
    PROVE  WalkIsApart' /\ Ahead' = Ahead \ {s} /\ s \in Ahead
<1>1. s \in Source /\ Pending = Waiting
  BY WaitingTyped DEF Pending
<1>2. Pending' = Pending
  BY <1>1 DEF Pending
<1>3. WalkIsApart'
  BY <1>1, <1>2 DEF WalkIsApart, Disjoint
<1>4. \A d \in Pending \cap Directory : s \notin Below[d]
  BY <1>1 DEF WalkIsApart
<1> QED
  BY <1>1, <1>2, <1>3, <1>4 DEF Ahead

\* A directory that waits, or is decided about, is opened.
LEMMA EnterWalk ==
    ASSUME DiscoveryTyped, WalkIsApart, NEW d \in Pending \cap Directory,
           cur.source \notin Source \/ cur.source = d,
           Disjoint(frames'), Waiting' = (Pending \ {d}) \cup Children[d],
           cur'.source = NoSource
    PROVE  WalkIsApart' /\ Ahead' = Ahead \ {d}
<1>1. d \in Nodes /\ Pending \subseteq Source /\ Children[d] \subseteq Source
      /\ NoSource \notin Source
  BY WaitingTyped, TransferAssumption DEF Nodes
<1>2. Pending' = Waiting'
  BY <1>1 DEF Pending
<1>3. ASSUME NEW e \in Pending' \cap Directory, NEW s \in Pending', s \in Below[e]
      PROVE  FALSE
  <2>1. e \in Nodes
    BY DEF Nodes
  <2>2. CASE e \in Children[d] /\ s \in Children[d]
    BY <1>1, <1>3, <2>2, SiblingsAreApart
  <2>3. CASE e \in Children[d] /\ s \in Pending
    <3>1. e \in Below[d] /\ Below[e] \subseteq Below[d]
      BY <1>1, <2>3, BelowHolds, BelowIsNested
    <3> QED
      BY <1>3, <2>3, <3>1 DEF WalkIsApart
  <2>4. CASE e \in Pending /\ e # d /\ s \in Children[d]
    <3>1. d \in Below[e]
      BY <1>1, <1>3, <2>1, <2>4, ParentIsBelow
    <3> QED
      BY <2>4, <3>1 DEF WalkIsApart
  <2>5. CASE e \in Pending /\ s \in Pending
    BY <1>3, <2>5 DEF WalkIsApart
  <2> QED
    BY <1>2, <2>2, <2>3, <2>4, <2>5
<1>4. WalkIsApart'
  <2>1. cur'.source \notin Waiting'
    BY <1>1
  <2> QED
    BY <1>3, <2>1 DEF WalkIsApart, Disjoint
<1>5. Ahead' \subseteq Ahead \ {d}
  <2>1. Children[d] \subseteq Below[d] /\ d \notin Below[d]
    BY <1>1, BelowHolds, TransferAssumption
  <2>2. ASSUME NEW e \in Pending \cap Directory PROVE d \notin Below[e]
    BY DEF WalkIsApart
  <2>3. ASSUME NEW e \in Children[d] \cap Directory PROVE Below[e] \subseteq Below[d]
    BY <1>1, <2>1, BelowIsNested
  <2>4. Below[d] \subseteq Ahead
    BY DEF Ahead
  <2>7. Waiting' \subseteq Ahead \ {d}
    <3>1. CASE cur.source \notin Source
      BY <2>1, <2>4, <3>1 DEF Pending, Ahead
    <3>2. CASE cur.source = d
      BY <2>1, <2>4, <3>2 DEF Pending, Ahead
    <3> QED
      BY <3>1, <3>2
  <2> QED
    BY <1>2, <2>1, <2>2, <2>3, <2>4, <2>7 DEF Ahead
<1>6. Ahead \ {d} \subseteq Ahead'
  <2>1. ASSUME NEW s \in Below[d]
        PROVE  s \in Children[d] \/ \E e \in Children[d] \cap Directory : s \in Below[e]
    BY <1>1, BelowSplits
  <2> QED
    BY <1>2, <2>1 DEF Ahead, Pending
<1> QED
  BY <1>4, <1>5, <1>6

\* The entry that is decided about is dealt with, and its tree if it has one.
LEMMA DropWalk ==
    ASSUME DiscoveryTyped, WalkIsApart, UNCHANGED frames, cur'.source = NoSource
    PROVE  /\ WalkIsApart' /\ Ahead' \subseteq Ahead
           /\ cur.source \notin Directory => Ahead' = Ahead
           /\ cur.source \in Directory =>
                 Ahead' \cap Below[cur.source] = {} /\ Ahead \subseteq Ahead' \cup Below[cur.source]
<1>1. /\ Waiting' = Waiting /\ NoSource \notin Source /\ Waiting \subseteq Source
      /\ Directory \subseteq Source
  BY WaitingTyped DEF Waiting, Source
<1>2. Pending' = Waiting
  BY <1>1 DEF Pending
<1>3. WalkIsApart'
  BY <1>1, <1>2 DEF WalkIsApart, Pending
<1>4. ASSUME cur.source \in Directory, NEW s \in Ahead', s \in Below[cur.source]
      PROVE  FALSE
  <2>1. cur.source \in Pending
    BY <1>1, <1>4 DEF Pending
  <2>2. CASE s \in Waiting
    BY <1>4, <2>1, <2>2 DEF WalkIsApart, Pending
  <2>3. ASSUME NEW e \in Waiting \cap Directory, s \in Below[e] PROVE FALSE
    <3>1. e \in Pending /\ e # cur.source
      BY <2>3 DEF WalkIsApart, Pending
    <3>2. cur.source \in Below[e] \/ e \in Below[cur.source]
      BY <1>4, <2>3, <3>1, TreesNest
    <3> QED
      BY <1>4, <2>1, <3>1, <3>2 DEF WalkIsApart
  <2> QED
    BY <1>1, <1>2, <1>4, <2>2, <2>3 DEF Ahead
<1> QED
  BY <1>1, <1>2, <1>3, <1>4 DEF Ahead, Pending

LEMMA EndWalk ==
    ASSUME frames' = <<>>, cur'.source = NoSource
    PROVE  WalkIsApart' /\ Ahead' = {} /\ Waiting' = {}
<1>1. NoSource \notin Source
  BY TransferAssumption DEF NoSource
<1>2. Waiting' = {} /\ Pending' = {} /\ DOMAIN frames' = {}
  BY <1>1 DEF Waiting, Pending
<1> QED
  BY <1>2 DEF WalkIsApart, Ahead

LEMMA SameWalk ==
    ASSUME WalkIsApart, UNCHANGED frames, cur'.source = cur.source
    PROVE  WalkIsApart' /\ Ahead' = Ahead
  BY DEF WalkIsApart, Ahead, Waiting, Pending

LEMMA WaitingIsLeft ==
    /\ Waiting = Lefts(frames) /\ Waiting' = Lefts(frames')
    /\ WalkIsApart => Disjoint(frames)
  BY DEF Waiting, Lefts, WalkIsApart, Disjoint

LEMMA LeftWalk ==
    ASSUME DiscoveryTyped, WalkIsApart, frames # <<>>, NEW s \in Frame.left
    PROVE  /\ Lefts(Left(s)) = Waiting \ {s} /\ Disjoint(Left(s)) /\ s \in Waiting
           /\ Left(s) \in Seq(Frames)
<1> DEFINE x == [Frame EXCEPT !.left = @ \ {s}]
<1>1. /\ Frame \in Frames /\ Tail(frames) \in Seq(Frames) /\ frames \in Seq(Frames)
      /\ Frame = Head(frames) /\ Disjoint(frames) /\ Waiting = Lefts(frames)
  BY FramesTyped DEF Frame, WalkIsApart, Disjoint, Lefts, Waiting, DiscoveryTyped
<1>2. x \in Frames /\ x.left = Frame.left \ {s}
  BY <1>1 DEF Frames
<1>3. /\ Waiting = Frame.left \cup Lefts(Tail(frames))
      /\ Disjoint(Tail(frames)) /\ Frame.left \cap Lefts(Tail(frames)) = {}
  BY <1>1, FramesPop
<1>4. Left(s) = <<x>> \o Tail(frames)
  BY DEF Left
<1> HIDE DEF x
<1>5. /\ Lefts(Left(s)) = x.left \cup Lefts(Tail(frames))
      /\ Disjoint(Tail(frames)) /\ x.left \cap Lefts(Tail(frames)) = {} => Disjoint(Left(s))
  BY <1>1, <1>2, <1>4, FramesPush
<1> QED
  BY <1>1, <1>2, <1>3, <1>5, FramesTyped

LEMMA OpenWalk ==
    ASSUME DiscoveryTyped, WalkIsApart, NEW d \in Pending \cap Directory,
           NEW path \in Seq(Names), NEW fs \in Seq(Frames),
           Disjoint(fs), Lefts(fs) = Pending \ {d}
    PROVE  /\ Lefts(<<Enter(d, path)>> \o fs) = (Pending \ {d}) \cup Children[d]
           /\ Disjoint(<<Enter(d, path)>> \o fs)
<1>1. Enter(d, path) \in Frames /\ Enter(d, path).left = Children[d]
  BY TransferAssumption DEF Enter, Frames
<1>2. Children[d] \cap Pending = {}
  BY BelowHolds DEF WalkIsApart, Nodes
<1> HIDE DEF Enter
<1>3. /\ Lefts(<<Enter(d, path)>> \o fs) = Enter(d, path).left \cup Lefts(fs)
      /\ Disjoint(fs) /\ Enter(d, path).left \cap Lefts(fs) = {} =>
            Disjoint(<<Enter(d, path)>> \o fs)
  BY <1>1, FramesPush
<1> QED
  BY <1>1, <1>2, <1>3

-----------------------------------------------------------------------------
WalkInvariant == WalkIsApart /\ AheadIsUntouched /\ CurrentIsNew /\ SkippedIsLeft
Order == WalkInvariant /\ OnceOnly /\ PhasesInOrder

\* A step that takes entries out of those ahead, at most one of them up, and
\* lets go of the current one before it is begun or skipped.
WalkStep ==
    /\ WalkIsApart' /\ Ahead' \subseteq Ahead
    /\ cur'.source \in {NoSource, cur.source} \cup (Ahead \ Ahead')
    /\ \A s \in Source :
          /\ verdict'[s] # verdict[s] => s = cur.source \/ s = cur'.source
          /\ home'[s] # home[s] => s \notin Ahead'
          /\ Begun(s)' => Begun(s) \/ (s = cur.source /\ cur'.source = NoSource)
          /\ verdict'[s] = "skip" =>
                \/ verdict[s] = "skip"
                \/ /\ s = cur.source /\ cur'.source = NoSource
                   /\ Begun(s)' => Begun(s)
                   /\ s \in Directory => Ahead' \cap Below[s] = {}
    /\ pc' = "ask" /\ cur'.source \in Source =>
          /\ verdict'[cur'.source] = verdict[cur'.source]
          /\ cur'.source = cur.source => pc = "ask"

LEMMA WalkGoesOn ==
    ASSUME DiscoveryTyped, WalkInvariant, WalkStep
    PROVE  WalkInvariant'
<1>1. /\ Ahead \subseteq Source /\ cur.source \in Source \cup {NoSource}
      /\ NoSource \notin Source /\ cur.source \notin Ahead /\ Ahead' \subseteq Ahead
      /\ Directory \subseteq Source
  BY WaitingTyped, CurrentNotAhead DEF WalkInvariant, WalkStep, Source
<1>2. AheadIsUntouched'
  <2> SUFFICES ASSUME NEW s \in Ahead'
               PROVE  verdict'[s] = "none" /\ home'[s] = <<>> /\ ~Begun(s)'
    BY DEF AheadIsUntouched
  <2>1. s \in Source /\ s # cur.source /\ s # cur'.source
    BY <1>1 DEF WalkStep
  <2> QED
    BY <1>1, <2>1 DEF WalkStep, WalkInvariant, AheadIsUntouched
<1>3. CurrentIsNew'
  <2> SUFFICES ASSUME NEW s \in Source, s = cur'.source
               PROVE  /\ ~Begun(s)' /\ verdict'[s] # "skip"
                      /\ pc' = "ask" => verdict'[s] = "none"
    BY DEF CurrentIsNew
  <2>1. CASE s = cur.source
    BY <1>1, <2>1 DEF WalkStep, WalkInvariant, CurrentIsNew
  <2>2. CASE s \in Ahead
    BY <1>1, <2>2 DEF WalkStep, WalkInvariant, AheadIsUntouched
  <2> QED
    BY <1>1, <2>1, <2>2 DEF WalkStep
<1>4. SkippedIsLeft'
  <2> SUFFICES ASSUME NEW s \in Source, Skipped(s)'
               PROVE  s \notin Ahead' /\ s # cur'.source /\ ~Begun(s)'
    BY DEF SkippedIsLeft
  <2>1. PICK d \in Source : /\ verdict'[d] = "skip"
                            /\ d = s \/ (d \in Directory /\ s \in Below[d])
    BY <1>1 DEF Skipped
  <2>2. CASE verdict[d] = "skip"
    <3>1. Skipped(s)
      BY <2>1, <2>2 DEF Skipped
    <3>2. s \notin Ahead /\ s # cur.source /\ ~Begun(s)
      BY <3>1 DEF WalkInvariant, SkippedIsLeft
    <3> QED
      BY <1>1, <3>2 DEF WalkStep
  <2>3. CASE verdict[d] # "skip"
    <3>1. /\ d = cur.source /\ cur'.source = NoSource
          /\ Begun(d)' => Begun(d)
          /\ d \in Directory => Ahead' \cap Below[d] = {}
      BY <2>1, <2>3 DEF WalkStep
    <3>2. CASE s = d
      BY <1>1, <3>1, <3>2 DEF WalkInvariant, CurrentIsNew
    <3>3. CASE s # d
      <4>1. d \in Directory /\ s \in Below[d] /\ d \in Pending
        BY <2>1, <3>1, <3>3 DEF Pending
      <4>2. s \in Ahead
        BY <4>1 DEF Ahead
      <4>3. ~Begun(s)
        BY <4>2 DEF WalkInvariant, AheadIsUntouched
      <4> QED
        BY <1>1, <3>1, <3>3, <4>1, <4>3 DEF WalkStep
    <3> QED
      BY <3>2, <3>3
  <2> QED
    BY <2>2, <2>3
<1> QED
  BY <1>2, <1>3, <1>4 DEF WalkInvariant, WalkStep

\* A step that leaves the queue, the workers and the journal alone.
LEMMA BegunStays ==
    ASSUME UNCHANGED <<src, queue, worker, journal>>
    PROVE  /\ \A s : Begun(s)' = Begun(s)
           /\ \A s : Carried(s)' = Carried(s) /\ Recorded(s)' = Recorded(s) /\ Gone(s)' = Gone(s)
           /\ OnceOnly => OnceOnly'
  BY DEF Begun, Carried, Recorded, Gone, Busy, At, TaskOf, OnceOnly

LEMMA DecisionOrder ==
    ASSUME Soundness, Order, WalkStep,
           UNCHANGED <<operation, src, queue, worker, journal>>,
           pc \in {"visit", "ask", "place", "send"},
           pc' \in {"visit", "ask", "place", "send", "join"},
           pc' \in {"ask", "place", "send"} <=> cur'.source \in Source,
           pc' = "join" => frames' = <<>>,
           stopped' => failed' \/ cancelled'
    PROVE  Order'
<1>1. WalkInvariant'
  BY WalkGoesOn DEF Soundness, Order
<1>2. OnceOnly'
  BY BegunStays DEF Order
<1>3. PhasesInOrder'
  <2>1. ~ \E s \in Source : Gone(s)'
    BY BegunStays DEF Order, PhasesInOrder
  <2> QED
    BY <2>1 DEF Order, PhasesInOrder, RemoveSources, At
<1> QED
  BY <1>1, <1>2, <1>3 DEF Order

-----------------------------------------------------------------------------
(* Discovery keeps the order. *)

LEMMA AbortOrder ==
    ASSUME Soundness, Order, VisitInterrupted \/ VisitFails \/ ResolveFails \/ PlaceFails
    PROVE  Order'
<1>1. /\ Abort
      /\ UNCHANGED <<disk, policy, reserved, queue, worker, journal, unpruned,
                     cancelled, completed, edits, history>>
      /\ pc \in {"visit", "ask", "place", "send"}
  BY DEF VisitInterrupted, VisitFails, ResolveFails, PlaceFails, bounds, Inside, Chosen
<1>2. frames' = <<>> /\ cur'.source = NoSource /\ pc' = "join"
  BY <1>1 DEF Abort, NoTask
<1>3. WalkStep
  BY <1>1, <1>2, EndWalk, BegunStays DEF WalkStep, disk, history
<1>4. stopped' => failed' \/ cancelled'
  BY <1>1 DEF Abort, Order, PhasesInOrder, Interrupted
<1> QED
  BY <1>1, <1>2, <1>3, <1>4, DecisionOrder, WaitingTyped DEF disk, Soundness

LEMMA LeaveOrder ==
    ASSUME Soundness, Order, LeaveDirectory \/ EndDiscovery
    PROVE  Order' /\ Ahead' = Ahead
<1>1. /\ pc = "visit" /\ pc' \in {"visit", "join"} /\ (pc' = "join" => frames' = <<>>)
      /\ UNCHANGED <<disk, cur, queue, worker, journal, flags, history>>
  BY DEF LeaveDirectory, EndDiscovery, Inside
<1>2. DiscoveryTyped /\ WalkIsApart /\ cur.source \notin Source
  BY <1>1 DEF Soundness, Order, WalkInvariant, PhasesInOrder
<1>3. Waiting' = Waiting /\ Disjoint(frames')
  <2>1. CASE LeaveDirectory
    <3>1. frames # <<>> /\ frames \in Seq(Frames) /\ frames' = Tail(frames) /\ Head(frames).left = {}
      BY <1>2, <2>1 DEF LeaveDirectory, Inside, DiscoveryTyped, Frame
    <3> QED
      BY <1>2, <3>1, FramesPop, WaitingIsLeft
  <2>2. CASE EndDiscovery
    BY <1>2, <2>2, WaitingIsLeft DEF EndDiscovery
  <2> QED
    BY <2>1, <2>2
<1>4. WalkIsApart' /\ Ahead' = Ahead
  BY <1>1, <1>2, <1>3 DEF WalkIsApart, Disjoint, Ahead, Pending
<1>5. WalkStep
  BY <1>1, <1>2, <1>4, BegunStays DEF WalkStep, disk, history
<1> QED
  BY <1>1, <1>2, <1>4, <1>5, DecisionOrder DEF disk, flags, Order, PhasesInOrder

LEMMA VisitDirectoryOrder ==
    ASSUME Soundness, Order, NEW d \in Directory, VisitDirectory(d)
    PROVE  Order' /\ Ahead' = Ahead \ {d}
<1> DEFINE path == Append(Frame.into, NameOf[d])
<1>1. /\ pc = "visit" /\ frames # <<>> /\ d \in Frame.left /\ d \in Source
      /\ UNCHANGED <<operation, src, queue, worker, journal, flags, verdict>>
      /\ home' = [home EXCEPT ![d] = path]
      /\ home \in [Source -> Seq(Names)]
  BY DEF VisitDirectory, Inside, Source, Found, Soundness, RestTyped
<1>2. DiscoveryTyped /\ WalkIsApart /\ cur.source \notin Source
      /\ cur.source = NoSource
  BY <1>1, WaitingTyped DEF Soundness, Order, WalkInvariant, PhasesInOrder
<1>3. /\ Lefts(Left(d)) = Waiting \ {d} /\ Disjoint(Left(d)) /\ d \in Waiting
      /\ Left(d) \in Seq(Frames) /\ path \in Seq(Names)
  BY <1>1, <1>2, LeftWalk, PathsTyped
<1>4. Pending = Waiting
  BY <1>2 DEF Pending
<1> HIDE DEF path
<1>5. CASE /\ frames' = <<Enter(d, path)>> \o Left(d)
           /\ UNCHANGED <<pc, cur>>
  <2>1. Waiting' = (Pending \ {d}) \cup Children[d] /\ Disjoint(frames')
    BY <1>2, <1>3, <1>4, <1>5, OpenWalk, WaitingIsLeft
  <2>2. WalkIsApart' /\ Ahead' = Ahead \ {d}
    BY <1>2, <1>3, <1>4, <1>5, <2>1, EnterWalk
  <2>3. WalkStep
    BY <1>1, <1>2, <1>5, <2>2, BegunStays DEF WalkStep
  <2> QED
    BY <1>1, <1>2, <1>5, <2>2, <2>3, DecisionOrder DEF flags, Order, PhasesInOrder
<1>6. CASE cur' = Considered(d, 0, dest[path]) /\ frames' = Left(d) /\ pc' = "ask"
  <2>1. cur'.source = d
    BY <1>6 DEF Considered
  <2>2. Waiting' = Waiting \ {d} /\ Disjoint(frames')
    BY <1>3, <1>6, WaitingIsLeft
  <2>3. WalkIsApart' /\ Ahead' = Ahead \ {d} /\ d \in Ahead
    BY <1>2, <1>3, <2>1, <2>2, TakeWalk
  <2>4. WalkStep
    BY <1>1, <1>2, <1>6, <2>1, <2>3, BegunStays DEF WalkStep
  <2> QED
    BY <1>1, <1>6, <2>1, <2>3, <2>4, DecisionOrder DEF flags, Order, PhasesInOrder
<1> QED
  BY <1>5, <1>6 DEF VisitDirectory, path

LEMMA VisitFileOrder ==
    ASSUME Soundness, Order, NEW s \in File, VisitFile(s)
    PROVE  Order' /\ Ahead' = Ahead \ {s} /\ cur'.source = s
<1> DEFINE path == Append(Frame.into, NameOf[s])
<1>1. /\ pc = "visit" /\ frames # <<>> /\ s \in Frame.left /\ s \in Source
      /\ frames' = Left(s) /\ pc' \in {"ask", "place"}
      /\ UNCHANGED <<operation, src, queue, worker, journal, flags>>
      /\ home' = [home EXCEPT ![s] = path]
      /\ verdict' = verdict \/ (verdict' = [verdict EXCEPT ![s] = "identical"] /\ pc' = "place")
      /\ home \in [Source -> Seq(Names)] /\ verdict \in [Source -> Verdicts]
  BY DEF VisitFile, Inside, Source, Found, Soundness, RestTyped, disk
<1>2. cur'.source = s
  BY DEF VisitFile, Considered
<1>3. DiscoveryTyped /\ WalkIsApart /\ cur.source \notin Source
  BY <1>1 DEF Soundness, Order, WalkInvariant, PhasesInOrder
<1>4. Waiting' = Waiting \ {s} /\ Disjoint(frames') /\ s \in Waiting
  BY <1>1, <1>3, LeftWalk, WaitingIsLeft
<1>5. WalkIsApart' /\ Ahead' = Ahead \ {s} /\ s \in Ahead
  BY <1>2, <1>3, <1>4, TakeWalk
<1> HIDE DEF path
<1>6. WalkStep
  BY <1>1, <1>2, <1>3, <1>5, BegunStays DEF WalkStep
<1> QED
  BY <1>1, <1>2, <1>5, <1>6, DecisionOrder DEF flags, Order, PhasesInOrder

\* A decision after which the entry is still the current one.
LEMMA DecideOrder ==
    ASSUME Soundness, Order,
           \/ \E action \in FileActions : AskAgain(action)
           \/ \E action \in FileActions, all \in BOOLEAN :
                 KeepSource(action, all) \/ KeepDestination(action, all)
           \/ \E all \in BOOLEAN : KeepBoth(all)
           \/ Reserve
    PROVE  Order' /\ Ahead' = Ahead /\ cur'.source = cur.source
<1>1. /\ pc \in {"ask", "place"} /\ pc' \in {"ask", "place", "send"}
      /\ pc' = "ask" => pc = "ask" /\ verdict' = verdict
      /\ cur'.source = cur.source
      /\ UNCHANGED <<operation, src, frames, queue, worker, journal, flags>>
      /\ \/ verdict' = verdict
         \/ \E v \in {"source", "destination"} : verdict' = [verdict EXCEPT ![cur.source] = v]
      /\ \/ home' = home
         \/ home' = [home EXCEPT ![cur.source] = KeepBothTarget(cur.target)]
  BY DEF AskAgain, KeepSource, KeepDestination, KeepBoth, Reserve, Chosen, Settle,
         Found, disk, history, Soundness, DiscoveryTyped, Task
<1>2. DiscoveryTyped /\ WalkIsApart /\ cur.source \in Source
      /\ home \in [Source -> Seq(Names)] /\ verdict \in [Source -> Verdicts]
  BY <1>1 DEF Soundness, Order, WalkInvariant, PhasesInOrder, RestTyped
<1>3. WalkIsApart' /\ Ahead' = Ahead /\ cur.source \notin Ahead
  BY <1>1, <1>2, SameWalk, CurrentNotAhead
<1>4. WalkStep
  BY <1>1, <1>2, <1>3, BegunStays DEF WalkStep
<1> QED
  BY <1>1, <1>2, <1>3, <1>4, DecisionOrder DEF flags, Order, PhasesInOrder

LEMMA SkipOrder ==
    ASSUME Soundness, Order, NEW action \in FileActions, NEW all \in BOOLEAN,
           SkipFile(action, all) \/ SkipFolder(action, all)
    PROVE  /\ Order'
           /\ cur.source \in Directory => Ahead \subseteq Ahead' \cup Below[cur.source]
           /\ cur.source \notin Directory => Ahead' = Ahead
<1>1. /\ pc = "ask" /\ pc' = "visit" /\ cur'.source = NoSource
      /\ verdict' = [verdict EXCEPT ![cur.source] = "skip"]
      /\ UNCHANGED <<operation, src, frames, queue, worker, journal, flags, home>>
  BY DEF SkipFile, SkipFolder, Chosen, Settle, disk, NoTask
<1>2. DiscoveryTyped /\ WalkIsApart /\ cur.source \in Source
      /\ verdict \in [Source -> Verdicts] /\ NoSource \notin Source
  BY <1>1, WaitingTyped DEF Soundness, Order, WalkInvariant, PhasesInOrder, RestTyped
<1>3. /\ WalkIsApart' /\ Ahead' \subseteq Ahead
      /\ cur.source \in Directory => Ahead \subseteq Ahead' \cup Below[cur.source]
      /\ cur.source \notin Directory => Ahead' = Ahead
      /\ cur.source \in Directory => Ahead' \cap Below[cur.source] = {}
  BY <1>1, <1>2, DropWalk
<1>4. WalkStep
  BY <1>1, <1>2, <1>3, BegunStays DEF WalkStep
<1> QED
  BY <1>1, <1>2, <1>3, <1>4, DecisionOrder DEF flags, Order, PhasesInOrder

LEMMA KeepBothFolderOrder ==
    ASSUME Soundness, Order, NEW all \in BOOLEAN, KeepBothFolder(all)
    PROVE  Order' /\ Ahead' = Ahead \ {cur.source}
<1> DEFINE d == cur.source
           path == KeepBothTarget(cur.target)
<1>1. /\ pc = "ask" /\ pc' = "visit" /\ cur'.source = NoSource
      /\ d \in Directory /\ FreeTried(cur.target) # {}
      /\ frames' = <<Enter(d, path)>> \o frames
      /\ home' = [home EXCEPT ![d] = path]
      /\ UNCHANGED <<operation, src, queue, worker, journal, flags, verdict>>
  BY DEF KeepBothFolder, Chosen, Found, NoTask
<1>2. DiscoveryTyped /\ WalkIsApart /\ cur.source \in Source
      /\ cur.target \in Seq(Names) /\ cur.target # <<>> /\ frames \in Seq(Frames)
      /\ home \in [Source -> Seq(Names)] /\ NoSource \notin Source
  BY <1>1, WaitingTyped
     DEF Soundness, Order, WalkInvariant, PhasesInOrder, RestTyped, DiscoveryTyped,
         Task, Names
<1>3. path \in Seq(Names)
  BY <1>1, <1>2, KeepBothTargetFree
<1>4. d \in Pending \cap Directory /\ Pending \ {d} = Waiting /\ Disjoint(frames)
      /\ Lefts(frames) = Waiting
  BY <1>1, <1>2, WaitingIsLeft DEF Pending, WalkIsApart
<1> HIDE DEF path
<1>5. Waiting' = (Pending \ {d}) \cup Children[d] /\ Disjoint(frames')
  BY <1>1, <1>2, <1>3, <1>4, OpenWalk, WaitingIsLeft
<1>6. WalkIsApart' /\ Ahead' = Ahead \ {d}
  BY <1>1, <1>2, <1>4, <1>5, EnterWalk
<1>7. WalkStep
  BY <1>1, <1>2, <1>6, BegunStays DEF WalkStep
<1> QED
  BY <1>1, <1>2, <1>6, <1>7, DecisionOrder DEF flags, Order, PhasesInOrder

-----------------------------------------------------------------------------
(* What becomes of the sources of tasks and of journal entries. *)

LEMMA JournalGrows ==
    ASSUME RestTyped, NEW s \in File, NEW time \in 0 .. 9, journal' = Journaled(s, time)
    PROVE  /\ \A i \in DOMAIN journal' :
                 \/ i \in DOMAIN journal /\ journal'[i] = journal[i]
                 \/ RemoveSources /\ journal'[i] = [source |-> s, time |-> JournalTime(time)]
           /\ \A x : Recorded(x)' => Recorded(x) \/ (RemoveSources /\ x = s)
           /\ \A x : Recorded(x) => Recorded(x)'
           /\ RemoveSources => Recorded(s)'
           /\ journal' # <<>> => RemoveSources \/ journal # <<>>
<1> DEFINE entry == [source |-> s, time |-> JournalTime(time)]
<1>1. journal \in Seq([source : File, time : 0 .. 10]) /\ entry.source = s
  BY DEF RestTyped
<1> HIDE DEF entry
<1>2. CASE ~RemoveSources
  BY <1>2 DEF Journaled, Recorded
<1>3. CASE RemoveSources
  <2>1. journal' = Append(journal, entry)
    BY <1>3 DEF Journaled, entry
  <2>2. /\ DOMAIN journal = 1 .. Len(journal) /\ DOMAIN journal' = 1 .. Len(journal) + 1
        /\ Len(journal) \in Nat
        /\ \A i \in 1 .. Len(journal) : journal'[i] = journal[i]
        /\ journal'[Len(journal) + 1] = entry
    BY <1>1, <2>1
  <2>3. \A i \in DOMAIN journal' :
           (i \in DOMAIN journal /\ journal'[i] = journal[i]) \/ journal'[i] = entry
    BY <2>2
  <2>4. \A i \in DOMAIN journal : i \in DOMAIN journal' /\ journal'[i] = journal[i]
    BY <2>2
  <2>5. Len(journal) + 1 \in DOMAIN journal'
    BY <2>2
  <2>6. \A x : Recorded(x)' => Recorded(x) \/ x = s
    BY <1>1, <2>3 DEF Recorded
  <2>7. \A x : Recorded(x) => Recorded(x)'
    BY <2>4 DEF Recorded
  <2>8. Recorded(s)'
    BY <1>1, <2>2, <2>5 DEF Recorded
  <2> QED
    BY <1>3, <2>3, <2>6, <2>7, <2>8 DEF entry
<1> QED
  BY <1>2, <1>3

LEMMA EnqueueCarries ==
    ASSUME Soundness, Enqueue
    PROVE  /\ \A i \in DOMAIN queue' :
                 (i \in DOMAIN queue /\ queue'[i] = queue[i]) \/ (i = Len(queue) + 1 /\ queue'[i] = cur)
           /\ \A x : Carried(x)' <=> Carried(x) \/ x = cur.source
<1>1. queue \in Seq(Task) /\ queue' = Append(queue, cur) /\ UNCHANGED worker /\ cur \in Task
  BY DEF Soundness, QueueTyped, DiscoveryTyped, Enqueue
<1>2. /\ DOMAIN queue = 1 .. Len(queue) /\ DOMAIN queue' = 1 .. Len(queue) + 1
      /\ Len(queue) \in Nat
      /\ \A i \in 1 .. Len(queue) : queue'[i] = queue[i]
      /\ queue'[Len(queue) + 1] = cur
  BY <1>1
<1>3. \A i \in DOMAIN queue' :
         (i \in DOMAIN queue /\ queue'[i] = queue[i]) \/ (i = Len(queue) + 1 /\ queue'[i] = cur)
  BY <1>2
<1>4. \A i \in DOMAIN queue : i \in DOMAIN queue' /\ queue'[i] = queue[i]
  BY <1>2
<1>5. Len(queue) + 1 \in DOMAIN queue'
  BY <1>2
<1> QED
  BY <1>1, <1>2, <1>3, <1>4, <1>5 DEF Carried, Busy, At, TaskOf

LEMMA ReceiveCarries ==
    ASSUME Soundness, NEW w \in Worker, Receive(w)
    PROVE  /\ \A i \in DOMAIN queue' : i + 1 \in DOMAIN queue /\ queue'[i] = queue[i + 1]
           /\ 1 \in DOMAIN queue
           /\ \A x : Carried(x)' => Carried(x)
           /\ ~Interrupted => \A x : Carried(x) => Carried(x)'
           /\ \A v \in Worker : Busy(v)' =>
                 \/ Busy(v) /\ worker'[v] = worker[v]
                 \/ v = w /\ TaskOf(v)' = queue[1] /\ At(v, "open")'
<1>1. /\ queue \in Seq(Task) /\ queue # <<>> /\ queue' = Tail(queue)
      /\ At(w, "idle") /\ worker \in [Worker -> Workers]
  BY DEF Soundness, QueueTyped, WorkersTyped, Receive
<1>2. /\ DOMAIN queue = 1 .. Len(queue) /\ DOMAIN queue' = 1 .. Len(queue) - 1
      /\ Len(queue) \in Nat /\ 1 \in DOMAIN queue /\ Head(queue) = queue[1]
      /\ \A i \in 1 .. Len(queue) - 1 : queue'[i] = queue[i + 1]
  BY <1>1
<1>3. \A i \in DOMAIN queue' : i + 1 \in DOMAIN queue /\ queue'[i] = queue[i + 1]
  BY <1>2
<1>4. \A i \in DOMAIN queue : i = 1 \/ (i - 1 \in DOMAIN queue' /\ queue'[i - 1] = queue[i])
  BY <1>2
<1>5. \A v \in Worker : Busy(v)' =>
                 \/ Busy(v) /\ worker'[v] = worker[v]
                 \/ v = w /\ TaskOf(v)' = queue[1] /\ At(v, "open")'
  <2>1. CASE UNCHANGED worker
    BY <2>1 DEF Busy, At
  <2>2. CASE worker' = [worker EXCEPT ![w] =
                [step |-> "open", task |-> Head(queue), data |-> <<Other, 0>>]]
    BY <1>1, <1>2, <2>2 DEF Busy, At, TaskOf
  <2> QED
    BY <2>1, <2>2 DEF Receive
<1>6. \A x : Carried(x)' => Carried(x)
  BY <1>2, <1>3, <1>5 DEF Carried, TaskOf, Busy, At
<1>7. ASSUME ~Interrupted, NEW x, Carried(x) PROVE Carried(x)'
  <2>1. worker' = [worker EXCEPT ![w] =
                [step |-> "open", task |-> Head(queue), data |-> <<Other, 0>>]]
    BY <1>7 DEF Receive
  <2>2. Busy(w)' /\ TaskOf(w)' = queue[1]
    BY <1>1, <1>2, <2>1 DEF Busy, At, TaskOf
  <2>3. \A v \in Worker : v # w => worker'[v] = worker[v]
    BY <1>1, <2>1
  <2>4. CASE \E i \in DOMAIN queue : queue[i].source = x
    BY <1>4, <2>2, <2>4 DEF Carried
  <2>5. ASSUME NEW v \in Worker, Busy(v), TaskOf(v).source = x PROVE Carried(x)'
    BY <1>1, <2>3, <2>5 DEF Carried, Busy, At, TaskOf
  <2> QED
    BY <1>7, <2>4, <2>5 DEF Carried
<1> QED
  BY <1>2, <1>3, <1>5, <1>6, <1>7

\* A worker goes on with its task.
LEMMA GoOnCarries ==
    ASSUME Soundness, NEW w \in Worker,
           Open(w) \/ ReadSource(w) \/ CheckCopy(w) \/ Publish(w)
    PROVE  /\ queue' = queue
           /\ \A v \in Worker : TaskOf(v)' = TaskOf(v) /\ (Busy(v)' <=> Busy(v))
           /\ \A v \in Worker : v # w => worker'[v] = worker[v]
           /\ \A x : Carried(x)' <=> Carried(x)
           /\ Busy(w)
<1>1. worker \in [Worker -> Workers]
  BY DEF Soundness, WorkersTyped
<1>2. /\ \A v \in Worker : v # w => worker'[v] = worker[v]
      /\ worker'[w].task = worker[w].task /\ worker'[w].step # "idle"
  <2>1. CASE ReadSource(w)
    BY <1>1, <2>1 DEF ReadSource, Workers
  <2>2. ASSUME NEW step \in {"read", "publish", "record"},
               worker' = [worker EXCEPT ![w].step = step]
        PROVE  /\ \A v \in Worker : v # w => worker'[v] = worker[v]
               /\ worker'[w].task = worker[w].task /\ worker'[w].step # "idle"
    BY <1>1, <2>2 DEF Workers
  <2> QED
    BY <2>1, <2>2 DEF Open, CheckCopy, Publish, Goes
<1>3. Busy(w) /\ queue' = queue
  BY DEF Open, ReadSource, CheckCopy, Publish, Busy, At
<1>4. \A v \in Worker : TaskOf(v)' = TaskOf(v) /\ (Busy(v)' <=> Busy(v))
  BY <1>2, <1>3 DEF Busy, At, TaskOf
<1> QED
  BY <1>2, <1>3, <1>4 DEF Carried

\* A worker is through with its task.
LEMMA RestCarries ==
    ASSUME Soundness, OnceOnly, NEW w \in Worker, RecordCopied(w) \/ CopyFails(w)
    PROVE  /\ queue' = queue /\ Busy(w) /\ ~Busy(w)'
           /\ \A v \in Worker : v # w => worker'[v] = worker[v]
           /\ \A x : Carried(x)' <=> Carried(x) /\ x # TaskOf(w).source
           /\ Carried(TaskOf(w).source)
<1>1. /\ worker \in [Worker -> Workers] /\ worker' = [worker EXCEPT ![w] = Idle]
      /\ queue' = queue /\ Busy(w)
  BY DEF Soundness, WorkersTyped, RecordCopied, CopyFails, Rest, Busy, At
<1>2. ~Busy(w)' /\ \A v \in Worker : v # w => worker'[v] = worker[v]
  BY <1>1 DEF Busy, At, Idle
<1> QED
  BY <1>1, <1>2 DEF Carried, OnceOnly, Busy, At, TaskOf

-----------------------------------------------------------------------------
(* The other steps keep the order. *)

LEMMA RecordKeptOrder ==
    ASSUME Soundness, Order, RecordKept
    PROVE  Order' /\ Ahead' = Ahead
<1>1. /\ pc = "place" /\ pc' = "visit" /\ cur'.source = NoSource
      /\ journal' = Journaled(cur.source, cur.time)
      /\ UNCHANGED <<operation, src, frames, queue, worker, flags, verdict, home>>
  BY DEF RecordKept, disk, history, NoTask
<1>2. /\ DiscoveryTyped /\ WalkIsApart /\ RestTyped /\ WalkInvariant
      /\ cur.source \in File /\ cur.source \in Source /\ cur.time \in 0 .. 9
      /\ ~Begun(cur.source) /\ NoSource \notin Source /\ cur.source \notin Directory
  BY <1>1, WaitingTyped, TransferAssumption
     DEF Soundness, Order, WalkInvariant, CurrentIsNew, Source, DiscoveryTyped, Task
<1>3. /\ \A x : Recorded(x)' => Recorded(x) \/ (RemoveSources /\ x = cur.source)
      /\ journal' # <<>> => RemoveSources \/ journal # <<>>
  BY <1>1, <1>2, JournalGrows
<1>4. \A x : Carried(x)' = Carried(x)
  BY <1>1 DEF Carried, Busy, At, TaskOf
<1>5. \A x : Begun(x)' => Begun(x) \/ x = cur.source
  BY <1>1, <1>3, <1>4 DEF Begun, Gone
<1>6. WalkIsApart' /\ Ahead' = Ahead
  BY <1>1, <1>2, DropWalk
<1>7. WalkStep
  BY <1>1, <1>5, <1>6 DEF WalkStep
<1>8. OnceOnly'
  <2>1. \A s \in File : Recorded(s)' => ~Carried(s)'
    BY <1>2, <1>3, <1>4 DEF Begun, Order, OnceOnly
  <2> QED
    BY <1>1, <2>1 DEF Order, OnceOnly, Busy, At, TaskOf
<1>9. PhasesInOrder'
  BY <1>1, <1>2, <1>3 DEF Order, PhasesInOrder, RemoveSources, Gone, flags
<1> QED
  BY <1>2, <1>6, <1>7, <1>8, <1>9, WalkGoesOn DEF Order

LEMMA EnqueueOrder ==
    ASSUME Soundness, Order, Enqueue
    PROVE  Order' /\ Ahead' = Ahead
<1>1. /\ pc = "send" /\ pc' = "visit" /\ cur'.source = NoSource
      /\ UNCHANGED <<operation, src, frames, worker, journal, flags, verdict, home>>
  BY DEF Enqueue, disk, history, NoTask
<1>2. /\ DiscoveryTyped /\ WalkIsApart /\ WalkInvariant
      /\ cur.source \in File /\ cur.source \in Source
      /\ ~Begun(cur.source) /\ NoSource \notin Source /\ cur.source \notin Directory
  BY <1>1, WaitingTyped, TransferAssumption
     DEF Soundness, Order, WalkInvariant, CurrentIsNew, Source, DiscoveryTyped
<1>3. /\ \A i \in DOMAIN queue' :
            (i \in DOMAIN queue /\ queue'[i] = queue[i]) \/ (i = Len(queue) + 1 /\ queue'[i] = cur)
      /\ \A x : Carried(x)' <=> Carried(x) \/ x = cur.source
  BY EnqueueCarries
<1>4. \A x : Begun(x)' => Begun(x) \/ x = cur.source
  BY <1>1, <1>3 DEF Begun, Gone, Recorded
<1>5. WalkIsApart' /\ Ahead' = Ahead
  BY <1>1, <1>2, DropWalk
<1>6. WalkStep
  BY <1>1, <1>4, <1>5 DEF WalkStep
<1>7. OnceOnly'
  <2>1. ~Carried(cur.source) /\ ~Recorded(cur.source)
    BY <1>2 DEF Begun
  <2>2. /\ \A i \in DOMAIN queue : queue[i].source # cur.source
        /\ \A w \in Worker : Busy(w) => TaskOf(w).source # cur.source
    BY <2>1 DEF Carried
  <2>3. \A i, j \in DOMAIN queue' : queue'[i].source = queue'[j].source => i = j
    BY <1>3, <2>2 DEF Order, OnceOnly
  <2>4. \A i \in DOMAIN queue', w \in Worker : Busy(w) => queue'[i].source # TaskOf(w).source
    BY <1>3, <2>2 DEF Order, OnceOnly
  <2>5. \A w \in Worker : Busy(w)' = Busy(w) /\ TaskOf(w)' = TaskOf(w)
    BY <1>1 DEF Busy, At, TaskOf
  <2>6. \A s \in File : Recorded(s)' => ~Carried(s)'
    BY <1>1, <1>3, <2>1 DEF Order, OnceOnly, Recorded
  <2> QED
    BY <2>3, <2>4, <2>5, <2>6 DEF Order, OnceOnly
<1>8. PhasesInOrder'
  BY <1>1, <1>2 DEF Order, PhasesInOrder, RemoveSources, Gone, flags
<1> QED
  BY <1>2, <1>5, <1>6, <1>7, <1>8, WalkGoesOn DEF Order

\* A step beside discovery, by which no entry is begun.
LEMMA AsideOrder ==
    ASSUME Soundness, Order, UNCHANGED <<frames, cur, verdict, home>>,
           pc' = pc \/ pc' # "ask",
           \A s : Begun(s)' => Begun(s), OnceOnly', PhasesInOrder'
    PROVE  Order'
<1>1. WalkIsApart' /\ Ahead' = Ahead
  BY SameWalk DEF Order, WalkInvariant
<1>2. WalkStep
  BY <1>1 DEF WalkStep
<1> QED
  BY <1>2, WalkGoesOn DEF Soundness, Order

LEMMA WorkOrder ==
    ASSUME Soundness, Order, NEW w \in Worker, Work(w)
    PROVE  Order'
<1>1. /\ UNCHANGED <<operation, src, pc, frames, cur, cancelled, verdict, home>>
      /\ stopped' => stopped \/ failed' \/ cancelled
      /\ failed => failed'
  <2>1. CASE CopyFails(w)
    <3>1. /\ UNCHANGED <<disk, discovery, cancelled, history>>
          /\ failed' = (failed \/ ~cancelled \/ At(w, "record"))
      BY <2>1 DEF CopyFails
    <3> QED
      BY <3>1 DEF disk, discovery, history
  <2>2. CASE UNCHANGED <<operation, src, discovery, flags, history>>
    BY <2>2 DEF discovery, flags, history
  <2> QED
    BY <2>1, <2>2
       DEF Work, Receive, Open, ReadSource, CheckCopy, Publish, RecordCopied, disk
<1>2. \A x : Gone(x)' = Gone(x)
  BY <1>1 DEF Gone
<1>3. CASE Receive(w)
  <2>1. /\ \A i \in DOMAIN queue' : i + 1 \in DOMAIN queue /\ queue'[i] = queue[i + 1]
        /\ 1 \in DOMAIN queue
        /\ \A x : Carried(x)' => Carried(x)
        /\ \A v \in Worker : Busy(v)' =>
              \/ Busy(v) /\ TaskOf(v)' = TaskOf(v)
              \/ v = w /\ TaskOf(v)' = queue[1]
        /\ ~Busy(w)
    BY <1>3, ReceiveCarries DEF Receive, TaskOf, Busy
  <2>2. /\ UNCHANGED <<journal, flags>> /\ queue # <<>> /\ DOMAIN queue \subseteq Nat
    BY <1>3 DEF Receive, Soundness, QueueTyped
  <2>3. \A i \in DOMAIN queue' : i \in Nat /\ i + 1 # 1
    <3>1. queue \in Seq(Task) /\ queue' = Tail(queue)
      BY <1>3 DEF Receive, Soundness, QueueTyped
    <3>2. DOMAIN queue' \subseteq Nat \ {0}
      BY <2>2, <3>1
    <3> QED
      BY <3>2
  <2>4. OnceOnly'
    <3>1. \A i, j \in DOMAIN queue' : queue'[i].source = queue'[j].source => i = j
      <4> SUFFICES ASSUME NEW i \in DOMAIN queue', NEW j \in DOMAIN queue',
                          queue'[i].source = queue'[j].source
                   PROVE  i = j
        OBVIOUS
      <4>1. i + 1 = j + 1
        BY <2>1 DEF Order, OnceOnly
      <4>2. i \in Nat /\ j \in Nat
        BY <2>3
      <4> QED
        BY <4>1, <4>2
    <3>2. \A i \in DOMAIN queue', v \in Worker : Busy(v)' => queue'[i].source # TaskOf(v)'.source
      BY <2>1, <2>3 DEF Order, OnceOnly
    <3>3. \A u, v \in Worker :
             Busy(u)' /\ Busy(v)' /\ TaskOf(u)'.source = TaskOf(v)'.source => u = v
      BY <2>1 DEF Order, OnceOnly
    <3>4. \A s \in File : Recorded(s)' => ~Carried(s)'
      BY <2>1, <2>2 DEF Order, OnceOnly, Recorded
    <3> QED
      BY <3>1, <3>2, <3>3, <3>4 DEF OnceOnly
  <2>5. PhasesInOrder'
    BY <1>1, <1>2, <2>2 DEF Order, PhasesInOrder, RemoveSources, flags, Interrupted
  <2>6. \A s : Begun(s)' => Begun(s)
    BY <1>2, <2>1, <2>2 DEF Begun, Recorded
  <2> QED
    BY <1>1, <2>4, <2>5, <2>6, AsideOrder
<1>4. CASE Open(w) \/ ReadSource(w) \/ CheckCopy(w) \/ Publish(w)
  <2>1. /\ queue' = queue
        /\ \A v \in Worker : TaskOf(v)' = TaskOf(v) /\ (Busy(v)' <=> Busy(v))
        /\ \A x : Carried(x)' <=> Carried(x)
        /\ Busy(w)
    BY <1>4, GoOnCarries
  <2>2. UNCHANGED <<journal, flags>>
    BY <1>4 DEF Open, ReadSource, CheckCopy, Publish
  <2>3. OnceOnly'
    BY <2>1, <2>2 DEF Order, OnceOnly, Recorded
  <2>4. PhasesInOrder'
    BY <1>1, <1>2, <2>1, <2>2
       DEF Order, PhasesInOrder, RemoveSources, flags, Interrupted, Busy
  <2>5. \A s : Begun(s)' => Begun(s)
    BY <1>2, <2>1, <2>2 DEF Begun, Recorded
  <2> QED
    BY <1>1, <2>3, <2>4, <2>5, AsideOrder
<1>5. CASE RecordCopied(w) \/ CopyFails(w)
  <2>1. /\ queue' = queue /\ Busy(w) /\ ~Busy(w)'
        /\ \A v \in Worker : v # w => worker'[v] = worker[v]
        /\ \A x : Carried(x)' <=> Carried(x) /\ x # TaskOf(w).source
        /\ Carried(TaskOf(w).source)
    BY <1>5, RestCarries DEF Order
  <2>2. TaskOf(w).source \in File /\ TaskOf(w).time \in 0 .. 9
    BY <2>1, TaskTyped DEF Busy, Task
  <2>3. /\ \A x : Recorded(x)' => Recorded(x) \/ x = TaskOf(w).source
        /\ journal' # <<>> => RemoveSources \/ journal # <<>>
    <3>1. CASE RecordCopied(w)
      BY <2>2, <3>1, JournalGrows DEF RecordCopied, Soundness
    <3>2. CASE CopyFails(w)
      BY <3>2 DEF CopyFails, Recorded
    <3> QED
      BY <1>5, <3>1, <3>2
  <2>4. OnceOnly'
    <3>1. \A v \in Worker : Busy(v)' => v # w /\ Busy(v) /\ TaskOf(v)' = TaskOf(v)
      BY <2>1 DEF Busy, At, TaskOf
    <3>2. \A s \in File : Recorded(s)' => ~Carried(s)'
      BY <2>1, <2>3 DEF Order, OnceOnly
    <3> QED
      BY <2>1, <3>1, <3>2 DEF Order, OnceOnly
  <2>5. PhasesInOrder'
    BY <1>1, <1>2, <2>1, <2>3 DEF Order, PhasesInOrder, RemoveSources, Interrupted, Busy
  <2>6. \A s : Begun(s)' => Begun(s)
    BY <1>2, <2>1, <2>2, <2>3 DEF Begun
  <2> QED
    BY <1>1, <2>4, <2>5, <2>6, AsideOrder
<1> QED
  BY <1>3, <1>4, <1>5 DEF Work

LEMMA CleanupOrder ==
    ASSUME Soundness, Order, Cleanup
    PROVE  Order'
<1> USE DEF disk, discovery, flags, bounds, history
<1>1. UNCHANGED <<operation, frames, cur, queue, worker, cancelled, verdict, home>>
  BY DEF Cleanup, Join, RemoveSource, CleanupFails, CleanupEnds, Prune, PruneEnds
<1>2. \A x : Carried(x)' = Carried(x)
  BY <1>1 DEF Carried, Busy, At, TaskOf
<1>3. CASE UNCHANGED <<src, journal>> /\ (Join \/ CleanupFails \/ CleanupEnds \/ PruneEnds)
  <2>1. OnceOnly' /\ \A s : Begun(s)' => Begun(s)
    BY <1>1, <1>3, BegunStays DEF Order
  <2>2. PhasesInOrder'
    <3>1. CASE Join
      BY <1>1, <1>3, <3>1
         DEF Join, WorkersDone, Order, PhasesInOrder, RemoveSources, Gone,
             Interrupted, At
    <3>2. CASE CleanupFails
      BY <1>1, <1>3, <3>2
         DEF CleanupFails, Order, PhasesInOrder, RemoveSources, Gone, Interrupted, At
    <3>3. CASE CleanupEnds \/ PruneEnds
      BY <1>1, <1>3, <3>3
         DEF CleanupEnds, PruneEnds, Order, PhasesInOrder, RemoveSources, Gone,
             Interrupted, At
    <3> QED
      BY <1>3, <3>1, <3>2, <3>3
  <2>3. pc' # "ask"
    BY <1>3 DEF Join, CleanupFails, CleanupEnds, PruneEnds
  <2> QED
    BY <1>1, <2>1, <2>2, <2>3, AsideOrder
<1>4. CASE RemoveSource
  <2>1. /\ pc = "cleanup" /\ journal # <<>> /\ pc' = pc /\ journal' = Tail(journal)
        /\ src' = [src EXCEPT ![Oldest.source].kind = "gone"]
        /\ UNCHANGED <<stopped, failed>>
        /\ journal \in Seq([source : File, time : 0 .. 10])
        /\ src \in [Source -> Entry]
    BY <1>4 DEF RemoveSource, Soundness, RestTyped, SourcesTyped
  <2>2. /\ \A i \in DOMAIN journal' : i + 1 \in DOMAIN journal /\ journal'[i] = journal[i + 1]
        /\ 1 \in DOMAIN journal /\ Oldest = journal[1]
    BY <2>1, HeadTailProperties DEF Oldest
  <2>3. \A x : Recorded(x)' => Recorded(x)
    BY <2>2 DEF Recorded
  <2>4. Recorded(Oldest.source)
    BY <2>2 DEF Recorded
  <2>5. \A x \in Source : Gone(x)' => Gone(x) \/ x = Oldest.source
    BY <2>1 DEF Gone, Entry
  <2>6. \A s : Begun(s)' => Begun(s)
    BY <1>2, <2>3, <2>4, <2>5 DEF Begun, Source
  <2>7. OnceOnly'
    BY <1>1, <1>2, <2>3 DEF Order, OnceOnly, Busy, At, TaskOf
  <2>8. PhasesInOrder'
    BY <1>1, <2>1 DEF Order, PhasesInOrder, RemoveSources, Interrupted, At
  <2> QED
    BY <1>1, <2>1, <2>6, <2>7, <2>8, AsideOrder
<1>5. ASSUME NEW d \in Directory, Prune(d) PROVE Order'
  <2>1. /\ pc = "prune" /\ pc' = pc /\ UNCHANGED <<journal, stopped, failed>>
        /\ src' = src \/ src' = [src EXCEPT ![d].kind = "gone"]
        /\ src \in [Source -> Entry] /\ d \notin File
    BY <1>5, TransferAssumption DEF Prune, Soundness, SourcesTyped
  <2>2. \A x \in File : src'[x] = src[x]
    BY <2>1 DEF Source
  <2>3. \A x : Recorded(x)' = Recorded(x)
    BY <2>1 DEF Recorded
  <2>4. \A s : Begun(s)' => Begun(s)
    BY <1>2, <2>2, <2>3 DEF Begun, Gone
  <2>5. OnceOnly'
    BY <1>1, <1>2, <2>3 DEF Order, OnceOnly, Busy, At, TaskOf
  <2>6. PhasesInOrder'
    BY <1>1, <2>1 DEF Order, PhasesInOrder, RemoveSources, Interrupted, At
  <2> QED
    BY <1>1, <2>1, <2>4, <2>5, <2>6, AsideOrder
<1> QED
  BY <1>3, <1>4, <1>5 DEF Cleanup, Join, CleanupFails, CleanupEnds, PruneEnds

LEMMA OutsideOrder ==
    ASSUME Soundness, Order, Outside \/ UNCHANGED vars
    PROVE  Order'
<1> USE DEF disk, discovery, flags, bounds, history
<1>1. /\ UNCHANGED <<operation, pc, frames, cur, queue, worker, journal, stopped, failed,
                     verdict, home>>
      /\ cancelled => cancelled'
      /\ pc = "done" => cancelled' = cancelled
  <2>1. CASE Cancel
    BY <2>1 DEF Cancel
  <2>2. CASE UNCHANGED <<operation, discovery, queue, worker, journal, flags, history>>
    BY <2>2
  <2> QED
    BY <2>1, <2>2 DEF Outside, EditSource, EditDestination, CreateDestination, vars
<1>2. \A x \in Source : Gone(x)' => Gone(x)
  <2>1. CASE UNCHANGED src
    BY <2>1 DEF Gone
  <2>2. ASSUME NEW s \in File, EditSource(s) PROVE \A x \in Source : Gone(x)' => Gone(x)
    BY <2>2 DEF EditSource, Gone, FileOf, Soundness, SourcesTyped
  <2> QED
    BY <2>1, <2>2 DEF Outside, Cancel, EditDestination, CreateDestination, vars
<1>3. \A x : Carried(x)' = Carried(x) /\ Recorded(x)' = Recorded(x)
  BY <1>1 DEF Carried, Recorded, Busy, At, TaskOf
<1>4. \A s : Begun(s)' => Begun(s)
  BY <1>2, <1>3 DEF Begun, Source
<1>5. OnceOnly'
  BY <1>1, <1>3 DEF Order, OnceOnly, Busy, At, TaskOf
<1>6. PhasesInOrder'
  BY <1>1, <1>2 DEF Order, PhasesInOrder, RemoveSources, Interrupted, At
<1> QED
  BY <1>1, <1>4, <1>5, <1>6, AsideOrder

LEMMA InitOrder == Init => Order
<1> SUFFICES ASSUME Init PROVE Order
  OBVIOUS
<1>1. /\ frames = <<[into |-> <<>>, left |-> Roots]>> /\ cur.source = NoSource
      /\ DOMAIN frames = {1} /\ frames[1].left = Roots
      /\ queue = <<>> /\ journal = <<>> /\ NoSource \notin Source
      /\ verdict = [s \in Source |-> "none"] /\ home = [s \in Source |-> <<>>]
  BY TransferAssumption DEF Init, NoTask, NoSource
<1>2. Waiting = Roots /\ Pending = Roots
  BY <1>1, TransferAssumption DEF Waiting, Pending, Roots
<1>3. \A x : ~Carried(x) /\ ~Recorded(x)
  BY <1>1 DEF Init, Carried, Recorded, Busy, At, Idle
<1>4. \A x \in Source : ~Gone(x)
  BY DEF Init, Gone, FileOf, Folder, Source
<1>5. WalkIsApart
  <2>1. ASSUME NEW d \in Roots \cap Directory, NEW s \in Roots PROVE s \notin Below[d]
    BY SiblingsAreApart DEF Roots, Nodes
  <2> QED
    BY <1>1, <1>2, <2>1, TransferAssumption DEF WalkIsApart, Roots
<1>6. Ahead \subseteq Source
  BY InitSound, WaitingTyped DEF Soundness
<1>7. AheadIsUntouched /\ CurrentIsNew /\ SkippedIsLeft
  <2>1. \A s \in Source : ~Begun(s) /\ ~Skipped(s)
    BY <1>1, <1>3, <1>4 DEF Begun, Skipped, Source
  <2> QED
    BY <1>1, <1>6, <2>1 DEF AheadIsUntouched, CurrentIsNew, SkippedIsLeft
<1>8. OnceOnly /\ PhasesInOrder
  BY <1>1, <1>3, <1>4 DEF Init, OnceOnly, PhasesInOrder, Busy, At, Idle
<1> QED
  BY <1>5, <1>7, <1>8 DEF Order, WalkInvariant

LEMMA NextOrder == Soundness /\ Order /\ [Next]_vars => Order'
<1> SUFFICES ASSUME Soundness, Order, [Next]_vars PROVE Order'
  OBVIOUS
<1>1. CASE Discovery
  BY <1>1, AbortOrder, LeaveOrder, VisitDirectoryOrder, VisitFileOrder, DecideOrder,
     SkipOrder, KeepBothFolderOrder, RecordKeptOrder, EnqueueOrder DEF Discovery
<1>2. ASSUME NEW w \in Worker, Work(w) PROVE Order'
  BY <1>2, WorkOrder
<1> QED
  BY <1>1, <1>2, CleanupOrder, OutsideOrder DEF Next, Finished

LEMMA AlwaysInOrder == Spec => []Order
<1> QED
  BY InitOrder, NextOrder, AlwaysSound, PTL DEF Spec

(* A file the user skipped, or one inside a skipped folder, is not removed,
   whatever is decided and done about the entries around it. *)
THEOREM SkippedSourcesStay == Spec => []SkipKeepsSource
<1>1. Order => SkipKeepsSource
  BY DEF Order, WalkInvariant, SkippedIsLeft, SkipKeepsSource, Begun, Source
<1> QED
  BY <1>1, AlwaysInOrder, PTL

-----------------------------------------------------------------------------
(* What a copy publishes is counted. *)

LEMMA NextCounted == Soundness /\ Order /\ PublishedIsCounted /\ [Next]_vars => PublishedIsCounted'
<1> SUFFICES ASSUME Soundness, Order, PublishedIsCounted, [Next]_vars,
                    operation' = "Copy", NEW p \in DOMAIN dest',
                    dest'[p].kind = "file", dest'[p].data[1] \in File
             PROVE  \/ completed' > 0
                    \/ \E w \in Worker : At(w, "record")'
                    \/ \E d \in Destinations : \E q \in DOMAIN d : d[q].data = dest'[p].data
  BY DEF PublishedIsCounted
<1> USE DEF disk, discovery, flags, bounds, history
<1>1. operation = "Copy" /\ completed \in Nat /\ completed' \in Nat
  <2>1. Soundness' /\ UNCHANGED operation
    BY NextSound
       DEF Next, Discovery, VisitInterrupted, VisitFails, LeaveDirectory,
           VisitDirectory, VisitFile, AskAgain, KeepSource, KeepDestination,
           SkipFile, SkipFolder, KeepBoth, KeepBothFolder, ResolveFails,
           RecordKept, Reserve, PlaceFails, Enqueue, EndDiscovery, Work, Receive,
           Open, ReadSource, CheckCopy, Publish, RecordCopied, CopyFails, Cleanup,
           Join, RemoveSource, CleanupFails, CleanupEnds, Prune, PruneEnds,
           Outside, Cancel, EditSource, EditDestination, CreateDestination,
           Finished, vars
  <2> QED
    BY <2>1 DEF Soundness, RestTyped
\* The counter only grows.
<1>2. completed > 0 => completed' > 0
  <2>1. CASE Join
    <3>1. CASE Interrupted
      BY <2>1, <3>1 DEF Join
    <3>2. CASE ~Interrupted
      <4>1. completed' = Cardinality(Source)
        BY <2>1, <3>2 DEF Join
      <4>2. Source # {}
        BY DEF Source
      <4> QED
        BY <1>1, <4>1, <4>2, TransferAssumption, FS_EmptySet, FS_CardinalityType
    <3> QED
      BY <3>1, <3>2
  <2>2. CASE completed' \in {completed, completed + 1}
    BY <1>1, <2>2
  <2> QED
    BY <2>1, <2>2
       DEF Next, Discovery, VisitInterrupted, VisitFails, LeaveDirectory,
           VisitDirectory, VisitFile, AskAgain, KeepSource, KeepDestination,
           SkipFile, SkipFolder, KeepBoth, KeepBothFolder, ResolveFails,
           RecordKept, Reserve, PlaceFails, Enqueue, EndDiscovery, Work, Receive,
           Open, ReadSource, CheckCopy, Publish, RecordCopied, CopyFails, Cleanup,
           RemoveSource, CleanupFails, CleanupEnds, Prune, PruneEnds, Outside,
           Cancel, EditSource, EditDestination, CreateDestination, Finished, vars
\* A worker that has published rests only when it has counted.
<1>3. ASSUME NEW w \in Worker, At(w, "record")
      PROVE  completed' > 0 \/ At(w, "record")'
  <2>1. worker \in [Worker -> Workers]
    BY DEF Soundness, WorkersTyped
  <2>2. CASE UNCHANGED worker
    BY <1>3, <2>2 DEF At
  <2>3. ASSUME NEW v \in Worker, Work(v) PROVE completed' > 0 \/ At(w, "record")'
    <3>1. CASE v = w
      <4>1. CASE RecordCopied(v)
        BY <1>1, <4>1 DEF RecordCopied
      <4>2. ~CopyFails(v)
        BY <1>1, <1>3, <3>1 DEF CopyFails, At, RemoveSources
      <4> QED
        BY <1>3, <2>3, <3>1, <4>1, <4>2
           DEF Work, Receive, Open, ReadSource, CheckCopy, Publish, At
    <3>2. CASE v # w
      <4>1. worker'[w] = worker[w]
        <5>1. CASE Receive(v)
          BY <2>1, <3>2, <5>1 DEF Receive
        <5>2. CASE Open(v) \/ ReadSource(v) \/ CheckCopy(v) \/ Publish(v)
          BY <3>2, <5>2, GoOnCarries
        <5>3. CASE RecordCopied(v) \/ CopyFails(v)
          BY <3>2, <5>3, RestCarries DEF Order
        <5> QED
          BY <2>3, <5>1, <5>2, <5>3 DEF Work
      <4> QED
        BY <1>3, <4>1 DEF At
    <3> QED
      BY <3>1, <3>2
  <2> QED
    BY <2>2, <2>3
       DEF Next, Discovery, VisitInterrupted, VisitFails, LeaveDirectory,
           VisitDirectory, VisitFile, AskAgain, KeepSource, KeepDestination,
           SkipFile, SkipFolder, KeepBoth, KeepBothFolder, ResolveFails,
           RecordKept, Reserve, PlaceFails, Enqueue, EndDiscovery, Cleanup, Join,
           RemoveSource, CleanupFails, CleanupEnds, Prune, PruneEnds, Outside,
           Cancel, EditSource, EditDestination, CreateDestination, Finished, vars
<1>4. CASE p \in DOMAIN dest /\ dest'[p] = dest[p]
  <2>1. \/ completed > 0
        \/ \E w \in Worker : At(w, "record")
        \/ \E d \in Destinations : \E q \in DOMAIN d : d[q].data = dest[p].data
    BY <1>1, <1>4 DEF PublishedIsCounted
  <2> QED
    BY <1>2, <1>3, <1>4, <2>1
<1>5. ASSUME NEW w \in Worker, Publish(w)
      PROVE  At(w, "record")'
  BY <1>5 DEF Publish, Goes, At, Soundness, WorkersTyped, Workers
<1>6. ASSUME NEW path, NEW entry, dest' = Put(path, entry),
             entry.kind # "file" \/ entry.data[1] \notin File
      PROVE  p \in DOMAIN dest /\ dest'[p] = dest[p]
  BY <1>6 DEF Put
<1>7. Folder.kind # "file" /\ FileOf(<<Other, 1>>, EditTime).data[1] \notin File
  BY TransferAssumption DEF Folder, FileOf
<1>8. CASE UNCHANGED dest
  BY <1>4, <1>8
<1>9. ASSUME NEW d \in Directory, VisitDirectory(d)
      PROVE  UNCHANGED dest \/ (p \in DOMAIN dest /\ dest'[p] = dest[p])
  BY <1>6, <1>7, <1>9 DEF VisitDirectory
<1>10. ASSUME NEW all \in BOOLEAN, KeepBothFolder(all)
       PROVE  p \in DOMAIN dest /\ dest'[p] = dest[p]
  BY <1>6, <1>7, <1>10 DEF KeepBothFolder
<1>11. ASSUME NEW path \in DOMAIN dest, EditDestination(path)
       PROVE  p \in DOMAIN dest /\ dest'[p] = dest[p]
  BY <1>7, <1>11 DEF EditDestination
<1>12. ASSUME NEW path, CreateDestination(path)
       PROVE  p \in DOMAIN dest /\ dest'[p] = dest[p]
  BY <1>6, <1>7, <1>12 DEF CreateDestination
<1> QED
  BY <1>4, <1>5, <1>8, <1>9, <1>10, <1>11, <1>12
     DEF Next, Discovery, VisitInterrupted, VisitFails, LeaveDirectory, VisitFile,
         AskAgain, KeepSource, KeepDestination, SkipFile, SkipFolder, KeepBoth,
         ResolveFails, RecordKept, Reserve, PlaceFails, Enqueue, EndDiscovery,
         Work, Receive, Open, ReadSource, CheckCopy, RecordCopied, CopyFails,
         Cleanup, Join, RemoveSource, CleanupFails, CleanupEnds, Prune, PruneEnds,
         Outside, Cancel, EditSource, Finished, vars

LEMMA AlwaysCounted == Spec => []PublishedIsCounted
<1>1. Init => PublishedIsCounted
  BY DEF Init, PublishedIsCounted
<1> QED
  BY <1>1, NextCounted, AlwaysSound, AlwaysInOrder, PTL DEF Spec

(* A copy that is reported as cancelled or failed has published no file that
   was not at the destination before. *)
THEOREM UnchangedMeansUnchangedHolds == Spec => []UnchangedMeansUnchanged
<1>1. Soundness /\ Order /\ PublishedIsCounted => UnchangedMeansUnchanged
  <2> SUFFICES ASSUME Soundness, Order, PublishedIsCounted,
                      operation = "Copy", pc = "done", Outcome \in {"Cancelled", "Failed"},
                      NEW s \in File, NEW v \in {0, 1}, NEW p \in DOMAIN dest,
                      dest[p].kind = "file", dest[p].data = <<s, v>>
               PROVE  \E d \in Destinations : \E q \in DOMAIN d : d[q].data = <<s, v>>
    BY DEF UnchangedMeansUnchanged, Landed
  <2>1. ~(completed > 0)
    BY DEF Outcome
  <2>2. ~ \E w \in Worker : At(w, "record")
    BY DEF Order, PhasesInOrder, At
  <2> QED
    BY <2>1, <2>2 DEF PublishedIsCounted
<1> QED
  BY <1>1, AlwaysSound, AlwaysInOrder, AlwaysCounted, PTL

-----------------------------------------------------------------------------
(* Targets. *)

Homes == HomesAreNamed /\ HomesAreApart /\ TasksGoHome

NamedHome(s, path) ==
    \E d \in Nodes : \E n \in NamesFor(s) :
        Entered(d) /\ s \in Children[d] /\ path = Append(HomeOf(d), n)

\* At most one source gets a target, and tasks are passed on as they are.
HomeStep ==
    /\ cur'.source \in {NoSource, cur.source} \cup Ahead
    /\ \A s \in Source : home'[s] # home[s] =>
          /\ s \in Ahead \/ (s = cur.source /\ pc # "send")
          /\ NamedHome(s, home'[s])
    /\ \A s, t \in Source : home'[s] # home[s] /\ home'[t] # home[t] => s = t
    /\ \A i \in DOMAIN frames' :
          \/ \E j \in DOMAIN frames :
                frames'[i].into = frames[j].into /\ frames'[i].left \subseteq frames[j].left
          \/ \E d \in Directory :
                /\ frames'[i].into = home'[d] /\ home'[d] # <<>> /\ d # cur'.source
                /\ frames'[i].left \subseteq Children[d]
    /\ pc' \in {"ask", "place", "send"} => cur'.target = home'[cur'.source]
    /\ pc' \in {"ask", "place"} => cur'.target[Len(cur'.target)] = NameOf[cur'.source]
    /\ \A i \in DOMAIN queue' :
          \/ \E j \in DOMAIN queue : queue'[i] = queue[j]
          \/ pc = "send" /\ queue'[i] = cur
    /\ \A w \in Worker : Busy(w)' =>
          \/ Busy(w) /\ TaskOf(w)' = TaskOf(w)
          \/ \E j \in DOMAIN queue : TaskOf(w)' = queue[j]
    /\ \A r \in reserved' :
          \/ r \in reserved
          \/ pc' = "send" /\ cur'.source \in File /\ r # <<>> /\ r = home'[cur'.source]
    /\ cur'.source = cur.source /\ pc = "send" /\ cur.source \in Source => pc' = "send"

LEMMA EnteredStays ==
    ASSUME Soundness, Order, HomeStep, NEW d \in Nodes, Entered(d)
    PROVE  Entered(d)' /\ HomeOf(d)' = HomeOf(d)
<1>1. CASE d = Top
  BY <1>1 DEF Entered, HomeOf
<1>2. CASE d # Top
  <2>1. d \in Directory /\ d \in Source /\ home[d] # <<>> /\ d # cur.source /\ d # NoSource
    BY <1>2 DEF Entered, Nodes, Source, NoSource
  <2>2. d \notin Ahead
    BY <2>1 DEF Order, WalkInvariant, AheadIsUntouched
  <2>3. home'[d] = home[d] /\ d # cur'.source
    BY <2>1, <2>2 DEF HomeStep
  <2> QED
    BY <2>1, <2>3 DEF Entered, HomeOf
<1> QED
  BY <1>1, <1>2

\* The source of a task keeps its target.
LEMMA CarriedStays ==
    ASSUME Soundness, Order, HomeStep, NEW s \in File, Carried(s)
    PROVE  home'[s] = home[s] /\ s # cur.source /\ s \notin Ahead
<1>1. Begun(s) /\ s \in Source
  BY DEF Begun, Source
<1>2. s \notin Ahead /\ s # cur.source
  BY <1>1 DEF Order, WalkInvariant, AheadIsUntouched, CurrentIsNew
<1> QED
  BY <1>1, <1>2 DEF HomeStep

LEMMA AppendIsOneToOne ==
    ASSUME NEW p \in Seq(Names), NEW q \in Seq(Names), NEW m \in Names, NEW n \in Names,
           Append(p, m) = Append(q, n)
    PROVE  p = q /\ m = n
<1>1. Len(p) \in Nat /\ Len(q) \in Nat
  BY LenProperties
<1>2. Len(Append(p, m)) = Len(p) + 1 /\ Len(Append(q, n)) = Len(q) + 1
  BY AppendProperties
<1>3. Len(p) = Len(q)
  BY <1>1, <1>2
<1>4. /\ \A i \in 1 .. Len(p) : Append(p, m)[i] = p[i]
      /\ \A i \in 1 .. Len(q) : Append(q, n)[i] = q[i]
      /\ Append(p, m)[Len(p) + 1] = m /\ Append(q, n)[Len(q) + 1] = n
  BY AppendProperties
<1>5. \A i \in 1 .. Len(p) : p[i] = q[i]
  BY <1>3, <1>4
<1> QED
  BY <1>3, <1>4, <1>5, SeqEqual

LEMMA TopIsApart ==
    ASSUME NEW d \in Nodes, NEW e \in Nodes, Entered(d), Entered(e),
           HomeOf(d) = HomeOf(e), HomesAreApart
    PROVE  d = e
<1>1. \A x \in Nodes : x = Top \/ (x \in Source /\ x # Top)
  BY TransferAssumption DEF Nodes, Source
<1> QED
  BY <1>1 DEF HomesAreApart, HomeOf, Entered

LEMMA HomesGoOn ==
    ASSUME Soundness, Soundness', Order, NamesApart, Homes, HomeStep
    PROVE  Homes'
<1>1. /\ home \in [Source -> Seq(Names)] /\ home' \in [Source -> Seq(Names)]
      /\ \A d \in Nodes : Entered(d) => HomeOf(d) \in Seq(Names)
      /\ \A s \in Source : NamesFor(s) \subseteq Names
  <2>1. ASSUME NEW s \in Source PROVE NamesFor(s) \subseteq Names
    <3>1. NameOf[s] \in Names /\ Copies[NameOf[s]] \in Seq(Names)
      BY TransferAssumption DEF Names
    <3>2. \A i \in DOMAIN Copies[NameOf[s]] : Copies[NameOf[s]][i] \in Names
      BY <3>1, ElementOfSeq, LenProperties
    <3> QED
      BY <3>1, <3>2 DEF NamesFor
  <2> QED
    BY <2>1 DEF Soundness, RestTyped, HomeOf, Entered, Source
<1>2. ASSUME NEW s \in Source, NEW path, NamedHome(s, path)
      PROVE  \E d \in Directory \cup {Top} : \E n \in NamesFor(s) :
                 /\ Entered(d)' /\ s \in Children[d] /\ path = Append(HomeOf(d)', n)
  BY <1>2, EnteredStays DEF NamedHome, Nodes
<1>3. \A s \in Source : home[s] # <<>> => NamedHome(s, home[s])
  BY DEF Homes, HomesAreNamed, NamedHome, Nodes
<1>4. \A s \in Source : home'[s] # <<>> => NamedHome(s, home'[s])
  BY <1>3 DEF HomeStep
<1>5. HomesAreNamed'
  <2>1. ASSUME NEW i \in DOMAIN frames'
        PROVE  \E d \in Directory \cup {Top} :
                  /\ Entered(d)'
                  /\ frames'[i].into = HomeOf(d)' /\ frames'[i].left \subseteq Children[d]
    <3>1. ASSUME NEW j \in DOMAIN frames,
                 frames'[i].into = frames[j].into, frames'[i].left \subseteq frames[j].left
          PROVE  \E d \in Directory \cup {Top} :
                    /\ Entered(d)'
                    /\ frames'[i].into = HomeOf(d)' /\ frames'[i].left \subseteq Children[d]
      <4>1. PICK d \in Nodes : /\ Entered(d) /\ frames[j].into = HomeOf(d)
                               /\ frames[j].left \subseteq Children[d]
        BY DEF Homes, HomesAreNamed, Nodes
      <4> QED
        BY <3>1, <4>1, EnteredStays DEF Nodes
    <3>2. ASSUME NEW d \in Directory,
                 frames'[i].into = home'[d], home'[d] # <<>>, d # cur'.source,
                 frames'[i].left \subseteq Children[d]
          PROVE  Entered(d)' /\ frames'[i].into = HomeOf(d)'
      BY <3>2, TransferAssumption DEF Entered, HomeOf, Source
    <3> QED
      BY <3>1, <3>2 DEF HomeStep
  <2> QED
    BY <1>2, <1>4, <2>1 DEF HomesAreNamed
<1>6. HomesAreApart'
  <2>1. ASSUME NEW s \in Source, NEW t \in Source, s # t, home'[s] # <<>>,
               home'[s] = home'[t], home'[t] = home[t]
        PROVE  FALSE
    <3>1. PICK d \in Nodes : \E n \in NamesFor(s) :
             Entered(d) /\ s \in Children[d] /\ home'[s] = Append(HomeOf(d), n)
      BY <1>4, <2>1 DEF NamedHome
    <3>2. PICK e \in Nodes : \E n \in NamesFor(t) :
             Entered(e) /\ t \in Children[e] /\ home'[t] = Append(HomeOf(e), n)
      BY <1>4, <2>1 DEF NamedHome
    <3>3. PICK m \in NamesFor(s), n \in NamesFor(t) :
             home'[s] = Append(HomeOf(d), m) /\ home'[t] = Append(HomeOf(e), n)
      BY <3>1, <3>2
    <3>4. HomeOf(d) \in Seq(Names) /\ HomeOf(e) \in Seq(Names) /\ m \in Names /\ n \in Names
      BY <1>1, <3>1, <3>2
    <3>5. HomeOf(d) = HomeOf(e) /\ m = n
      BY <2>1, <3>3, <3>4, AppendIsOneToOne
    <3>6. d = e
      BY <3>1, <3>2, <3>5, TopIsApart DEF Homes
    <3> QED
      BY <2>1, <3>1, <3>2, <3>3, <3>5, <3>6, TransferAssumption DEF NamesApart, Nodes
  <2> SUFFICES ASSUME NEW s \in Source, NEW t \in Source, s # t, home'[s] # <<>>
               PROVE  home'[s] # home'[t]
    BY DEF HomesAreApart
  <2>2. CASE home'[t] = home[t]
    BY <2>1, <2>2
  <2>3. CASE home'[s] = home[s]
    BY <2>1, <2>3
  <2> QED
    BY <2>2, <2>3 DEF HomeStep
<1>7. \A i \in DOMAIN queue :
         /\ queue[i].source \in File /\ Carried(queue[i].source)
         /\ home'[queue[i].source] = queue[i].target
  <2>1. ASSUME NEW i \in DOMAIN queue
        PROVE  queue[i].source \in File /\ Carried(queue[i].source)
    <3>1. i \in 1 .. Len(queue)
      BY LenProperties DEF Soundness, QueueTyped
    <3> QED
      BY <3>1 DEF Soundness, QueueTyped, Carried
  <2> QED
    BY <2>1, CarriedStays DEF Homes, TasksGoHome
<1>8. \A w \in Worker : Busy(w) =>
         /\ TaskOf(w).source \in File /\ Carried(TaskOf(w).source)
         /\ home'[TaskOf(w).source] = TaskOf(w).target
  <2>1. ASSUME NEW w \in Worker, Busy(w)
        PROVE  TaskOf(w).source \in File /\ Carried(TaskOf(w).source)
    BY <2>1, TaskTyped DEF Busy, Carried
  <2> QED
    BY <2>1, CarriedStays DEF Homes, TasksGoHome
<1>9. TasksGoHome'
  <2>1. \A i \in DOMAIN queue' : queue'[i].target = home'[queue'[i].source]
    <3>1. pc = "send" => cur.source \in Source /\ home'[cur.source] = cur.target
      <4>1. ASSUME pc = "send" PROVE cur.source \in Source /\ cur.source \notin Ahead
        BY <4>1, CurrentNotAhead DEF Order, PhasesInOrder, WalkInvariant, Soundness
      <4> QED
        BY <4>1 DEF HomeStep, Homes, TasksGoHome
    <3> QED
      BY <1>7, <3>1 DEF HomeStep
  <2>2. \A w \in Worker : Busy(w)' => TaskOf(w)'.target = home'[TaskOf(w)'.source]
    BY <1>7, <1>8 DEF HomeStep
  <2>3. ASSUME NEW r \in reserved'
        PROVE  r # <<>> /\ \E s \in File : home'[s] = r /\ (s = cur'.source => pc' = "send")
    <3>1. CASE r \in reserved
      <4>1. PICK s \in File : home[s] = r /\ r # <<>> /\ (s = cur.source => pc = "send")
        BY <3>1 DEF Homes, TasksGoHome
      <4>2. s \in Source /\ s \notin Ahead /\ s # NoSource
        BY <4>1, WaitingTyped
           DEF Source, Order, WalkInvariant, AheadIsUntouched, Soundness
      <4>3. home'[s] = home[s]
        BY <4>1, <4>2 DEF HomeStep
      <4> QED
        BY <4>1, <4>2, <4>3 DEF HomeStep
    <3>2. CASE r \notin reserved
      BY <3>2 DEF HomeStep
    <3> QED
      BY <3>1, <3>2
  <2> QED
    BY <2>1, <2>2, <2>3 DEF TasksGoHome, HomeStep
<1> QED
  BY <1>5, <1>6, <1>9 DEF Homes

LEMMA PushEntries ==
    ASSUME NEW x \in Frames, NEW fs \in Seq(Frames), NEW i \in DOMAIN (<<x>> \o fs)
    PROVE  (<<x>> \o fs)[i] = x \/ \E j \in DOMAIN fs : (<<x>> \o fs)[i] = fs[j]
<1> DEFINE gs == <<x>> \o fs
<1>1. /\ DOMAIN gs = 1 .. Len(fs) + 1 /\ DOMAIN fs = 1 .. Len(fs) /\ Len(fs) \in Nat
      /\ gs[1] = x /\ \A j \in 1 .. Len(fs) : gs[j + 1] = fs[j]
  OBVIOUS
<1> HIDE DEF gs
<1>2. i \in DOMAIN gs
  BY DEF gs
<1>3. i = 1 \/ (i - 1 \in 1 .. Len(fs) /\ i = (i - 1) + 1)
  BY <1>1, <1>2
<1>4. gs[i] = x \/ \E j \in DOMAIN fs : gs[i] = fs[j]
  BY <1>1, <1>3
<1> QED
  BY <1>4 DEF gs

Inherits(frame, j) == frame.into = frames[j].into /\ frame.left \subseteq frames[j].left

LEMMA TailEntries ==
    ASSUME DiscoveryTyped, frames # <<>>, NEW i \in DOMAIN Tail(frames)
    PROVE  \E j \in DOMAIN frames : Tail(frames)[i] = frames[j]
<1>1. /\ frames \in Seq(Frames) /\ DOMAIN Tail(frames) = 1 .. Len(frames) - 1
      /\ DOMAIN frames = 1 .. Len(frames) /\ Len(frames) \in Nat
      /\ \A j \in 1 .. Len(frames) - 1 : Tail(frames)[j] = frames[j + 1]
  BY DEF DiscoveryTyped
<1>2. i + 1 \in DOMAIN frames /\ Tail(frames)[i] = frames[i + 1]
  BY <1>1
<1> QED
  BY <1>2

LEMMA LeftEntries ==
    ASSUME DiscoveryTyped, frames # <<>>, NEW s, NEW i \in DOMAIN Left(s)
    PROVE  \E j \in DOMAIN frames : Inherits(Left(s)[i], j)
<1> DEFINE x == [Frame EXCEPT !.left = @ \ {s}]
<1>1. /\ Frame \in Frames /\ Tail(frames) \in Seq(Frames)
      /\ 1 \in DOMAIN frames /\ Frame = frames[1]
  BY FramesTyped, HeadTailProperties DEF Frame, DiscoveryTyped
<1>2. x \in Frames /\ x.into = Frame.into /\ x.left \subseteq Frame.left
  BY <1>1 DEF Frames
<1>3. Left(s) = <<x>> \o Tail(frames)
  BY DEF Left
<1> HIDE DEF x
<1>4. Left(s)[i] = x \/ \E j \in DOMAIN Tail(frames) : Left(s)[i] = Tail(frames)[j]
  BY <1>1, <1>2, <1>3, PushEntries
<1> QED
  BY <1>1, <1>2, <1>4, TailEntries DEF Inherits

LEMMA EnterEntries ==
    ASSUME NEW d \in Directory, NEW path \in Seq(Names), NEW fs \in Seq(Frames),
           NEW i \in DOMAIN (<<Enter(d, path)>> \o fs)
    PROVE  \/ /\ (<<Enter(d, path)>> \o fs)[i].into = path
              /\ (<<Enter(d, path)>> \o fs)[i].left = Children[d]
           \/ \E j \in DOMAIN fs : (<<Enter(d, path)>> \o fs)[i] = fs[j]
<1>1. Enter(d, path) \in Frames /\ Enter(d, path).into = path /\ Enter(d, path).left = Children[d]
  BY TransferAssumption DEF Enter, Frames
<1> HIDE DEF Enter
<1> QED
  BY <1>1, PushEntries

LEMMA SiblingNamed ==
    ASSUME NEW path \in Seq(Names), path # <<>>, NEW m \in Names
    PROVE  /\ Sibling(path, m) \in Seq(Names) /\ Len(Sibling(path, m)) = Len(path)
           /\ \A j \in 1 .. Len(path) :
                 Sibling(path, m)[j] = IF j = Len(path) THEN m ELSE path[j]
<1>1. Len(path) \in 1 .. Len(path)
  BY EmptySeq
<1>2. /\ [path EXCEPT ![Len(path)] = m] \in Seq(Names)
      /\ Len([path EXCEPT ![Len(path)] = m]) = Len(path)
  BY <1>1, ExceptSeq
<1>3. \A j \in 1 .. Len(path) :
         [path EXCEPT ![Len(path)] = m][j] = IF j = Len(path) THEN m ELSE path[j]
  BY <1>1, DOMAIN path = 1 .. Len(path)
<1> QED
  BY <1>2, <1>3 DEF Sibling

\* Keep both replaces the last name by one of its copies.
LEMMA KeepBothNamed ==
    ASSUME NEW q \in Seq(Names), NEW n \in Names, FreeTried(Append(q, n)) # {}
    PROVE  \E m \in {n} \cup {Copies[n][i] : i \in DOMAIN Copies[n]} :
               KeepBothTarget(Append(q, n)) = Append(q, m)
<1> DEFINE path == Append(q, n)
           others == [i \in DOMAIN Copies[n] |-> Sibling(path, Copies[n][i])]
<1>1. /\ path \in Seq(Names) /\ path # <<>> /\ Len(path) = Len(q) + 1 /\ Len(q) \in Nat
      /\ path[Len(path)] = n /\ \A j \in 1 .. Len(q) : path[j] = q[j]
  BY AppendProperties, LenProperties
<1>2. Copies[n] \in Seq(Names)
  BY TransferAssumption DEF Names
<1>3. ASSUME NEW m \in Names PROVE Sibling(path, m) = Append(q, m)
  <2> HIDE DEF path
  <2>1. /\ Sibling(path, m) \in Seq(Names) /\ Len(Sibling(path, m)) = Len(path)
        /\ \A j \in 1 .. Len(path) : Sibling(path, m)[j] = IF j = Len(path) THEN m ELSE path[j]
    BY <1>1, SiblingNamed
  <2>2. /\ Append(q, m) \in Seq(Names) /\ Len(Append(q, m)) = Len(q) + 1
        /\ \A j \in 1 .. Len(q) : Append(q, m)[j] = q[j]
        /\ Append(q, m)[Len(q) + 1] = m
    BY AppendProperties
  <2>3. \A j \in 1 .. Len(Append(q, m)) : Sibling(path, m)[j] = Append(q, m)[j]
    BY <1>1, <2>1, <2>2
  <2> QED
    BY <1>1, <2>1, <2>2, <2>3, SeqEqual
<1>4. PICK i \in FreeTried(path) : KeepBothTarget(path) = Tried(path)[i]
  BY <1>1, KeepBothTargetFree
<1>5. i \in DOMAIN Tried(path) /\ Tried(path) = <<path>> \o others
  BY <1>1 DEF FreeTried, Tried
<1>6. /\ DOMAIN others = DOMAIN Copies[n] /\ DOMAIN Copies[n] = 1 .. Len(Copies[n])
      /\ Len(Copies[n]) \in Nat
      /\ \A j \in 1 .. Len(Copies[n]) : Copies[n][j] \in Names
  BY <1>2, LenProperties, ElementOfSeq
<1>7. \A j \in DOMAIN Copies[n] : others[j] = Append(q, Copies[n][j])
  BY <1>3, <1>6
<1>8. others \in Seq(Seq(Names))
  <2> HIDE DEF path
  <2>1. \A j \in 1 .. Len(Copies[n]) : Sibling(path, Copies[n][j]) \in Seq(Names)
    BY <1>1, <1>6, SiblingNamed
  <2> QED
    BY <1>6, <2>1
<1> HIDE DEF others, path
<1>9. Tried(path)[i] = path \/ \E j \in DOMAIN others : Tried(path)[i] = others[j]
  <2>1. /\ DOMAIN Tried(path) = 1 .. Len(others) + 1 /\ DOMAIN others = 1 .. Len(others)
        /\ Len(others) \in Nat
        /\ Tried(path)[1] = path /\ \A j \in 1 .. Len(others) : Tried(path)[j + 1] = others[j]
    BY <1>1, <1>5, <1>8
  <2>2. i = 1 \/ (i - 1 \in 1 .. Len(others) /\ i = (i - 1) + 1)
    BY <1>5, <2>1
  <2> QED
    BY <2>1, <2>2
<1> QED
  BY <1>4, <1>6, <1>7, <1>9 DEF path

-----------------------------------------------------------------------------
(* Every step gives one source a target at most. *)

\* A step that finds no target.
LEMMA NoTargetFound ==
    ASSUME Soundness, Order, Homes, UNCHANGED home,
           \/ cur'.source = NoSource
           \/ cur'.source = cur.source /\ cur'.target = cur.target,
           pc' \in {"ask", "place", "send"} => pc \in {"ask", "place", "send"}
              /\ cur'.source = cur.source /\ cur'.target = cur.target,
           pc' \in {"ask", "place"} => pc \in {"ask", "place"},
           cur'.source = cur.source /\ pc = "send" /\ cur.source \in Source => pc' = "send",
           \A i \in DOMAIN frames' : \E j \in DOMAIN frames :
              frames'[i].into = frames[j].into /\ frames'[i].left \subseteq frames[j].left,
           \A i \in DOMAIN queue' :
              \/ \E j \in DOMAIN queue : queue'[i] = queue[j]
              \/ pc = "send" /\ queue'[i] = cur,
           \A w \in Worker : Busy(w)' =>
              \/ Busy(w) /\ TaskOf(w)' = TaskOf(w)
              \/ \E j \in DOMAIN queue : TaskOf(w)' = queue[j],
           \A r \in reserved' :
              \/ r \in reserved
              \/ pc' = "send" /\ cur'.source \in File /\ r # <<>> /\ r = cur.target
    PROVE  HomeStep
  BY DEF HomeStep, Homes, TasksGoHome

LEMMA TasksStay ==
    ASSUME UNCHANGED <<queue, worker>>
    PROVE  /\ \A i \in DOMAIN queue' : \E j \in DOMAIN queue : queue'[i] = queue[j]
           /\ \A w \in Worker : Busy(w)' => Busy(w) /\ TaskOf(w)' = TaskOf(w)
  BY DEF Busy, At, TaskOf

LEMMA AbortHomes ==
    ASSUME Soundness, Order, Homes, VisitInterrupted \/ VisitFails \/ ResolveFails \/ PlaceFails
    PROVE  HomeStep
<1>1. /\ Abort
      /\ UNCHANGED <<reserved, queue, worker, home>>
  BY DEF VisitInterrupted, VisitFails, ResolveFails, PlaceFails, history
<1>2. frames' = <<>> /\ cur'.source = NoSource /\ pc' = "join" /\ NoSource \notin Source
  BY <1>1, TransferAssumption DEF Abort, NoTask, NoSource
<1>3. DOMAIN frames' = {}
  BY <1>2
<1> QED
  BY <1>1, <1>2, <1>3, NoTargetFound, TasksStay

LEMMA LeaveHomes ==
    ASSUME Soundness, Order, Homes, LeaveDirectory \/ EndDiscovery
    PROVE  HomeStep
<1>1. /\ pc = "visit" /\ pc' \in {"visit", "join"}
      /\ UNCHANGED <<cur, reserved, queue, worker, home>>
  BY DEF LeaveDirectory, EndDiscovery, Inside, history
<1>2. \A i \in DOMAIN frames' : \E j \in DOMAIN frames :
          frames'[i].into = frames[j].into /\ frames'[i].left \subseteq frames[j].left
  <2>1. CASE LeaveDirectory
    BY <2>1, TailEntries DEF LeaveDirectory, Inside, Soundness
  <2>2. CASE EndDiscovery
    BY <2>2 DEF EndDiscovery
  <2> QED
    BY <2>1, <2>2
<1> QED
  BY <1>1, <1>2, NoTargetFound, TasksStay

LEMMA DecideHomes ==
    ASSUME Soundness, Order, Homes,
           \/ \E action \in FileActions : AskAgain(action)
           \/ \E action \in FileActions, all \in BOOLEAN :
                 KeepSource(action, all) \/ KeepDestination(action, all)
           \/ Reserve
    PROVE  HomeStep
<1>1. /\ pc \in {"ask", "place"} /\ pc' \in {"ask", "place", "send"}
      /\ pc' = "send" => cur.source \in File /\ cur.target # <<>>
      /\ cur'.source = cur.source /\ cur'.target = cur.target /\ cur'.source # NoSource
      /\ reserved' = reserved \/ (reserved' = reserved \cup {cur.target} /\ pc' = "send")
      /\ UNCHANGED <<frames, queue, worker, home>>
  <2>1. pc \in {"ask", "place"} => cur \in Task /\ cur.target # <<>> /\ cur.source \in Source
        /\ cur.source # NoSource
    BY TransferAssumption DEF Soundness, DiscoveryTyped, NoSource, Source
  <2>2. pc = "place" => cur.source \in File
    BY DEF Soundness, DiscoveryTyped
  <2> QED
    BY <2>1, <2>2
       DEF AskAgain, KeepSource, KeepDestination, Reserve, Chosen, history, Task
<1> QED
  BY <1>1, NoTargetFound, TasksStay

LEMMA DropHomes ==
    ASSUME Soundness, Order, Homes,
           \/ RecordKept
           \/ \E action \in FileActions, all \in BOOLEAN :
                 SkipFile(action, all) \/ SkipFolder(action, all)
    PROVE  HomeStep
<1>1. /\ pc \in {"ask", "place"} /\ pc' = "visit"
      /\ cur'.source = NoSource
      /\ UNCHANGED <<frames, reserved, queue, worker, home>>
  BY DEF RecordKept, SkipFile, SkipFolder, Chosen, history, NoTask
<1> QED
  BY <1>1, NoTargetFound, TasksStay

LEMMA EnqueueHomes ==
    ASSUME Soundness, Order, Homes, Enqueue
    PROVE  HomeStep
<1>1. /\ pc = "send" /\ pc' = "visit" /\ cur'.source = NoSource /\ NoSource \notin Source
      /\ UNCHANGED <<frames, reserved, worker, home>>
  BY TransferAssumption DEF Enqueue, history, NoTask, NoSource
<1>2. \A i \in DOMAIN queue' :
         (\E j \in DOMAIN queue : queue'[i] = queue[j]) \/ queue'[i] = cur
  BY EnqueueCarries
<1>3. \A w \in Worker : Busy(w)' => Busy(w) /\ TaskOf(w)' = TaskOf(w)
  BY <1>1 DEF Busy, At, TaskOf
<1> QED
  BY <1>1, <1>2, <1>3, NoTargetFound

LEMMA WorkHomes ==
    ASSUME Soundness, Order, Homes, NEW w \in Worker, Work(w)
    PROVE  HomeStep
<1>1. UNCHANGED <<pc, frames, cur, reserved, home>>
  BY DEF Work, Receive, Open, ReadSource, CheckCopy, Publish, RecordCopied, CopyFails,
         discovery, history
<1>2. /\ \A i \in DOMAIN queue' : \E j \in DOMAIN queue : queue'[i] = queue[j]
      /\ \A v \in Worker : Busy(v)' =>
            \/ Busy(v) /\ TaskOf(v)' = TaskOf(v)
            \/ \E j \in DOMAIN queue : TaskOf(v)' = queue[j]
  <2>1. CASE Receive(w)
    <3>1. \A i \in DOMAIN queue' : \E j \in DOMAIN queue : queue'[i] = queue[j]
      BY <2>1, ReceiveCarries
    <3>2. 1 \in DOMAIN queue /\ Head(queue) = queue[1]
      BY <2>1, ReceiveCarries
    <3>3. ASSUME NEW v \in Worker, Busy(v)'
          PROVE  \/ Busy(v) /\ TaskOf(v)' = TaskOf(v)
                 \/ TaskOf(v)' = queue[1]
      <4>1. worker \in [Worker -> Workers]
        BY DEF Soundness, WorkersTyped
      <4> QED
        BY <2>1, <3>2, <3>3, <4>1 DEF Receive, Busy, At, TaskOf
    <3> QED
      BY <3>1, <3>2, <3>3
  <2>2. CASE Open(w) \/ ReadSource(w) \/ CheckCopy(w) \/ Publish(w)
    BY <2>2, GoOnCarries
  <2>3. CASE RecordCopied(w) \/ CopyFails(w)
    <3>1. /\ queue' = queue /\ ~Busy(w)'
          /\ \A v \in Worker : v # w => worker'[v] = worker[v]
      BY <2>3, RestCarries DEF Order
    <3> QED
      BY <3>1 DEF Busy, At, TaskOf
  <2> QED
    BY <2>1, <2>2, <2>3 DEF Work
<1> QED
  BY <1>1, <1>2, NoTargetFound

LEMMA AsideHomes ==
    ASSUME Soundness, Order, Homes, Cleanup \/ Outside \/ UNCHANGED vars
    PROVE  HomeStep
<1> USE DEF disk, discovery, flags, bounds, history
<1>1. /\ UNCHANGED <<frames, cur, reserved, queue, worker, home>>
      /\ pc' = pc \/ pc' \in {"cleanup", "prune", "done"}
  <2>1. CASE Cleanup
    BY <2>1 DEF Cleanup, Join, RemoveSource, CleanupFails, CleanupEnds, Prune, PruneEnds
  <2>2. CASE Outside
    BY <2>2 DEF Outside, Cancel, EditSource, EditDestination, CreateDestination
  <2>3. CASE UNCHANGED vars
    BY <2>3 DEF vars
  <2> QED
    BY <2>1, <2>2, <2>3
<1>2. cur.source \in Source /\ pc = "send" => pc' = "send"
  <2>1. CASE Cleanup
    BY <2>1 DEF Cleanup, Join, RemoveSource, CleanupFails, CleanupEnds, Prune, PruneEnds
  <2>2. CASE Outside
    BY <2>2 DEF Outside, Cancel, EditSource, EditDestination, CreateDestination
  <2>3. CASE UNCHANGED vars
    BY <2>3 DEF vars
  <2> QED
    BY <2>1, <2>2, <2>3
<1> QED
  BY <1>1, <1>2, NoTargetFound, TasksStay

LEMMA FirstFrameNamed ==
    ASSUME Soundness, Order, Homes, frames # <<>>, NEW s \in Frame.left
    PROVE  NamedHome(s, Append(Frame.into, NameOf[s]))
<1>1. 1 \in DOMAIN frames /\ Frame = frames[1]
  BY HeadTailProperties DEF Frame, Soundness, DiscoveryTyped
<1>2. PICK d \in Nodes : /\ Entered(d) /\ Frame.into = HomeOf(d)
                         /\ Frame.left \subseteq Children[d]
  BY <1>1 DEF Homes, HomesAreNamed, Nodes
<1> QED
  BY <1>2 DEF NamedHome, NamesFor

LEMMA VisitDirectoryHomes ==
    ASSUME Soundness, Order, Homes, NEW d \in Directory, VisitDirectory(d)
    PROVE  HomeStep
<1> DEFINE path == Append(Frame.into, NameOf[d])
<1>1. /\ pc = "visit" /\ frames # <<>> /\ d \in Frame.left /\ d \in Source
      /\ UNCHANGED <<reserved, queue, worker>>
      /\ home' = [home EXCEPT ![d] = path] /\ home \in [Source -> Seq(Names)]
  BY DEF VisitDirectory, Inside, Source, Found, Soundness, RestTyped
<1>2. DiscoveryTyped /\ WalkIsApart /\ cur.source = NoSource /\ NoSource \notin Source
  BY <1>1, WaitingTyped DEF Soundness, Order, WalkInvariant, PhasesInOrder
<1>3. /\ Left(d) \in Seq(Frames) /\ path \in Seq(Names) /\ path # <<>> /\ d \in Ahead
      /\ Frame.into \in Seq(Names) /\ NameOf[d] \in Names
  BY <1>1, <1>2, LeftWalk, PathsTyped, WaitingTyped, FramesTyped, AppendProperties,
     TransferAssumption
     DEF Frames, Names
<1>4. NamedHome(d, path)
  BY <1>1, <1>2, FirstFrameNamed
<1>5. /\ \A s \in Source : home'[s] # home[s] => s = d
      /\ home'[d] = path
  BY <1>1
<1> HIDE DEF path
<1>6. \A i \in DOMAIN Left(d) : \E j \in DOMAIN frames :
         Left(d)[i].into = frames[j].into /\ Left(d)[i].left \subseteq frames[j].left
  BY <1>1, <1>2, LeftEntries DEF Inherits
<1>7. CASE /\ frames' = <<Enter(d, path)>> \o Left(d)
           /\ UNCHANGED <<pc, cur>>
  <2>1. \A i \in DOMAIN frames' :
           \/ frames'[i].into = path /\ frames'[i].left = Children[d]
           \/ \E j \in DOMAIN Left(d) : frames'[i] = Left(d)[j]
    BY <1>3, <1>7, EnterEntries
  <2>2. d # cur'.source
    BY <1>1, <1>2, <1>7
  <2>3. \A i \in DOMAIN frames' :
           \/ \E j \in DOMAIN frames :
                 frames'[i].into = frames[j].into /\ frames'[i].left \subseteq frames[j].left
           \/ frames'[i].into = home'[d] /\ frames'[i].left \subseteq Children[d]
    BY <1>5, <1>6, <2>1
  <2>4. pc' = "visit"
    BY <1>1, <1>7
  <2> QED
    BY <1>1, <1>2, <1>3, <1>4, <1>5, <1>7, <2>2, <2>3, <2>4, TasksStay DEF HomeStep
<1>8. CASE cur' = Considered(d, 0, dest[path]) /\ frames' = Left(d) /\ pc' = "ask"
  <2>1. cur'.source = d /\ cur'.target = path /\ path[Len(path)] = NameOf[d]
    BY <1>3, <1>8, AppendProperties DEF Considered, path
  <2> QED
    BY <1>1, <1>2, <1>3, <1>4, <1>5, <1>6, <1>8, <2>1, TasksStay DEF HomeStep
<1> QED
  BY <1>7, <1>8 DEF VisitDirectory, path

LEMMA VisitFileHomes ==
    ASSUME Soundness, Order, Homes, NEW s \in File, VisitFile(s)
    PROVE  HomeStep
<1> DEFINE path == Append(Frame.into, NameOf[s])
<1>1. /\ pc = "visit" /\ frames # <<>> /\ s \in Frame.left /\ s \in Source
      /\ frames' = Left(s) /\ pc' \in {"ask", "place"}
      /\ cur'.source = s /\ cur'.target = path
      /\ UNCHANGED <<reserved, queue, worker>>
      /\ home' = [home EXCEPT ![s] = path] /\ home \in [Source -> Seq(Names)]
  BY DEF VisitFile, Inside, Source, Found, Soundness, RestTyped, Considered
<1>2. DiscoveryTyped /\ WalkIsApart /\ cur.source = NoSource /\ NoSource \notin Source
  BY <1>1, WaitingTyped DEF Soundness, Order, WalkInvariant, PhasesInOrder
<1>3. /\ s \in Ahead /\ Frame.into \in Seq(Names) /\ NameOf[s] \in Names
  BY <1>1, <1>2, LeftWalk, WaitingTyped, FramesTyped, TransferAssumption
     DEF Frames, Names
<1>4. NamedHome(s, path)
  BY <1>1, <1>2, FirstFrameNamed
<1>5. path[Len(path)] = NameOf[s]
  BY <1>3, AppendProperties
<1>6. /\ \A x \in Source : home'[x] # home[x] => x = s
      /\ home'[s] = path
  BY <1>1
<1> HIDE DEF path
<1>7. \A i \in DOMAIN Left(s) : \E j \in DOMAIN frames :
         Left(s)[i].into = frames[j].into /\ Left(s)[i].left \subseteq frames[j].left
  BY <1>1, <1>2, LeftEntries DEF Inherits
<1> QED
  BY <1>1, <1>2, <1>3, <1>4, <1>5, <1>6, <1>7, TasksStay DEF HomeStep

LEMMA KeepBothHomes ==
    ASSUME Soundness, Order, Homes, NEW all \in BOOLEAN,
           KeepBoth(all) \/ KeepBothFolder(all)
    PROVE  HomeStep
<1> DEFINE s == cur.source
           path == KeepBothTarget(cur.target)
<1>1. /\ pc = "ask" /\ FreeTried(cur.target) # {}
      /\ s \in Source /\ cur.target \in Seq(Names) /\ cur.target # <<>>
      /\ home \in [Source -> Seq(Names)] /\ home' = [home EXCEPT ![s] = path]
      /\ UNCHANGED <<queue, worker>>
  BY DEF KeepBoth, KeepBothFolder, Chosen, Found, Soundness, DiscoveryTyped,
         RestTyped, Task, Names
<1>2. path \in Seq(Names) /\ path # <<>>
  BY <1>1, KeepBothTargetFree
<1>3. NamedHome(s, path)
  <2>1. home[s] = cur.target /\ cur.target[Len(cur.target)] = NameOf[s]
    BY <1>1 DEF Homes, TasksGoHome
  <2>2. PICK d \in Nodes, n \in NamesFor(s) :
           /\ Entered(d) /\ s \in Children[d]
           /\ home[s] = Append(HomeOf(d), n)
    BY <1>1, <2>1 DEF Homes, HomesAreNamed, Nodes
  <2>3. HomeOf(d) \in Seq(Names)
    BY <2>2 DEF HomeOf, Entered, Soundness, RestTyped, Source
  <2>4. NameOf[s] \in Names /\ n \in Names
    <3>1. NameOf[s] \in Names /\ Copies[NameOf[s]] \in Seq(Names)
      BY <1>1, TransferAssumption DEF Names
    <3>2. \A i \in DOMAIN Copies[NameOf[s]] : Copies[NameOf[s]][i] \in Names
      BY <3>1, ElementOfSeq, LenProperties
    <3> QED
      BY <2>2, <3>1, <3>2 DEF NamesFor
  <2>5. cur.target = Append(HomeOf(d), NameOf[s])
    BY <2>1, <2>2, <2>3, <2>4, AppendProperties
  <2>6. PICK m \in NamesFor(s) : path = Append(HomeOf(d), m)
    BY <1>1, <2>3, <2>4, <2>5, KeepBothNamed DEF NamesFor
  <2> QED
    BY <2>2, <2>6 DEF NamedHome
<1>4. /\ \A x \in Source : home'[x] # home[x] => x = s
      /\ home'[s] = path
  BY <1>1
<1>5. s # NoSource
  BY <1>1, TransferAssumption DEF NoSource
<1>6. CASE KeepBoth(all)
  <2>1. /\ cur'.source = s /\ cur'.target = path /\ pc' = "send" /\ s \in File
        /\ reserved' = reserved \cup {path}
        /\ UNCHANGED frames
    <3>1. cur \in Task
      BY DEF Soundness, DiscoveryTyped
    <3> QED
      BY <1>6, <3>1 DEF KeepBoth, Task
  <2> HIDE DEF path
  <2> QED
    BY <1>1, <1>2, <1>3, <1>4, <2>1, TasksStay DEF HomeStep
<1>7. CASE KeepBothFolder(all)
  <2>1. /\ cur'.source = NoSource /\ pc' = "visit" /\ s \in Directory
        /\ frames' = <<Enter(s, path)>> \o frames /\ frames \in Seq(Frames)
        /\ UNCHANGED reserved
    BY <1>7 DEF KeepBothFolder, NoTask, Soundness, DiscoveryTyped
  <2>2. \A i \in DOMAIN frames' :
           \/ frames'[i].into = path /\ frames'[i].left = Children[s]
           \/ \E j \in DOMAIN frames : frames'[i] = frames[j]
    BY <1>2, <2>1, EnterEntries
  <2> HIDE DEF path
  <2> QED
    BY <1>1, <1>2, <1>3, <1>4, <1>5, <2>1, <2>2, TasksStay DEF HomeStep
<1> QED
  BY <1>6, <1>7

LEMMA NextHomes == Soundness /\ Order /\ Homes /\ [Next]_vars => HomeStep
<1> SUFFICES ASSUME Soundness, Order, Homes, [Next]_vars PROVE HomeStep
  OBVIOUS
<1>1. CASE Discovery
  BY <1>1, AbortHomes, LeaveHomes, VisitDirectoryHomes, VisitFileHomes, DecideHomes,
     KeepBothHomes, DropHomes, EnqueueHomes DEF Discovery
<1>2. CASE \E w \in Worker : Work(w)
  BY <1>2, WorkHomes
<1>3. CASE Cleanup \/ Outside \/ UNCHANGED vars
  BY <1>3, AsideHomes
<1> QED
  BY <1>1, <1>2, <1>3 DEF Next, Finished

LEMMA InitHomes == Init => Homes
<1> SUFFICES ASSUME Init PROVE Homes
  OBVIOUS
<1>1. /\ frames = <<[into |-> <<>>, left |-> Roots]>> /\ cur.source = NoSource /\ pc = "visit"
      /\ DOMAIN frames = {1} /\ frames[1].left = Children[Top] /\ frames[1].into = <<>>
      /\ queue = <<>> /\ reserved = {} /\ home = [s \in Source |-> <<>>]
      /\ \A w \in Worker : ~Busy(w)
  BY DEF Init, NoTask, Roots, Busy, At, Idle
<1>2. HomesAreNamed /\ HomesAreApart
  BY <1>1 DEF HomesAreNamed, HomesAreApart, Entered, HomeOf
<1>3. TasksGoHome
  BY <1>1 DEF TasksGoHome
<1> QED
  BY <1>2, <1>3 DEF Homes

LEMMA AlwaysHome ==
    ASSUME NamesApart
    PROVE  Spec => []Homes
<1>1. Soundness /\ Soundness' /\ Order /\ Homes /\ [Next]_vars => Homes'
  BY NextHomes, HomesGoOn
<1> QED
  BY <1>1, InitHomes, AlwaysSound, AlwaysInOrder, PTL DEF Spec

-----------------------------------------------------------------------------
(* What lies at the targets. *)

TaskTimed(task) == task.time \in {StartTime[task.source], EditTime}

\* The time in a task is one its source has had; only a move removes sources.
Timed ==
    /\ cur.source \in File => TaskTimed(cur)
    /\ \A i \in DOMAIN queue : TaskTimed(queue[i])
    /\ \A w \in Worker : Busy(w) => TaskTimed(TaskOf(w))
    /\ (\E s \in Source : Gone(s)) => RemoveSources

Cargo == Timed /\ KeptIsSafe /\ RecordedIsSafe /\ NothingIsForgotten

\* What stands at the destination changes by the hand of a worker, or of
\* another program that had put it there.
DestStep ==
    \A p \in DOMAIN dest :
       /\ p \in DOMAIN dest'
       /\ \/ dest'[p] = dest[p] \/ dest[p].data = <<Other, 0>>
          \/ \E w \in Worker : Publish(w) /\ At(w, "publish") /\ p = TaskOf(w).target

\* A decision is taken once.
VerdictStep ==
    \A s \in Source : verdict'[s] # verdict[s] =>
        verdict[s] = "none" /\ (s = cur.source \/ s \in Ahead)

LEMMA PutKeeps ==
    ASSUME NEW path, NEW entry, dest' = Put(path, entry)
    PROVE  \A p \in DOMAIN dest : p \in DOMAIN dest' /\ (p = path \/ dest'[p] = dest[p])
  BY DEF Put

LEMMA NextDest == Soundness /\ [Next]_vars => DestStep
<1> SUFFICES ASSUME Soundness, [Next]_vars PROVE DestStep
  OBVIOUS
<1> USE DEF disk, discovery, flags, bounds, history
<1>1. ASSUME UNCHANGED dest PROVE DestStep
  BY <1>1 DEF DestStep
<1>2. ASSUME NEW path, NEW entry, ~Exists(path), dest' = Put(path, entry) PROVE DestStep
  BY <1>2, PutKeeps DEF DestStep, Exists
<1>3. CASE Discovery
  <2>1. ASSUME NEW d \in Directory, VisitDirectory(d) PROVE DestStep
    BY <1>1, <1>2, <2>1 DEF VisitDirectory
  <2>2. ASSUME NEW all \in BOOLEAN, KeepBothFolder(all) PROVE DestStep
    <3>1. FreeTried(cur.target) # {} /\ dest' = Put(KeepBothTarget(cur.target), Folder)
      BY <2>2 DEF KeepBothFolder
    <3>2. cur.target \in Seq(Names) /\ cur.target # <<>>
      BY <2>2 DEF KeepBothFolder, Chosen, Soundness, DiscoveryTyped, Task, Names
    <3> QED
      BY <1>2, <3>1, <3>2, KeepBothTargetFree DEF Free
  <2> QED
    BY <1>1, <1>3, <2>1, <2>2
       DEF Discovery, VisitInterrupted, VisitFails, LeaveDirectory, VisitFile, AskAgain,
           KeepSource, KeepDestination, SkipFile, SkipFolder, KeepBoth, ResolveFails,
           RecordKept, Reserve, PlaceFails, Enqueue, EndDiscovery
<1>4. ASSUME NEW w \in Worker, Work(w) PROVE DestStep
  <2>1. CASE Publish(w)
    BY <2>1, PutKeeps DEF Publish, DestStep
  <2>2. CASE Receive(w) \/ Open(w) \/ ReadSource(w) \/ CheckCopy(w) \/ RecordCopied(w)
             \/ CopyFails(w)
    BY <1>1, <2>2 DEF Receive, Open, ReadSource, CheckCopy, RecordCopied, CopyFails
  <2> QED
    BY <1>4, <2>1, <2>2 DEF Work
<1>5. CASE Cleanup
  BY <1>1, <1>5
     DEF Cleanup, Join, RemoveSource, CleanupFails, CleanupEnds, Prune, PruneEnds
<1>6. CASE Outside
  <2>1. ASSUME NEW path \in DOMAIN dest, EditDestination(path) PROVE DestStep
    BY <2>1 DEF EditDestination, DestStep
  <2>2. ASSUME NEW path, CreateDestination(path) PROVE DestStep
    BY <1>2, <2>2 DEF CreateDestination
  <2> QED
    BY <1>1, <1>6, <2>1, <2>2 DEF Outside, Cancel, EditSource
<1>7. CASE UNCHANGED vars
  BY <1>1, <1>7 DEF vars
<1> QED
  BY <1>3, <1>4, <1>5, <1>6, <1>7 DEF Next, Finished

LEMMA NextVerdict == Soundness /\ Order /\ [Next]_vars => VerdictStep
<1> SUFFICES ASSUME Soundness, Order, [Next]_vars PROVE VerdictStep
  OBVIOUS
<1> USE DEF disk, discovery, flags, bounds, history
<1>1. ASSUME UNCHANGED verdict PROVE VerdictStep
  BY <1>1 DEF VerdictStep
<1>2. ASSUME NEW v, pc = "ask", verdict' = [verdict EXCEPT ![cur.source] = v]
      PROVE  VerdictStep
  <2>1. \A s \in Source : s = cur.source => verdict[s] = "none"
    BY <1>2 DEF Order, WalkInvariant, CurrentIsNew
  <2>2. verdict \in [Source -> Verdicts]
    BY DEF Soundness, RestTyped
  <2> QED
    BY <1>2, <2>1, <2>2 DEF VerdictStep
<1>3. CASE Discovery
  <2>1. ASSUME NEW s \in File, VisitFile(s) PROVE VerdictStep
    <3>1. frames # <<>> /\ s \in Frame.left /\ DiscoveryTyped /\ WalkIsApart
      BY <2>1 DEF VisitFile, Inside, Soundness, Order, WalkInvariant
    <3>2. s \in Ahead
      BY <3>1, LeftWalk, WaitingTyped
    <3>3. verdict[s] = "none"
      BY <3>2 DEF Order, WalkInvariant, AheadIsUntouched
    <3>4. verdict' = verdict \/ verdict' = [verdict EXCEPT ![s] = "identical"]
      BY <2>1 DEF VisitFile
    <3>5. verdict \in [Source -> Verdicts]
      BY DEF Soundness, RestTyped
    <3> QED
      BY <3>2, <3>3, <3>4, <3>5 DEF VerdictStep
  <2>2. ASSUME NEW action \in FileActions, NEW all \in BOOLEAN,
               \/ KeepSource(action, all) \/ KeepDestination(action, all)
               \/ SkipFile(action, all) \/ SkipFolder(action, all)
        PROVE  VerdictStep
    BY <1>2, <2>2 DEF KeepSource, KeepDestination, SkipFile, SkipFolder, Settle, Chosen
  <2> QED
    BY <1>1, <1>3, <2>1, <2>2
       DEF Discovery, VisitInterrupted, VisitFails, LeaveDirectory, VisitDirectory,
           AskAgain, KeepBoth, KeepBothFolder, ResolveFails, RecordKept, Reserve,
           PlaceFails, Enqueue, EndDiscovery
<1>4. ASSUME NEW w \in Worker, Work(w) PROVE VerdictStep
  BY <1>1, <1>4
     DEF Work, Receive, Open, ReadSource, CheckCopy, Publish, RecordCopied, CopyFails
<1>5. CASE Cleanup
  BY <1>1, <1>5
     DEF Cleanup, Join, RemoveSource, CleanupFails, CleanupEnds, Prune, PruneEnds
<1>6. CASE Outside
  BY <1>1, <1>6 DEF Outside, Cancel, EditSource, EditDestination, CreateDestination
<1>7. CASE UNCHANGED vars
  BY <1>1, <1>7 DEF vars
<1> QED
  BY <1>3, <1>4, <1>5, <1>6, <1>7 DEF Next, Finished

\* What a worker publishes is at its task's target, which is no other's.
LEMMA PublishedAtHome ==
    ASSUME Soundness, Homes, NEW s \in Source, NEW w \in Worker, At(w, "publish"),
           home[s] = TaskOf(w).target
    PROVE  TaskOf(w).source = s /\ Carried(s)
<1>1. Busy(w) /\ TaskOf(w).source \in File /\ TaskOf(w).target \in reserved
  BY TaskTyped DEF Busy, At, Soundness, WorkersTyped, Handed, TaskOf
<1>2. TaskOf(w).target = home[TaskOf(w).source] /\ TaskOf(w).target # <<>>
  BY <1>1 DEF Homes, TasksGoHome
<1>3. TaskOf(w).source = s
  BY <1>1, <1>2 DEF Homes, HomesAreApart, Source
<1> QED
  BY <1>1, <1>3 DEF Carried

\* What lies at the target of a source stays, unless its own task is published.
LEMMA SafeStays ==
    ASSUME Soundness, Homes, DestStep, NEW s \in File, home'[s] = home[s],
           verdict[s] = "destination" => verdict'[s] = verdict[s], operation' = operation,
           \A w \in Worker : Publish(w) /\ At(w, "publish") => TaskOf(w).source # s
    PROVE  /\ Stranger(s) => Stranger(s)'
           /\ \A v \in {0, 1} : Lies(s, v) => Lies(s, v)'
           /\ \A v \in {0, 1} : SafeAs(s, v) => SafeAs(s, v)'
           /\ Safe(s) => Safe(s)'
<1>1. ASSUME home[s] \in DOMAIN dest, dest[home[s]].data # <<Other, 0>>
      PROVE  home[s] \in DOMAIN dest' /\ dest'[home[s]] = dest[home[s]]
  BY <1>1, PublishedAtHome DEF DestStep, Source
<1>2. <<Other, 1>> # <<Other, 0>> /\ \A v \in {0, 1} : <<s, v>> # <<Other, 0>>
  BY TransferAssumption
<1>3. Stranger(s) => Stranger(s)'
  BY <1>1, <1>2 DEF Stranger
<1>4. ASSUME NEW v \in {0, 1}, Lies(s, v) PROVE Lies(s, v)'
  BY <1>1, <1>2, <1>4 DEF Lies
<1> QED
  BY <1>3, <1>4 DEF SafeAs, Safe

-----------------------------------------------------------------------------
(* The times in tasks, and what is removed when. *)

LEMMA NextTimed == Soundness /\ Order /\ HomeStep /\ Timed /\ [Next]_vars => Timed'
<1> SUFFICES ASSUME Soundness, Order, HomeStep, Timed, [Next]_vars PROVE Timed'
  OBVIOUS
<1> USE DEF disk, discovery, flags, bounds, history
<1>1. /\ cur'.source \in File =>
            TaskTimed(cur') \/ (cur'.source = cur.source /\ cur'.time = cur.time)
      /\ \A s \in Source : Gone(s)' => Gone(s) \/ pc \in {"cleanup", "prune"}
      /\ operation' = operation
  <2>1. CASE Discovery
    <3>1. ASSUME NEW s \in File, VisitFile(s) PROVE TaskTimed(cur') /\ UNCHANGED disk
      <4>1. cur'.source = s /\ cur'.time = src[s].time /\ UNCHANGED disk
        BY <3>1 DEF VisitFile, Considered
      <4> QED
        BY <4>1 DEF TaskTimed, Soundness, SourcesTyped
    <3>2. ASSUME NEW d \in Directory, VisitDirectory(d)
          PROVE  (cur' = cur \/ cur'.source \notin File) /\ UNCHANGED <<operation, src>>
      BY <3>2, TransferAssumption DEF VisitDirectory, Considered
    <3>3. NoTask.source \notin File
      BY TransferAssumption DEF NoTask, NoSource, Source
    <3>4. ASSUME NEW action \in FileActions, NEW all \in BOOLEAN,
                 \/ KeepSource(action, all) \/ KeepDestination(action, all)
                 \/ SkipFile(action, all) \/ SkipFolder(action, all)
                 \/ KeepBoth(all) \/ KeepBothFolder(all) \/ AskAgain(action)
          PROVE  /\ (cur'.source = cur.source /\ cur'.time = cur.time) \/ cur' = NoTask
                 /\ UNCHANGED <<operation, src>>
      BY <3>4
         DEF KeepSource, KeepDestination, SkipFile, SkipFolder, KeepBoth,
             KeepBothFolder, AskAgain, Soundness, DiscoveryTyped, Task
    <3>5. ASSUME \/ VisitInterrupted \/ VisitFails \/ LeaveDirectory \/ ResolveFails
                 \/ RecordKept \/ Reserve \/ PlaceFails \/ Enqueue \/ EndDiscovery
          PROVE  /\ cur' = cur \/ cur' = NoTask
                 /\ UNCHANGED <<operation, src>>
      BY <3>5
         DEF VisitInterrupted, VisitFails, LeaveDirectory, ResolveFails,
             RecordKept, Reserve, PlaceFails, Enqueue, EndDiscovery, Abort
    <3> QED
      BY <2>1, <3>1, <3>2, <3>3, <3>4, <3>5 DEF Discovery, Gone, FileActions
  <2>2. ASSUME NEW w \in Worker, Work(w) PROVE UNCHANGED <<operation, src, cur>>
    BY <2>2
       DEF Work, Receive, Open, ReadSource, CheckCopy, Publish, RecordCopied,
           CopyFails
  <2>3. CASE Cleanup
    <3>1. UNCHANGED <<operation, cur>> /\ (UNCHANGED src \/ pc \in {"cleanup", "prune"})
      BY <2>3
         DEF Cleanup, Join, RemoveSource, CleanupFails, CleanupEnds, Prune,
             PruneEnds
    <3> QED
      BY <3>1 DEF Gone
  <2>4. CASE Outside
    <3>1. UNCHANGED <<operation, cur>>
          /\ (UNCHANGED src \/ \E s \in File : src' = [src EXCEPT ![s] = FileOf(<<s, 1>>, EditTime)])
      BY <2>4 DEF Outside, Cancel, EditSource, EditDestination, CreateDestination
    <3>2. src \in [Source -> Entry]
      BY DEF Soundness, SourcesTyped
    <3> QED
      BY <3>1, <3>2 DEF Gone, FileOf
  <2>5. CASE UNCHANGED vars
    BY <2>5 DEF vars, Gone
  <2> QED
    BY <2>1, <2>2, <2>3, <2>4, <2>5 DEF Next, Finished, Gone
<1>2. pc = "send" => cur.source \in File
  BY DEF Soundness, DiscoveryTyped
<1>3. (\E s \in Source : Gone(s)') => RemoveSources'
  BY <1>1 DEF Timed, Order, PhasesInOrder, RemoveSources
<1>4. /\ cur'.source \in File => TaskTimed(cur')
      /\ pc = "send" => TaskTimed(cur)
  BY <1>1, <1>2 DEF Timed, TaskTimed
<1>5. \A i \in DOMAIN queue' : TaskTimed(queue'[i])
  BY <1>4 DEF Timed, HomeStep
<1>6. \A w \in Worker : Busy(w)' => TaskTimed(TaskOf(w)')
  BY DEF Timed, HomeStep
<1> QED
  BY <1>3, <1>4, <1>5, <1>6 DEF Timed, TaskTimed

-----------------------------------------------------------------------------
(* A file that is kept. *)

LEMMA VersionIsRight ==
    ASSUME SourcesTyped, NEW s \in File
    PROVE  src[s].data = <<s, Version(src[s].time)>> /\ Version(src[s].time) \in {0, 1}
<1>1. StartTime[s] # EditTime
  BY TransferAssumption DEF EditTime
<1> QED
  BY <1>1 DEF SourcesTyped, Version

LEMMA VisitFileKept ==
    ASSUME Soundness, Order, NEW s \in File, VisitFile(s), pc' = "place"
    PROVE  KeptIsSafe'
<1> DEFINE path == Append(Frame.into, NameOf[s])
<1>1. /\ pc = "visit" /\ frames # <<>> /\ s \in Frame.left /\ s \in Source
      /\ cur'.source = s /\ cur'.target = path /\ cur'.time = src[s].time /\ ~cur'.overwrite
      /\ home' = [home EXCEPT ![s] = path] /\ home \in [Source -> Seq(Names)]
      /\ dest' = dest /\ verdict \in [Source -> Verdicts]
      /\ \/ ~Exists(path) /\ verdict' = verdict
         \/ Exists(path) /\ Identical(s, path) /\ verdict' = [verdict EXCEPT ![s] = "identical"]
  BY DEF VisitFile, Inside, Source, Found, Soundness, RestTyped, Considered, disk
<1>2. verdict[s] = "none"
  <2>1. DiscoveryTyped /\ WalkIsApart
    BY DEF Soundness, Order, WalkInvariant
  <2>2. s \in Ahead
    BY <1>1, <2>1, LeftWalk, WaitingTyped
  <2> QED
    BY <1>1, <2>2 DEF Order, WalkInvariant, AheadIsUntouched
<1>3. home'[s] = path
  BY <1>1
<1> HIDE DEF path
<1>4. verdict'[s] # "source"
  BY <1>1, <1>2
<1>5. Keeps' => Lies(s, Version(src[s].time))'
  <2> SUFFICES ASSUME Keeps' PROVE Lies(s, Version(src[s].time))'
    OBVIOUS
  <2>1. Exists(path) /\ Identical(s, path)
    BY <1>1 DEF Keeps, Exists
  <2>2. SourcesTyped
    BY DEF Soundness
  <2>3. home'[s] \in DOMAIN dest' /\ dest'[home'[s]].kind = "file"
        /\ dest'[home'[s]].data = <<s, Version(src[s].time)>>
    BY <1>1, <1>3, <2>1, <2>2, VersionIsRight DEF Identical, Exists
  <2>4. UNCHANGED src
    BY DEF VisitFile, disk
  <2> QED
    BY <2>3, <2>4 DEF Lies, Version
<1>6. UNCHANGED src
  BY DEF VisitFile, disk
<1> QED
  BY <1>1, <1>4, <1>5, <1>6 DEF KeptIsSafe, SafeAs

LEMMA DecideKept ==
    ASSUME Soundness, Order, NEW action \in FileActions, NEW all \in BOOLEAN,
           KeepSource(action, all) \/ KeepDestination(action, all)
    PROVE  KeptIsSafe'
<1>1. /\ pc = "ask" /\ cur \in Task /\ ~cur.overwrite /\ cur.source \in Source
      /\ verdict \in [Source -> Verdicts]
  BY DEF KeepSource, KeepDestination, Chosen, Soundness, DiscoveryTyped, RestTyped
<1>2. CASE KeepSource(action, all)
  <2>1. /\ cur'.source = cur.source /\ cur'.overwrite
        /\ verdict'[cur.source] = "source"
    BY <1>1, <1>2 DEF KeepSource, Settle, Task
  <2> QED
    BY <2>1 DEF KeptIsSafe, Keeps
<1>3. CASE KeepDestination(action, all)
  <2>1. cur' = cur /\ verdict'[cur.source] = "destination"
    BY <1>1, <1>3 DEF KeepDestination, Settle
  <2> QED
    BY <1>1, <2>1 DEF KeptIsSafe, SafeAs
<1> QED
  BY <1>2, <1>3

\* While a file is placed, another program may put one where it would go.
LEMMA PlacedStaysKept ==
    ASSUME Soundness, Order, Homes, DestStep, KeptIsSafe, pc = "place",
           UNCHANGED <<cur, verdict, home, operation>>,
           \/ \A p \in DOMAIN dest' : p \in DOMAIN dest
           \/ \E w \in Worker : Publish(w)
           \/ \E s \in Roots : CreateDestination(<<NameOf[s]>>)
    PROVE  KeptIsSafe'
<1> DEFINE s == cur.source
<1>1. /\ s \in File /\ s \in Source
      /\ cur.target = home[s] /\ cur.target[Len(cur.target)] = NameOf[s]
      /\ ~Carried(s)
  BY DEF Soundness, DiscoveryTyped, Homes, TasksGoHome, Order, WalkInvariant,
         CurrentIsNew, Begun, Source
<1>2. \A w \in Worker : At(w, "publish") => TaskOf(w).source # s
  BY <1>1 DEF Carried, Busy, At
<1>3. CASE Exists(cur.target)
  <2>1. Version(cur.time) \in {0, 1}
    BY DEF Version
  <2>2. Keeps' => Keeps
    BY <1>3 DEF Keeps
  <2>3. SafeAs(s, Version(cur.time)) => SafeAs(s, Version(cur.time))'
    BY <1>1, <1>2, <2>1, SafeStays DEF Version
  <2> QED
    BY <2>2, <2>3 DEF KeptIsSafe, Version, SafeAs, Stranger, Lies
<1>4. CASE ~Exists(cur.target) /\ Exists(cur.target)'
  <2>1. ASSUME NEW w \in Worker, Publish(w) PROVE FALSE
    <3>1. cur.target = TaskOf(w).target /\ At(w, "publish")
      BY <1>4, <2>1 DEF Publish, Put, Exists
    <3> QED
      BY <1>1, <3>1, PublishedAtHome
  <2>2. ASSUME NEW r \in Roots, CreateDestination(<<NameOf[r]>>) PROVE Stranger(s)'
    <3>1. /\ cur.target \in DOMAIN dest' /\ dest'[cur.target].data = <<Other, 1>>
          /\ operation \in OutsideCreates
      BY <1>4, <2>2 DEF CreateDestination, Put, Exists, FileOf
    <3> QED
      BY <1>1, <3>1 DEF Stranger
  <2>3. Stranger(s)'
    BY <1>4, <2>1, <2>2 DEF Exists
  <2> QED
    BY <2>3 DEF KeptIsSafe, SafeAs, Stranger
<1>5. CASE ~Exists(cur.target)'
  BY <1>5 DEF KeptIsSafe, Keeps
<1> QED
  BY <1>3, <1>4, <1>5

LEMMA NextKept ==
    Soundness /\ Order /\ Homes /\ DestStep /\ KeptIsSafe /\ [Next]_vars => KeptIsSafe'
<1> SUFFICES ASSUME Soundness, Order, Homes, DestStep, KeptIsSafe, [Next]_vars,
                    pc' = "place"
             PROVE  KeptIsSafe'
  BY DEF KeptIsSafe
<1> USE DEF disk, discovery, flags, bounds, history
<1>1. CASE Discovery
  <2>1. CASE \E s \in File : VisitFile(s)
    BY <2>1, VisitFileKept
  <2>2. CASE \E action \in FileActions, all \in BOOLEAN :
                KeepSource(action, all) \/ KeepDestination(action, all)
    BY <2>2, DecideKept
  <2> QED
    BY <1>1, <2>1, <2>2
       DEF Discovery, VisitInterrupted, VisitFails, LeaveDirectory, VisitDirectory,
           AskAgain, SkipFile, SkipFolder, KeepBoth, KeepBothFolder, ResolveFails,
           RecordKept, Reserve, PlaceFails, Enqueue, EndDiscovery, Abort, Inside,
           Chosen
<1>2. ASSUME NEW w \in Worker, Work(w) PROVE KeptIsSafe'
  <2>1. /\ UNCHANGED <<pc, cur, verdict, home, operation>>
        /\ UNCHANGED dest \/ Publish(w)
    BY <1>2
       DEF Work, Receive, Open, ReadSource, CheckCopy, Publish, RecordCopied,
           CopyFails
  <2> QED
    BY <2>1, PlacedStaysKept
<1>3. CASE Cleanup
  BY <1>3 DEF Cleanup, Join, RemoveSource, CleanupFails, CleanupEnds, Prune, PruneEnds
<1>4. CASE Outside
  <2>1. /\ UNCHANGED <<pc, cur, verdict, home, operation>>
        /\ \/ \A p \in DOMAIN dest' : p \in DOMAIN dest
           \/ \E s \in Roots : CreateDestination(<<NameOf[s]>>)
    BY <1>4 DEF Outside, Cancel, EditSource, EditDestination, CreateDestination
  <2> QED
    BY <2>1, PlacedStaysKept
<1>5. CASE UNCHANGED vars
  BY <1>5, PlacedStaysKept DEF vars
<1> QED
  BY <1>1, <1>2, <1>3, <1>4, <1>5 DEF Next, Finished

-----------------------------------------------------------------------------
(* What has been published, journaled or removed. *)

Onward == HomeStep /\ DestStep /\ VerdictStep /\ operation' = operation

LEMMA NextOnward == Soundness /\ Order /\ Homes /\ [Next]_vars => Onward
<1> SUFFICES ASSUME Soundness, Order, Homes, [Next]_vars PROVE Onward
  OBVIOUS
<1> USE DEF disk, discovery, flags, bounds, history
<1>1. operation' = operation
  <2>1. CASE Discovery
    BY <2>1
       DEF Discovery, VisitInterrupted, VisitFails, LeaveDirectory, VisitDirectory,
           VisitFile, AskAgain, KeepSource, KeepDestination, SkipFile, SkipFolder,
           KeepBoth, KeepBothFolder, ResolveFails, RecordKept, Reserve, PlaceFails,
           Enqueue, EndDiscovery
  <2>2. CASE \E w \in Worker : Work(w)
    BY <2>2
       DEF Work, Receive, Open, ReadSource, CheckCopy, Publish, RecordCopied,
           CopyFails
  <2>3. CASE Cleanup
    BY <2>3 DEF Cleanup, Join, RemoveSource, CleanupFails, CleanupEnds, Prune, PruneEnds
  <2>4. CASE Outside
    BY <2>4 DEF Outside, Cancel, EditSource, EditDestination, CreateDestination
  <2> QED
    BY <2>1, <2>2, <2>3, <2>4 DEF Next, Finished, vars
<1> QED
  BY <1>1, NextHomes, NextDest, NextVerdict DEF Onward

LEMMA BegunStaysSafe ==
    ASSUME Soundness, Order, Homes, Onward, NEW s \in File, Begun(s),
           \A w \in Worker : At(w, "publish") => TaskOf(w).source # s
    PROVE  /\ \A v \in {0, 1} : Lies(s, v) => Lies(s, v)'
           /\ \A v \in {0, 1} : SafeAs(s, v) => SafeAs(s, v)'
           /\ Safe(s) => Safe(s)'
           /\ home'[s] = home[s] /\ verdict'[s] = verdict[s]
<1>1. s \in Source /\ s \notin Ahead /\ s # cur.source
  BY DEF Source, Order, WalkInvariant, AheadIsUntouched, CurrentIsNew
<1>2. home'[s] = home[s] /\ verdict'[s] = verdict[s]
  BY <1>1 DEF Onward, HomeStep, VerdictStep
<1> QED
  BY <1>2, SafeStays DEF Onward

LEMMA VersionTyped == \A time : Version(time) \in {0, 1}
  BY DEF Version

LEMMA PublishLies ==
    ASSUME Soundness, Order, Homes, Onward, NEW w \in Worker, Publish(w)
    PROVE  Lies(TaskOf(w).source, Version(TaskOf(w).time))'
<1> DEFINE task == TaskOf(w)
           s == task.source
<1>1. /\ At(w, "publish") /\ Busy(w) /\ s \in File
      /\ dest' = Put(task.target, FileOf(worker[w].data, PublishTime))
      /\ Copied(worker[w], src) /\ worker[w].data \in Data
      /\ UNCHANGED home
  BY TaskTyped DEF Publish, Busy, At, Soundness, WorkersTyped, Workers, history, TaskOf
<1>2. TaskOf(w)' = task
  BY GoOnCarries
<1>3. home'[s] = task.target
  BY <1>1 DEF Homes, TasksGoHome
<1>4. worker[w].data = <<s, Version(task.time)>>
  <2>1. /\ worker[w].data[1] = s
        /\ task.time = EditTime <=> worker[w].data[2] = 1
    BY <1>1 DEF Copied, At, TaskOf
  <2>2. worker[w].data[2] \in {0, 1} /\ worker[w].data = <<worker[w].data[1], worker[w].data[2]>>
    BY <1>1 DEF Data
  <2> QED
    BY <2>1, <2>2 DEF Version
<1>5. /\ task.target \in DOMAIN dest' /\ dest'[task.target].kind = "file"
      /\ dest'[task.target].data = worker[w].data
  BY <1>1 DEF Put, FileOf
<1> QED
  BY <1>2, <1>3, <1>4, <1>5 DEF Lies, Version

RecordsLie ==
    \A w \in Worker : At(w, "record") =>
        Lies(TaskOf(w).source, Version(TaskOf(w).time))

LEMMA RecordStays ==
    ASSUME Soundness, Order, Homes, Onward, RecordsLie,
           NEW w \in Worker, At(w, "record"), UNCHANGED worker[w]
    PROVE  Lies(TaskOf(w).source, Version(TaskOf(w).time))'
<1>1. PICK s \in File : s = TaskOf(w).source
  BY TaskTyped DEF At, Soundness
<1>2. Busy(w) /\ Begun(s)
  BY <1>1 DEF Begun, Carried, Busy, At
<1>3. \A v \in Worker : At(v, "publish") => TaskOf(v).source # s
  BY <1>1, <1>2 DEF Order, OnceOnly, Busy, At
<1>4. PICK v \in {0, 1} : v = Version(TaskOf(w).time)
  BY VersionTyped
<1>5. Lies(s, v)
  BY <1>1, <1>4 DEF RecordsLie
<1>6. Lies(s, v)'
  BY <1>2, <1>3, <1>5, BegunStaysSafe
<1> QED
  BY <1>1, <1>4, <1>6 DEF TaskOf, Version

LEMMA NextRecords ==
    Soundness /\ Order /\ Homes /\ Onward /\ RecordsLie /\ [Next]_vars => RecordsLie'
<1> SUFFICES ASSUME Soundness, Order, Homes, Onward, RecordsLie, [Next]_vars,
                    NEW w \in Worker, At(w, "record")'
             PROVE  Lies(TaskOf(w).source, Version(TaskOf(w).time))'
  BY DEF RecordsLie
<1>1. UNCHANGED worker[w] \/ Publish(w)
  <2> USE DEF disk, discovery, flags, bounds, history
  <2>1. CASE Discovery
    BY <2>1
       DEF Discovery, VisitInterrupted, VisitFails, LeaveDirectory, VisitDirectory,
           VisitFile, AskAgain, KeepSource, KeepDestination, SkipFile, SkipFolder,
           KeepBoth, KeepBothFolder, ResolveFails, RecordKept, Reserve, PlaceFails,
           Enqueue, EndDiscovery
  <2>2. ASSUME NEW v \in Worker, Work(v) PROVE UNCHANGED worker[w] \/ Publish(w)
    <3>1. worker \in [Worker -> Workers]
      BY DEF Soundness, WorkersTyped
    <3>2. CASE v = w
      BY <2>2, <3>1, <3>2
         DEF Work, Receive, Open, ReadSource, CheckCopy, RecordCopied, CopyFails,
             Goes, Rest, Idle, At, Workers
    <3>3. CASE v # w
      BY <2>2, <3>1, <3>3
         DEF Work, Receive, Open, ReadSource, CheckCopy, Publish, RecordCopied,
             CopyFails, Goes, Rest
    <3> QED
      BY <3>2, <3>3
  <2>3. CASE Cleanup
    BY <2>3 DEF Cleanup, Join, RemoveSource, CleanupFails, CleanupEnds, Prune, PruneEnds
  <2>4. CASE Outside
    BY <2>4 DEF Outside, Cancel, EditSource, EditDestination, CreateDestination
  <2> QED
    BY <2>1, <2>2, <2>3, <2>4 DEF Next, Finished, vars
<1>2. CASE UNCHANGED worker[w]
  <2>1. At(w, "record")
    BY <1>2 DEF At
  <2> QED
    BY <1>2, <2>1, RecordStays
<1> QED
  BY <1>1, <1>2, PublishLies

EntrySafe(entry) ==
    /\ SafeAs(entry.source, Version(entry.time))
    /\ entry.time = Unknown => StartTime[entry.source] = PreEpoch
JournalSafe == \A i \in DOMAIN journal : EntrySafe(journal[i])

LEMMA EntryStays ==
    ASSUME Soundness, Order, Homes, Onward, JournalSafe,
           NEW i \in DOMAIN journal, NEW entry, entry = journal[i]
    PROVE  EntrySafe(entry)'
<1>1. journal \in Seq([source : File, time : 0 .. 10])
  BY DEF Soundness, RestTyped
<1>2. PICK s \in File : s = entry.source
  <2>1. i \in 1 .. Len(journal)
    BY <1>1, LenProperties
  <2>2. entry \in [source : File, time : 0 .. 10]
    BY <1>1, <2>1, ElementOfSeq
  <2> QED
    BY <2>2
<1>3. Recorded(s) /\ Begun(s)
  BY <1>2 DEF Recorded, Begun
<1>4. \A w \in Worker : At(w, "publish") => TaskOf(w).source # s
  BY <1>3 DEF Order, OnceOnly, Carried, Busy, At
<1>5. PICK v \in {0, 1} : v = Version(entry.time)
  BY VersionTyped
<1>6. SafeAs(s, v)
  BY <1>2, <1>5 DEF JournalSafe, EntrySafe
<1>7. SafeAs(s, v)'
  BY <1>3, <1>4, <1>6, BegunStaysSafe
<1> QED
  BY <1>2, <1>5, <1>7 DEF JournalSafe, EntrySafe

\* What is written to the journal is safe.
LEMMA WrittenIsSafe ==
    ASSUME NEW s \in File, NEW time \in {StartTime[s], EditTime},
           SafeAs(s, Version(time))', NEW entry,
           entry = [source |-> s, time |-> JournalTime(time)]
    PROVE  EntrySafe(entry)'
<1>1. time \in 0 .. 9
  BY TransferAssumption DEF EditTime
<1>2. Version(JournalTime(time)) = Version(time)
  BY <1>1 DEF Version, JournalTime, PreEpoch, Unknown, EditTime
<1>3. entry.time = Unknown => time = PreEpoch /\ time # EditTime
  BY <1>1 DEF JournalTime, Unknown, PreEpoch, EditTime
<1>4. PICK v \in {0, 1} : v = Version(time)
  BY VersionTyped
<1>5. SafeAs(s, v)'
  BY <1>4 DEF SafeAs, Version, Lies, Stranger
<1> QED
  BY <1>2, <1>3, <1>4, <1>5 DEF EntrySafe

LEMMA RecordKeptJournal ==
    ASSUME Soundness, Order, Homes, Onward, Timed, KeptIsSafe, JournalSafe, RecordKept
    PROVE  JournalSafe'
<1>1. /\ pc = "place" /\ Keeps /\ cur.source \in File
      /\ cur.time \in {StartTime[cur.source], EditTime}
  BY DEF RecordKept, Soundness, DiscoveryTyped, Timed, TaskTimed
<1>2. PICK s \in File : \E time \in {StartTime[s], EditTime} : s = cur.source /\ time = cur.time
  BY <1>1
<1>3. PICK time \in {StartTime[s], EditTime} : s = cur.source /\ time = cur.time
  BY <1>2
<1>4. SafeAs(s, Version(time)) /\ UNCHANGED <<verdict, home, dest, operation>>
  BY <1>1, <1>3 DEF RecordKept, KeptIsSafe, disk, history
<1>5. SafeAs(s, Version(time))'
  BY <1>4 DEF SafeAs, Lies, Stranger, Version
<1>6. journal' = Journaled(s, time) /\ time \in 0 .. 9 /\ RestTyped
  BY <1>3, TransferAssumption DEF RecordKept, EditTime, Soundness
<1>7. ASSUME NEW i \in DOMAIN journal', NEW entry, entry = journal'[i] PROVE EntrySafe(entry)'
  <2>1. CASE i \in DOMAIN journal /\ journal'[i] = journal[i]
    BY <1>7, <2>1, EntryStays
  <2>2. CASE entry = [source |-> s, time |-> JournalTime(time)]
    BY <1>5, <2>2, WrittenIsSafe
  <2> QED
    BY <1>6, <1>7, <2>1, <2>2, JournalGrows
<1> QED
  BY <1>7 DEF JournalSafe

LEMMA RecordCopiedJournal ==
    ASSUME Soundness, Order, Homes, Onward, Timed, RecordsLie, JournalSafe,
           NEW w \in Worker, RecordCopied(w)
    PROVE  JournalSafe'
<1>1. At(w, "record") /\ TaskOf(w).source \in File /\ Busy(w)
  BY TaskTyped DEF RecordCopied, Busy, At, Soundness
<1>2. PICK s \in File : \E time \in {StartTime[s], EditTime} :
         s = TaskOf(w).source /\ time = TaskOf(w).time
  BY <1>1 DEF Timed, TaskTimed
<1>3. PICK time \in {StartTime[s], EditTime} : s = TaskOf(w).source /\ time = TaskOf(w).time
  BY <1>2
<1>4. Lies(s, Version(time)) /\ UNCHANGED <<verdict, home, dest, operation>>
  BY <1>1, <1>3 DEF RecordCopied, RecordsLie, disk, history
<1>5. SafeAs(s, Version(time))'
  BY <1>4 DEF SafeAs, Lies, Stranger, Version
<1>6. journal' = Journaled(s, time) /\ time \in 0 .. 9 /\ RestTyped
  BY <1>3, TransferAssumption DEF RecordCopied, EditTime, Soundness
<1>7. ASSUME NEW i \in DOMAIN journal', NEW entry, entry = journal'[i] PROVE EntrySafe(entry)'
  <2>1. CASE i \in DOMAIN journal /\ journal'[i] = journal[i]
    BY <1>7, <2>1, EntryStays
  <2>2. CASE entry = [source |-> s, time |-> JournalTime(time)]
    BY <1>5, <2>2, WrittenIsSafe
  <2> QED
    BY <1>6, <1>7, <2>1, <2>2, JournalGrows
<1> QED
  BY <1>7 DEF JournalSafe

LEMMA NextJournal ==
    Soundness /\ Order /\ Homes /\ Onward /\ Timed /\ KeptIsSafe /\ RecordsLie /\ JournalSafe
        /\ [Next]_vars => JournalSafe'
<1> SUFFICES ASSUME Soundness, Order, Homes, Onward, Timed, KeptIsSafe, RecordsLie,
                    JournalSafe, [Next]_vars
             PROVE  JournalSafe'
  OBVIOUS
<1> USE DEF disk, discovery, flags, bounds, history
<1>1. ASSUME UNCHANGED journal PROVE JournalSafe'
  <2>1. \A i \in DOMAIN journal' : \A entry : entry = journal'[i] => EntrySafe(entry)'
    BY <1>1, EntryStays
  <2> QED
    BY <2>1 DEF JournalSafe
<1>2. CASE Discovery
  BY <1>1, <1>2, RecordKeptJournal
     DEF Discovery, VisitInterrupted, VisitFails, LeaveDirectory, VisitDirectory,
         VisitFile, AskAgain, KeepSource, KeepDestination, SkipFile, SkipFolder,
         KeepBoth, KeepBothFolder, ResolveFails, Reserve, PlaceFails, Enqueue,
         EndDiscovery
<1>3. ASSUME NEW w \in Worker, Work(w) PROVE JournalSafe'
  BY <1>1, <1>3, RecordCopiedJournal
     DEF Work, Receive, Open, ReadSource, CheckCopy, Publish, CopyFails
<1>4. CASE Cleanup
  <2>1. CASE RemoveSource
    <3>1. /\ journal \in Seq([source : File, time : 0 .. 10]) /\ journal # <<>>
          /\ journal' = Tail(journal)
      BY <2>1 DEF RemoveSource, Soundness, RestTyped
    <3>2. \A i \in DOMAIN journal' : i + 1 \in DOMAIN journal /\ journal'[i] = journal[i + 1]
      BY <3>1
    <3>3. \A i \in DOMAIN journal' : \A entry : entry = journal'[i] => EntrySafe(entry)'
      BY <3>2, EntryStays
    <3> QED
      BY <3>3 DEF JournalSafe
  <2> QED
    BY <1>1, <1>4, <2>1 DEF Cleanup, Join, CleanupFails, CleanupEnds, Prune, PruneEnds
<1>5. CASE Outside
  BY <1>1, <1>5 DEF Outside, Cancel, EditSource, EditDestination, CreateDestination
<1>6. CASE UNCHANGED vars
  BY <1>1, <1>6 DEF vars
<1> QED
  BY <1>2, <1>3, <1>4, <1>5, <1>6 DEF Next, Finished

GoneSafe(s) ==
    \E v \in {0, 1} : SafeAs(s, v) /\ (src[s].data = <<s, v>> \/ StartTime[s] = PreEpoch)
GoneIsSafe == \A s \in File : Gone(s) => GoneSafe(s)

LEMMA GoneStays ==
    ASSUME Soundness, Order, Homes, Onward, NEW s \in File, Gone(s), GoneSafe(s),
           src'[s].data = src[s].data
    PROVE  GoneSafe(s)'
<1>1. Begun(s) /\ s \in Source
  BY DEF Begun, Source
<1>2. \A w \in Worker : At(w, "idle")
  BY <1>1 DEF Order, PhasesInOrder
<1>3. \A w \in Worker : At(w, "publish") => TaskOf(w).source # s
  BY <1>2 DEF At
<1> QED
  BY <1>1, <1>3, BegunStaysSafe DEF GoneSafe

LEMMA RemovedIsSafe ==
    ASSUME Soundness, Order, Homes, Onward, JournalSafe, GoneIsSafe, RemoveSource
    PROVE  GoneIsSafe'
<1>1. /\ journal # <<>> /\ src' = [src EXCEPT ![Oldest.source].kind = "gone"]
      /\ journal \in Seq([source : File, time : 0 .. 10]) /\ src \in [Source -> Entry]
      /\ EntryMatches /\ UNCHANGED <<operation, dest, home, verdict>>
  BY DEF RemoveSource, Soundness, RestTyped, SourcesTyped, history
<1>2. 1 \in DOMAIN journal /\ Oldest = journal[1] /\ Oldest \in [source : File, time : 0 .. 10]
  <2>1. 1 \in 1 .. Len(journal) /\ Head(journal) = journal[1]
        /\ DOMAIN journal = 1 .. Len(journal)
    BY <1>1, EmptySeq, LenProperties
  <2>2. journal[1] \in [source : File, time : 0 .. 10]
    BY <1>1, <2>1, ElementOfSeq
  <2> QED
    BY <2>1, <2>2 DEF Oldest
<1>3. PICK r \in File : r = Oldest.source
  BY <1>2
<1>4. \A s \in Source : src'[s].data = src[s].data /\ (s # r => src'[s] = src[s])
  BY <1>1, <1>3 DEF Entry
<1>5. EntrySafe(Oldest)
  BY <1>2 DEF JournalSafe
<1>6. GoneSafe(r)
  <2>1. CASE Oldest.time = Unknown
    <3>1. StartTime[r] = PreEpoch /\ SafeAs(r, Version(Oldest.time))
      BY <1>3, <1>5, <2>1 DEF EntrySafe
    <3> QED
      BY <3>1, VersionTyped DEF GoneSafe
  <2>2. CASE Oldest.time # Unknown
    <3>1. src[r].time = Oldest.time
      BY <1>1, <1>3, <2>2 DEF EntryMatches, Matches
    <3>2. src[r].data = <<r, Version(src[r].time)>>
      BY VersionIsRight DEF Soundness
    <3>3. SafeAs(r, Version(Oldest.time))
      BY <1>3, <1>5 DEF EntrySafe
    <3> QED
      BY <3>1, <3>2, <3>3, VersionTyped DEF GoneSafe
  <2> QED
    BY <2>1, <2>2
<1>7. GoneSafe(r)'
  BY <1>1, <1>4, <1>6 DEF GoneSafe, SafeAs, Lies, Stranger, Source
<1>8. ASSUME NEW s \in File, Gone(s)' PROVE GoneSafe(s)'
  <2>1. CASE s = r
    BY <1>7, <2>1
  <2>2. CASE s # r
    <3>1. Gone(s) /\ src'[s].data = src[s].data
      BY <1>4, <1>8, <2>2 DEF Gone, Source
    <3> QED
      BY <3>1, GoneStays DEF GoneIsSafe
  <2> QED
    BY <2>1, <2>2
<1> QED
  BY <1>8 DEF GoneIsSafe

LEMMA NextGone ==
    Soundness /\ Order /\ Homes /\ Onward /\ JournalSafe /\ GoneIsSafe /\ [Next]_vars
        => GoneIsSafe'
<1> SUFFICES ASSUME Soundness, Order, Homes, Onward, JournalSafe, GoneIsSafe, [Next]_vars
             PROVE  GoneIsSafe'
  OBVIOUS
<1> USE DEF disk, discovery, flags, bounds, history
<1>1. src \in [Source -> Entry]
  BY DEF Soundness, SourcesTyped
<1>2. ASSUME \A s \in File : Gone(s)' => Gone(s) /\ src'[s].data = src[s].data
      PROVE  GoneIsSafe'
  BY <1>2, GoneStays DEF GoneIsSafe
<1>3. ASSUME UNCHANGED src PROVE GoneIsSafe'
  BY <1>2, <1>3 DEF Gone
<1>4. CASE Discovery
  BY <1>3, <1>4
     DEF Discovery, VisitInterrupted, VisitFails, LeaveDirectory, VisitDirectory,
         VisitFile, AskAgain, KeepSource, KeepDestination, SkipFile, SkipFolder,
         KeepBoth, KeepBothFolder, ResolveFails, RecordKept, Reserve, PlaceFails,
         Enqueue, EndDiscovery
<1>5. CASE \E w \in Worker : Work(w)
  BY <1>3, <1>5
     DEF Work, Receive, Open, ReadSource, CheckCopy, Publish, RecordCopied, CopyFails
<1>6. CASE Cleanup
  <2>1. ASSUME NEW d \in Directory, src' = [src EXCEPT ![d].kind = "gone"]
        PROVE  GoneIsSafe'
    <3>1. \A s \in File : src'[s] = src[s]
      BY <1>1, <2>1, TransferAssumption DEF Source
    <3> QED
      BY <1>2, <3>1 DEF Gone
  <2> QED
    BY <1>3, <1>6, <2>1, RemovedIsSafe
       DEF Cleanup, Join, CleanupFails, CleanupEnds, Prune, PruneEnds
<1>7. CASE Outside
  <2>1. ASSUME NEW r \in File, EditSource(r) PROVE GoneIsSafe'
    <3>1. \A s \in File : s # r => src'[s] = src[s]
      BY <1>1, <2>1 DEF EditSource, Source
    <3>2. ~Gone(r)'
      BY <1>1, <2>1 DEF EditSource, Source, Gone, FileOf
    <3> QED
      BY <1>2, <3>1, <3>2 DEF Gone
  <2> QED
    BY <1>3, <1>7, <2>1 DEF Outside, Cancel, EditDestination, CreateDestination
<1>8. CASE UNCHANGED vars
  BY <1>3, <1>8 DEF vars
<1> QED
  BY <1>4, <1>5, <1>6, <1>7, <1>8 DEF Next, Finished

-----------------------------------------------------------------------------
(* No file is forgotten while the job goes on. *)

InSight(s) == s \in Ahead \/ s = cur.source \/ Carried(s) \/ Dealt(s)
AllInSight == ~Interrupted => \A s \in File : InSight(s)

LEMMA SkippedStays ==
    ASSUME Onward, NEW s \in File, Skipped(s)
    PROVE  Skipped(s)'
<1>1. \A x \in Source : verdict[x] = "skip" => verdict'[x] = "skip"
  BY DEF Onward, VerdictStep
<1> QED
  BY <1>1 DEF Skipped, Source

LEMMA DealtStays ==
    ASSUME Soundness, Order, Homes, Onward, NEW s \in File,
           s \notin Ahead, s # cur.source, ~Carried(s), Dealt(s),
           Recorded(s) \/ Gone(s) => Recorded(s)' \/ Gone(s)'
    PROVE  Dealt(s)'
<1>1. s \in Source
  BY DEF Source
<1>2. home'[s] = home[s] /\ verdict'[s] = verdict[s]
  BY <1>1 DEF Onward, HomeStep, VerdictStep
<1>3. \A w \in Worker : At(w, "publish") => TaskOf(w).source # s
  BY DEF Carried, Busy, At
<1>4. Safe(s) => Safe(s)'
  BY <1>2, <1>3, SafeStays DEF Onward
<1>5. RemoveSources' = RemoveSources
  BY DEF Onward, RemoveSources
<1> QED
  BY <1>4, <1>5, SkippedStays DEF Dealt

\* A step after which the entries ahead, or taken up, are those of before.
LEMMA SightGoesOn ==
    ASSUME Soundness, Order, Homes, Onward, AllInSight, ~Interrupted, NEW s \in File,
           s \in Ahead => s \in Ahead' \/ s = cur'.source,
           s = cur.source => s = cur'.source \/ Carried(s)' \/ Dealt(s)',
           Carried(s) => Carried(s)' \/ Dealt(s)',
           Recorded(s) \/ Gone(s) => Recorded(s)' \/ Gone(s)'
    PROVE  InSight(s)'
  BY DealtStays DEF AllInSight, InSight

LEMMA DiscoveryInSight ==
    ASSUME Soundness, Order, Homes, Onward, KeptIsSafe, AllInSight, Discovery,
           ~Interrupted, ~Interrupted', NEW s \in File
    PROVE  InSight(s)'
<1> USE DEF disk, discovery, flags, bounds, history
<1>1. ASSUME UNCHANGED <<src, queue, worker, journal>>
      PROVE  /\ Carried(s)' = Carried(s) /\ Recorded(s)' = Recorded(s) /\ Gone(s)' = Gone(s)
  BY <1>1, BegunStays
<1>2. s \in Source /\ s \notin Directory
  BY TransferAssumption DEF Source
<1>3. ASSUME UNCHANGED <<src, queue, worker, journal>>,
             s \in Ahead => s \in Ahead' \/ s = cur'.source,
             s = cur.source => s = cur'.source
      PROVE  InSight(s)'
  BY <1>1, <1>3, SightGoesOn
<1>4. CASE VisitInterrupted \/ VisitFails \/ ResolveFails \/ PlaceFails
  BY <1>4 DEF VisitInterrupted, VisitFails, ResolveFails, PlaceFails, Abort, Interrupted
<1>5. CASE LeaveDirectory \/ EndDiscovery
  <2>1. UNCHANGED <<src, queue, worker, journal, cur>>
    BY <1>5 DEF LeaveDirectory, EndDiscovery
  <2> QED
    BY <1>3, <1>5, <2>1, LeaveOrder
<1>6. ASSUME NEW d \in Directory, VisitDirectory(d) PROVE InSight(s)'
  <2>1. UNCHANGED <<src, queue, worker, journal>> /\ pc = "visit"
    BY <1>6 DEF VisitDirectory, Inside
  <2>2. cur.source \notin Source
    BY <2>1 DEF Order, PhasesInOrder
  <2> QED
    BY <1>2, <1>3, <1>6, <2>1, <2>2, VisitDirectoryOrder
<1>7. ASSUME NEW r \in File, VisitFile(r) PROVE InSight(s)'
  <2>1. UNCHANGED <<src, queue, worker, journal>> /\ pc = "visit"
    BY <1>7 DEF VisitFile, Inside
  <2>2. cur.source \notin Source
    BY <2>1 DEF Order, PhasesInOrder
  <2> QED
    BY <1>2, <1>3, <1>7, <2>1, <2>2, VisitFileOrder
<1>8. CASE \/ \E action \in FileActions : AskAgain(action)
           \/ \E action \in FileActions, all \in BOOLEAN :
                 KeepSource(action, all) \/ KeepDestination(action, all)
           \/ \E all \in BOOLEAN : KeepBoth(all)
           \/ Reserve
  <2>1. UNCHANGED <<src, queue, worker, journal>>
    BY <1>8 DEF AskAgain, KeepSource, KeepDestination, KeepBoth, Reserve
  <2> QED
    BY <1>3, <1>8, <2>1, DecideOrder
<1>9. ASSUME NEW action \in FileActions, NEW all \in BOOLEAN,
             SkipFile(action, all) \/ SkipFolder(action, all)
      PROVE  InSight(s)'
  <2>1. /\ UNCHANGED <<src, queue, worker, journal>>
        /\ verdict' = [verdict EXCEPT ![cur.source] = "skip"] /\ cur.source \in Source
        /\ verdict \in [Source -> Verdicts]
    BY <1>9 DEF SkipFile, SkipFolder, Settle, Source, Soundness, RestTyped
  <2>2. verdict'[cur.source] = "skip"
    BY <2>1
  <2>3. /\ cur.source \in Directory => Ahead \subseteq Ahead' \cup Below[cur.source]
        /\ cur.source \notin Directory => Ahead' = Ahead
    BY <1>9, SkipOrder
  <2>4. s = cur.source => Skipped(s)'
    BY <2>2 DEF Skipped
  <2>5. cur.source \in Directory /\ s \in Below[cur.source] => Skipped(s)'
    BY <2>2 DEF Skipped
  <2>6. CASE s \in Ahead
    BY <2>3, <2>5, <2>6 DEF InSight, Dealt
  <2> QED
    BY <1>1, <2>1, <2>4, <2>6, SightGoesOn DEF Dealt
<1>10. ASSUME NEW all \in BOOLEAN, KeepBothFolder(all) PROVE InSight(s)'
  <2>1. UNCHANGED <<src, queue, worker, journal>> /\ cur.source \in Directory
    BY <1>10 DEF KeepBothFolder
  <2> QED
    BY <1>2, <1>3, <1>10, <2>1, KeepBothFolderOrder
<1>11. CASE RecordKept
  <2>1. /\ UNCHANGED <<src, queue, worker, dest, verdict, home, operation>>
        /\ journal' = Journaled(cur.source, cur.time) /\ pc = "place" /\ Keeps
        /\ cur.source \in File /\ cur.time \in 0 .. 9 /\ RestTyped
    BY <1>11 DEF RecordKept, Soundness, DiscoveryTyped, Task
  <2>2. /\ \A x : Recorded(x) => Recorded(x)'
        /\ s = cur.source /\ RemoveSources => Recorded(s)'
    <3>1. PICK r \in File, time \in 0 .. 9 : r = cur.source /\ time = cur.time
      BY <2>1
    <3>2. journal' = Journaled(r, time) /\ RestTyped
      BY <2>1, <3>1
    <3> QED
      BY <3>1, <3>2, JournalGrows
  <2>3. ASSUME s = cur.source PROVE Dealt(s)'
    <3>1. Safe(s)
      BY <2>1, <2>3, VersionTyped DEF KeptIsSafe, SafeAs, Safe
    <3>2. Safe(s)'
      BY <2>1, <3>1 DEF Safe, Stranger, Lies
    <3>3. RemoveSources' => Recorded(s)'
      BY <2>1, <2>2, <2>3 DEF RemoveSources
    <3> QED
      BY <3>2, <3>3 DEF Dealt
  <2>4. /\ Carried(s)' = Carried(s) /\ Gone(s)' = Gone(s) /\ Ahead' = Ahead
    BY <1>11, <2>1, RecordKeptOrder DEF Carried, Busy, At, TaskOf, Gone
  <2> QED
    BY <2>2, <2>3, <2>4, SightGoesOn
<1>12. CASE Enqueue
  <2>1. \A x : Carried(x)' <=> Carried(x) \/ x = cur.source
    BY <1>12, EnqueueCarries
  <2>2. Recorded(s)' = Recorded(s) /\ Gone(s)' = Gone(s) /\ Ahead' = Ahead
    BY <1>12, EnqueueOrder DEF Enqueue, Recorded, Gone
  <2> QED
    BY <2>1, <2>2, SightGoesOn
<1> QED
  BY <1>4, <1>5, <1>6, <1>7, <1>8, <1>9, <1>10, <1>11, <1>12 DEF Discovery

LEMMA WorkInSight ==
    ASSUME Soundness, Order, Homes, Onward, RecordsLie, AllInSight,
           NEW w \in Worker, Work(w), ~Interrupted, ~Interrupted', NEW s \in File
    PROVE  InSight(s)'
<1> USE DEF disk, discovery, flags, bounds, history
<1>1. UNCHANGED <<frames, cur, src, home, verdict, operation>>
  BY DEF Work, Receive, Open, ReadSource, CheckCopy, Publish, RecordCopied, CopyFails
<1>2. Ahead' = Ahead /\ Gone(s)' = Gone(s)
  BY <1>1, SameWalk DEF Order, WalkInvariant, Gone
<1>3. CASE Receive(w) \/ Open(w) \/ ReadSource(w) \/ CheckCopy(w) \/ Publish(w)
  <2>1. Carried(s) => Carried(s)'
    BY <1>3, ReceiveCarries, GoOnCarries
  <2>2. UNCHANGED journal
    BY <1>3 DEF Receive, Open, ReadSource, CheckCopy, Publish
  <2> QED
    BY <1>1, <1>2, <2>1, <2>2, SightGoesOn DEF Recorded
<1>4. CASE RecordCopied(w)
  <2>1. At(w, "record") /\ TaskOf(w) \in Task /\ TaskOf(w).source \in File
    BY <1>4, TaskTyped DEF RecordCopied, At, Soundness
  <2>2. \A x : Carried(x)' <=> Carried(x) /\ x # TaskOf(w).source
    BY <1>4, RestCarries DEF Order
  <2>3. PICK r \in File, time \in 0 .. 9 : r = TaskOf(w).source /\ time = TaskOf(w).time
    BY <2>1 DEF Task
  <2>4. journal' = Journaled(r, time) /\ RestTyped /\ UNCHANGED dest
    BY <1>4, <2>3 DEF RecordCopied, Soundness
  <2>5. /\ \A x : Recorded(x) => Recorded(x)'
        /\ RemoveSources => Recorded(r)'
    BY <2>3, <2>4, JournalGrows
  <2>6. Safe(r)
    <3>1. PICK v \in {0, 1} : v = Version(time)
      BY VersionTyped
    <3> QED
      BY <2>1, <2>3, <3>1 DEF RecordsLie, Safe
  <2>7. Dealt(r)'
    BY <1>1, <2>4, <2>5, <2>6 DEF Safe, Stranger, Lies, Dealt, RemoveSources
  <2> QED
    BY <1>1, <1>2, <2>2, <2>3, <2>5, <2>7, SightGoesOn
<1>5. CASE CopyFails(w)
  BY <1>5 DEF CopyFails, Interrupted
<1> QED
  BY <1>3, <1>4, <1>5 DEF Work

LEMMA AsideInSight ==
    ASSUME Soundness, Order, Homes, Onward, AllInSight,
           Cleanup \/ Outside \/ UNCHANGED vars,
           ~Interrupted, ~Interrupted', NEW s \in File
    PROVE  InSight(s)'
<1> USE DEF disk, discovery, flags, bounds, history
<1>1. UNCHANGED <<frames, cur, queue, worker>>
  <2>1. CASE Cleanup
    BY <2>1 DEF Cleanup, Join, RemoveSource, CleanupFails, CleanupEnds, Prune, PruneEnds
  <2>2. CASE Outside
    BY <2>2 DEF Outside, Cancel, EditSource, EditDestination, CreateDestination
  <2>3. CASE UNCHANGED vars
    BY <2>3 DEF vars
  <2> QED
    BY <2>1, <2>2, <2>3
<1>2. Ahead' = Ahead /\ Carried(s)' = Carried(s)
  BY <1>1, SameWalk DEF Order, WalkInvariant, Carried, Busy, At, TaskOf
<1>3. src \in [Source -> Entry] /\ s \in Source /\ s \notin Directory
  BY TransferAssumption DEF Soundness, SourcesTyped, Source
<1>4. ASSUME Recorded(s) \/ Gone(s) => Recorded(s)' \/ Gone(s)' PROVE InSight(s)'
  BY <1>1, <1>2, <1>4, SightGoesOn
<1>5. ASSUME UNCHANGED <<src, journal>> PROVE InSight(s)'
  BY <1>4, <1>5 DEF Recorded, Gone
<1>6. CASE Cleanup
  <2>1. CASE RemoveSource
    <3>1. /\ journal # <<>> /\ src' = [src EXCEPT ![Oldest.source].kind = "gone"]
          /\ journal \in Seq([source : File, time : 0 .. 10]) /\ journal' = Tail(journal)
      BY <2>1 DEF RemoveSource, Soundness, RestTyped
    <3>2. /\ Oldest = journal[1]
          /\ \A i \in DOMAIN journal : i = 1 \/ (i - 1 \in DOMAIN journal' /\ journal'[i - 1] = journal[i])
      BY <3>1 DEF Oldest
    <3>3. Gone(s) => Gone(s)'
      BY <1>3, <3>1 DEF Gone, Entry
    <3>4. s = Oldest.source => Gone(s)'
      BY <1>3, <3>1 DEF Gone, Entry
    <3>5. Recorded(s) => s = Oldest.source \/ Recorded(s)'
      BY <3>2 DEF Recorded
    <3> QED
      BY <1>4, <3>3, <3>4, <3>5
  <2>2. ASSUME NEW d \in Directory, Prune(d) PROVE InSight(s)'
    <3>1. UNCHANGED journal /\ (UNCHANGED src \/ src' = [src EXCEPT ![d].kind = "gone"])
      BY <2>2 DEF Prune
    <3> QED
      BY <1>3, <1>4, <3>1 DEF Recorded, Gone
  <2>3. CASE CleanupFails
    BY <2>3 DEF CleanupFails, Interrupted
  <2> QED
    BY <1>5, <1>6, <2>1, <2>2, <2>3 DEF Cleanup, Join, CleanupEnds, PruneEnds
<1>7. CASE Outside
  <2>1. ASSUME NEW r \in File, EditSource(r) PROVE InSight(s)'
    <3>1. UNCHANGED journal /\ (s # r => src'[s] = src[s]) /\ src[r].kind # "gone"
      BY <1>3, <2>1 DEF EditSource, FileOf
    <3> QED
      BY <1>4, <3>1 DEF Recorded, Gone
  <2> QED
    BY <1>5, <1>7, <2>1 DEF Outside, Cancel, EditDestination, CreateDestination
<1>8. CASE UNCHANGED vars
  BY <1>5, <1>8 DEF vars
<1> QED
  BY <1>6, <1>7, <1>8

LEMMA NextInSight ==
    Soundness /\ Order /\ Homes /\ Onward /\ KeptIsSafe /\ RecordsLie /\ AllInSight
        /\ [Next]_vars => AllInSight'
<1> SUFFICES ASSUME Soundness, Order, Homes, Onward, KeptIsSafe, RecordsLie, AllInSight,
                    [Next]_vars, ~Interrupted', NEW s \in File
             PROVE  InSight(s)'
  BY DEF AllInSight
<1>1. ~Interrupted
  <2> USE DEF disk, discovery, flags, bounds, history, Interrupted
  <2>1. CASE Discovery
    BY <2>1
       DEF Discovery, VisitInterrupted, VisitFails, LeaveDirectory, VisitDirectory,
           VisitFile, AskAgain, KeepSource, KeepDestination, SkipFile, SkipFolder,
           KeepBoth, KeepBothFolder, ResolveFails, RecordKept, Reserve, PlaceFails,
           Enqueue, EndDiscovery, Abort
  <2>2. CASE \E w \in Worker : Work(w)
    BY <2>2
       DEF Work, Receive, Open, ReadSource, CheckCopy, Publish, RecordCopied,
           CopyFails
  <2>3. CASE Cleanup
    BY <2>3 DEF Cleanup, Join, RemoveSource, CleanupFails, CleanupEnds, Prune, PruneEnds
  <2>4. CASE Outside
    BY <2>4 DEF Outside, Cancel, EditSource, EditDestination, CreateDestination
  <2> QED
    BY <2>1, <2>2, <2>3, <2>4 DEF Next, Finished, vars
<1>2. CASE Discovery
  BY <1>1, <1>2, DiscoveryInSight
<1>3. CASE \E w \in Worker : Work(w)
  BY <1>1, <1>3, WorkInSight
<1>4. CASE Cleanup \/ Outside \/ UNCHANGED vars
  BY <1>1, <1>4, AsideInSight
<1> QED
  BY <1>2, <1>3, <1>4 DEF Next, Finished

CopyPassIsComplete ==
    pc \in {"cleanup", "prune"} \/ (\E s \in Source : Gone(s)) =>
        \A s \in File : Skipped(s) \/ Safe(s)

\* When the workers are done, what is in sight has been dealt with.
LEMMA DoneIsDealt ==
    ASSUME Soundness, Order, AllInSight, ~Interrupted, frames = <<>>,
           pc \notin {"ask", "place", "send"}, WorkersDone, NEW s \in File
    PROVE  Dealt(s)
<1>1. cur.source \notin Source /\ s \in Source
  BY DEF Order, PhasesInOrder, Source
<1>2. DOMAIN frames = {} /\ Waiting = {}
  BY DEF Waiting
<1>3. Ahead = {}
  BY <1>1, <1>2 DEF Ahead, Pending
<1>4. ~Carried(s)
  BY DEF WorkersDone, Carried, Busy
<1> QED
  BY <1>1, <1>3, <1>4 DEF AllInSight, InSight

LEMMA NextComplete ==
    Soundness /\ Order /\ Homes /\ Onward /\ AllInSight /\ CopyPassIsComplete
        /\ [Next]_vars => CopyPassIsComplete'
<1> SUFFICES ASSUME Soundness, Order, Homes, Onward, AllInSight, CopyPassIsComplete,
                    [Next]_vars, pc' \in {"cleanup", "prune"} \/ \E s \in Source : Gone(s)',
                    NEW s \in File
             PROVE  Skipped(s)' \/ Safe(s)'
  BY DEF CopyPassIsComplete
<1>1. \/ pc \in {"cleanup", "prune"} \/ \E r \in Source : Gone(r)
      \/ Join /\ ~Interrupted
  <2> USE DEF disk, discovery, flags, bounds, history
  <2>1. src \in [Source -> Entry]
    BY DEF Soundness, SourcesTyped
  <2>2. CASE Discovery
    BY <2>2
       DEF Discovery, VisitInterrupted, VisitFails, LeaveDirectory, VisitDirectory,
           VisitFile, AskAgain, KeepSource, KeepDestination, SkipFile, SkipFolder,
           KeepBoth, KeepBothFolder, ResolveFails, RecordKept, Reserve, PlaceFails,
           Enqueue, EndDiscovery, Abort, Gone, Inside, Chosen
  <2>3. CASE \E w \in Worker : Work(w)
    BY <2>3
       DEF Work, Receive, Open, ReadSource, CheckCopy, Publish, RecordCopied,
           CopyFails, Gone
  <2>4. CASE Cleanup
    BY <2>4
       DEF Cleanup, Join, RemoveSource, CleanupFails, CleanupEnds, Prune,
           PruneEnds, Gone
  <2>5. CASE Outside
    <3>1. UNCHANGED pc
          /\ (UNCHANGED src \/ \E r \in File : src' = [src EXCEPT ![r] = FileOf(<<r, 1>>, EditTime)])
      BY <2>5 DEF Outside, Cancel, EditSource, EditDestination, CreateDestination
    <3> QED
      BY <2>1, <3>1 DEF Gone, FileOf
  <2>6. CASE UNCHANGED vars
    BY <2>6 DEF vars, Gone
  <2> QED
    BY <2>2, <2>3, <2>4, <2>5, <2>6 DEF Next, Finished
<1>2. CASE pc \in {"cleanup", "prune"} \/ \E r \in Source : Gone(r)
  <2>1. pc \in {"cleanup", "prune", "done"} /\ \A w \in Worker : At(w, "idle")
    BY <1>2 DEF Order, PhasesInOrder
  <2>2. frames = <<>> /\ cur.source \notin Source /\ s \in Source
    BY <2>1 DEF Order, PhasesInOrder, Source
  <2>3. DOMAIN frames = {} /\ Ahead = {}
    BY <2>2 DEF Ahead, Waiting, Pending
  <2>4. home'[s] = home[s] /\ verdict'[s] = verdict[s]
    BY <2>2, <2>3 DEF Onward, HomeStep, VerdictStep
  <2>5. \A w \in Worker : At(w, "publish") => TaskOf(w).source # s
    BY <2>1 DEF At
  <2>6. Safe(s) => Safe(s)'
    BY <2>4, <2>5, SafeStays DEF Onward
  <2> QED
    BY <1>2, <2>6, SkippedStays DEF CopyPassIsComplete
<1>3. CASE Join /\ ~Interrupted
  <2>1. /\ pc = "join" /\ WorkersDone /\ UNCHANGED <<dest, home, verdict, operation>>
    BY <1>3 DEF Join, disk, history
  <2>2. Dealt(s)
    BY <1>3, <2>1, DoneIsDealt DEF Order, PhasesInOrder
  <2> QED
    BY <2>1, <2>2 DEF Dealt, Skipped, Safe, Stranger, Lies
<1> QED
  BY <1>1, <1>2, <1>3

-----------------------------------------------------------------------------
(* The invariant. *)

LEMMA CargoParts ==
    Cargo <=> Timed /\ KeptIsSafe /\ RecordsLie /\ JournalSafe /\ GoneIsSafe /\ AllInSight
              /\ CopyPassIsComplete
  BY DEF Cargo, RecordedIsSafe, RecordsLie, JournalSafe, EntrySafe, GoneIsSafe,
         GoneSafe, NothingIsForgotten, AllInSight, InSight, CopyPassIsComplete

LEMMA NextCargo == Soundness /\ Order /\ Homes /\ Cargo /\ [Next]_vars => Cargo'
<1> SUFFICES ASSUME Soundness, Order, Homes, Cargo, [Next]_vars PROVE Cargo'
  OBVIOUS
<1>1. /\ Timed /\ KeptIsSafe /\ RecordsLie /\ JournalSafe /\ GoneIsSafe /\ AllInSight
      /\ CopyPassIsComplete
  BY CargoParts
<1>2. Onward
  BY NextOnward
<1>3. Timed' /\ KeptIsSafe'
  BY <1>1, <1>2, NextTimed, NextKept DEF Onward
<1>4. RecordsLie' /\ JournalSafe' /\ GoneIsSafe'
  BY <1>1, <1>2, NextRecords, NextJournal, NextGone
<1>5. AllInSight' /\ CopyPassIsComplete'
  BY <1>1, <1>2, NextInSight, NextComplete
<1> QED
  BY <1>3, <1>4, <1>5
     DEF Cargo, RecordedIsSafe, RecordsLie, JournalSafe, EntrySafe, GoneIsSafe,
         GoneSafe, NothingIsForgotten, AllInSight, InSight, CopyPassIsComplete

LEMMA InitCargo == Init => Cargo
<1> SUFFICES ASSUME Init PROVE Cargo
  OBVIOUS
<1>1. /\ frames = <<[into |-> <<>>, left |-> Roots]>> /\ cur.source = NoSource /\ pc = "visit"
      /\ DOMAIN frames = {1} /\ frames[1].left = Roots
      /\ queue = <<>> /\ journal = <<>> /\ NoSource \notin Source
      /\ \A w \in Worker : ~Busy(w) /\ ~At(w, "record")
  BY TransferAssumption DEF Init, NoTask, NoSource, Busy, At, Idle
<1>2. \A s \in Source : ~Gone(s)
  BY DEF Init, Gone, FileOf, Folder, Source
<1>3. Timed /\ KeptIsSafe /\ RecordsLie /\ JournalSafe /\ GoneIsSafe /\ CopyPassIsComplete
  BY <1>1, <1>2
     DEF Timed, KeptIsSafe, RecordsLie, JournalSafe, GoneIsSafe,
         CopyPassIsComplete, Source
<1>4. Source \subseteq Ahead
  <2>1. Waiting = Roots /\ Pending = Roots
    BY <1>1, TransferAssumption DEF Waiting, Pending, Roots
  <2>2. \A s \in Below[Top] : s \in Roots \/ \E e \in Roots \cap Directory : s \in Below[e]
    BY BelowSplits DEF Nodes, Roots
  <2> QED
    BY <2>1, <2>2, TransferAssumption DEF Ahead
<1>5. AllInSight
  BY <1>4 DEF AllInSight, InSight, Source
<1> QED
  BY <1>3, <1>5, CargoParts

LEMMA AlwaysSafe ==
    ASSUME NamesApart
    PROVE  Spec => []Cargo
<1>1. Spec => []Homes
  BY AlwaysHome
<1> QED
  BY <1>1, NextCargo, InitCargo, AlwaysSound, AlwaysInOrder, PTL DEF Spec

OthersStayOut == "Move" \notin OutsideCreates
TimesAreKnown == \A s \in File : StartTime[s] # PreEpoch

LEMMA SafeIsSettled ==
    ASSUME NEW s \in File, Safe(s)
    PROVE  Settled(s) \/ Usurped(s)
  BY DEF Safe, Settled, Usurped, Stranger, Lies, Landed

LEMMA MoveHasNoStranger ==
    ASSUME OthersStayOut, RemoveSources
    PROVE  \A s \in File : ~Stranger(s)
  BY DEF OthersStayOut, RemoveSources, Stranger

LEMMA SourcesWait ==
    ASSUME OthersStayOut, Cargo
    PROVE  SourcesWaitForTheCopyPass
<1> SUFFICES ASSUME \E s \in Source : Gone(s), NEW s \in File PROVE Settled(s)
  BY DEF SourcesWaitForTheCopyPass
<1>1. RemoveSources
  BY DEF Cargo, Timed
<1>2. Skipped(s) \/ Safe(s)
  BY DEF Cargo, NothingIsForgotten
<1> QED
  BY <1>1, <1>2, MoveHasNoStranger DEF Settled, Safe, Lies, Landed

(* When no entry can be given the name of a neighbour and other programs create
   no files in the destination of a move, every part of the invariant holds: the
   walk, the tasks, the journal and the destination agree. *)
THEOREM TransferInvariantHolds ==
    ASSUME NamesApart, OthersStayOut
    PROVE  Spec => []TransferInvariant
<1>1. Spec => []Homes /\ []Cargo
  BY AlwaysHome, AlwaysSafe, PTL
<1>2. Soundness /\ Order /\ PublishedIsCounted /\ Homes /\ Cargo /\ TypeOK
          /\ CopyIsTheSeenVersion /\ SkipKeepsSource
        => TransferInvariant
  <2>1. Cargo => SourcesWaitForTheCopyPass
    BY SourcesWait
  <2> QED
    BY <2>1 DEF TransferInvariant, Order, WalkInvariant, Homes, Cargo
<1> QED
  BY <1>1, <1>2, AlwaysSound, AlwaysInOrder, AlwaysCounted, TransferTypeCorrect,
     OnlySeenVersionsArePublished, SkippedSourcesStay, PTL

(* A source that was removed has its last data at the destination, unless the
   user decided for the file that stands there.  Besides, the times must be known:
   a time before 1970 is not compared when the source is removed. *)
THEOREM NoSourceLostHolds ==
    ASSUME NamesApart, OthersStayOut, TimesAreKnown
    PROVE  Spec => []NoSourceLost
<1>1. Spec => []Cargo
  BY AlwaysSafe
<1>2. ASSUME Cargo PROVE NoSourceLost
  <2> SUFFICES ASSUME NEW s \in File, Gone(s)
               PROVE  verdict[s] = "destination" \/ Landed(src[s].data)
    BY DEF NoSourceLost
  <2>1. PICK v \in {0, 1} :
           SafeAs(s, v) /\ (src[s].data = <<s, v>> \/ StartTime[s] = PreEpoch)
    BY <1>2 DEF Cargo, RecordedIsSafe
  <2>2. src[s].data = <<s, v>>
    BY <2>1 DEF TimesAreKnown
  <2>3. RemoveSources
    BY <1>2 DEF Cargo, Timed, Source
  <2>4. verdict[s] = "destination" \/ Lies(s, v)
    BY <2>1, <2>3, MoveHasNoStranger DEF SafeAs
  <2> QED
    BY <2>2, <2>4 DEF Lies, Landed
<1>3. Cargo => NoSourceLost
  BY <1>2
<1> QED
  BY <1>1, <1>3, PTL

(* A transfer reported as completed left no file behind. *)
THEOREM CompletedSettlesEverythingHolds ==
    ASSUME NamesApart
    PROVE  Spec => []CompletedSettlesEverything
<1>1. Spec => []Cargo
  BY AlwaysSafe
<1>2. ASSUME Soundness, Order, Cargo PROVE CompletedSettlesEverything
  <2> SUFFICES ASSUME pc = "done", Outcome = "Completed", NEW s \in File
               PROVE  /\ Settled(s) \/ Usurped(s)
                      /\ RemoveSources => Gone(s) \/ Skipped(s)
    BY DEF CompletedSettlesEverything
  <2>1. ~failed /\ ~cancelled
    BY DEF Outcome
  <2>2. /\ ~Interrupted /\ frames = <<>> /\ WorkersDone /\ journal = <<>>
    BY <1>2, <2>1 DEF Order, PhasesInOrder, Interrupted, WorkersDone
  <2>3. Dealt(s)
    BY <1>2, <2>2, DoneIsDealt, CargoParts
  <2>4. ~Recorded(s)
    BY <2>2 DEF Recorded
  <2> QED
    BY <2>3, <2>4, SafeIsSettled DEF Dealt, Settled
<1>3. Soundness /\ Order /\ Cargo => CompletedSettlesEverything
  BY <1>2
<1> QED
  BY <1>1, <1>3, AlwaysSound, AlwaysInOrder, PTL
=============================================================================
