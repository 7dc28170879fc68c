------------------------- MODULE StreamingTransfer -------------------------
(***************************************************************************)
(* The files under a streaming copy or move: discovery walks the reviewed  *)
(* sources and chooses a target for each file, workers copy through a      *)
(* temporary file and publish, and after a complete pass the sources a     *)
(* move has journaled are removed (execute_transfer, StreamingTransfer,    *)
(* transfer_worker, copy_file_inner, remove_journaled_sources).            *)
(*                                                                         *)
(* OperationEngine models how the job talks to the user; this module       *)
(* models what it does to the disk, while other programs write to it.      *)
(*                                                                         *)
(* Abstractions.  A file is its data and its modified time; lengths are    *)
(* equal, and a write by another program changes the modified time.  The   *)
(* last metadata check of a file and the call that replaces or removes it  *)
(* are one step: nothing in the code can close that window.                *)
(***************************************************************************)
EXTENDS Naturals, Sequences, FiniteSets

CONSTANTS
    File, Directory,    \* the entries of the reviewed source trees
    Top,                \* stands for the list of reviewed roots
    Children,           \* Children[d]: the entries of d; Children[Top]: the roots
    NameOf,             \* the leaf name of an entry
    Copies,             \* Copies[n]: the names "n (2)", "n (3)", ... in order
    StartTime,          \* the modified time of each source file at review
    Destinations,       \* what may stand in the destination directory
    Worker,
    Capacity,           \* bound of the work queue
    Operations,         \* the operations considered: "Copy", "Move"
    OutsideCreates,     \* those during which others create destination files
    Edits, Faults       \* bounds: writes of other programs, input/output errors

PreEpoch == 0           \* a modified time before 1970
EditTime == 8           \* of a file another program has written
PublishTime == 9        \* of a file the transfer has published
Unknown == 10           \* no modified time in a fingerprint
Other == "other"        \* the origin of data that is of none of the sources

Source == File \cup Directory
Roots == Children[Top]
NoSource == Top

FileOf(data, time) == [kind |-> "file", data |-> data, time |-> time]
Folder == [kind |-> "directory", data |-> <<Other, 0>>, time |-> 0]
Data == (File \cup {Other}) \X {0, 1}
Entry == [kind : {"file", "directory", "gone"}, data : Data, time : 0 .. 9]

(* The entries in the trees below a directory: the least set that holds its
   children and those of its folders.  The roots are the trees below Top. *)
HoldsItsTrees(S) == \A d \in Directory \cap S : Children[d] \subseteq S
Below == [d \in Directory \cup {Top} |->
            {s \in Source : \A S \in SUBSET Source :
                Children[d] \subseteq S /\ HoldsItsTrees(S) => s \in S}]

ASSUME TransferAssumption ==
    /\ Top \notin Source /\ File \cap Directory = {} /\ Other \notin File
    /\ IsFiniteSet(Source)
    /\ Children \in [Directory \cup {Top} -> SUBSET Source]
    /\ \A d, e \in Directory \cup {Top} : d # e => Children[d] \cap Children[e] = {}
    /\ \A d \in Directory : d \notin Below[d]
    /\ Below[Top] = Source
    /\ Copies \in [DOMAIN Copies -> Seq(DOMAIN Copies)]
    /\ \A s \in Source : NameOf[s] \in DOMAIN Copies
    /\ StartTime \in [File -> 0 .. 7]
    /\ \A d \in Destinations : \A p \in DOMAIN d : d[p] \in Entry /\ d[p].time <= 7
    /\ Capacity \in Nat \ {0} /\ Edits \in Nat /\ Faults \in Nat
    /\ Operations \subseteq {"Copy", "Move"}
    /\ OutsideCreates \subseteq Operations

Task == [source : Source \cup {NoSource}, target : Seq(DOMAIN Copies),
         time : 0 .. 9, overwrite : BOOLEAN, shown : Entry]
NoTask == [source |-> NoSource, target |-> <<>>, time |-> 0,
           overwrite |-> FALSE, shown |-> Folder]

FileActions == {"KeepNewer", "KeepOlder", "KeepSource", "KeepDestination",
                "KeepBoth", "Skip"}
TypeActions == {"KeepBoth", "KeepDestination", "Skip"}
ByAge == {"KeepNewer", "KeepOlder"}
Ask == "Ask"            \* no Apply-to-all policy

VARIABLES
    operation,
    src,        \* src[s]: the entry of a source, "gone" once removed
    dest,       \* dest[p]: the entry at path p below the destination
    pc,         \* where the discovery thread is
    frames,     \* its open directories: target path and entries still to visit
    cur,        \* the file or directory it is deciding about
    policy,     \* Apply-to-all choices, for file and for type conflicts
    reserved,   \* targets handed to workers
    queue,      \* the bounded work queue
    worker,     \* worker[w]: step, task and the data in its temporary file
    journal,    \* sources to be removed, with the time that was written
    unpruned,   \* directories the last pass has not left yet
    cancelled, stopped, failed,
    completed,  \* completed_items of the report
    edits, faults,
    verdict,    \* history: what was decided about a source
    agreed,     \* history: data the user agreed to have replaced, and where
    home        \* history: the target found for a source, or <<>>

disk == <<operation, src, dest>>
discovery == <<pc, frames, cur, policy, reserved>>
flags == <<cancelled, stopped, failed>>
bounds == <<edits, faults>>
history == <<verdict, agreed, home>>
vars == <<disk, discovery, queue, worker, journal, unpruned, flags, completed,
          bounds, history>>

RemoveSources == operation = "Move"
Interrupted == cancelled \/ stopped
Idle == [step |-> "idle", task |-> NoTask, data |-> <<Other, 0>>]

Init ==
    /\ operation \in Operations
    /\ src = [s \in Source |->
                IF s \in File THEN FileOf(<<s, 0>>, StartTime[s]) ELSE Folder]
    /\ dest \in Destinations
    /\ pc = "visit"
    /\ frames = <<[into |-> <<>>, left |-> Roots]>>
    /\ cur = NoTask
    /\ policy = [kind \in {"file", "type"} |-> Ask]
    /\ reserved = {}
    /\ queue = <<>>
    /\ worker = [w \in Worker |-> Idle]
    /\ journal = <<>>
    /\ unpruned = Directory
    /\ cancelled = FALSE /\ stopped = FALSE /\ failed = FALSE
    /\ completed = 0
    /\ edits = Edits /\ faults = Faults
    /\ verdict = [s \in Source |-> "none"]
    /\ agreed = {}
    /\ home = [s \in Source |-> <<>>]

-----------------------------------------------------------------------------
(* The planner's helpers on metadata. *)

(* revalidate: an unknown time in the fingerprint is not compared. *)
Matches(entry, kind, time) ==
    /\ entry.kind = kind
    /\ time # Unknown => entry.time = time

(* write_journal_entry: a time before the epoch is written as no time. *)
JournalTime(time) == IF time = PreEpoch THEN Unknown ELSE time

Exists(path) == path \in DOMAIN dest
Put(path, entry) ==
    [p \in DOMAIN dest \cup {path} |-> IF p = path THEN entry ELSE dest[p]]

(* keep_both_target: the requested name, then its numbered copies. *)
Sibling(path, name) == [path EXCEPT ![Len(path)] = name]
Tried(path) ==
    LET name == path[Len(path)] IN
    <<path>> \o [i \in DOMAIN Copies[name] |-> Sibling(path, Copies[name][i])]
Free(path) == ~Exists(path) /\ path \notin reserved
FreeTried(path) == {i \in DOMAIN Tried(path) : Free(Tried(path)[i])}
KeepBothTarget(path) ==
    Tried(path)[CHOOSE i \in FreeTried(path) : \A j \in FreeTried(path) : i <= j]

Journaled(source, time) ==
    IF RemoveSources
    THEN Append(journal, [source |-> source, time |-> JournalTime(time)])
    ELSE journal

-----------------------------------------------------------------------------
(* Discovery. *)

(* A visit returned an error: it is recorded unless the job is ending. *)
Abort ==
    /\ failed' = (failed \/ ~Interrupted)
    /\ stopped' = (stopped \/ ~cancelled)
    /\ pc' = "join"
    /\ frames' = <<>>
    /\ cur' = NoTask

Inside == pc = "visit" /\ frames # <<>>
Frame == Head(frames)
Left(s) == <<[Frame EXCEPT !.left = @ \ {s}]>> \o Tail(frames)
Enter(d, path) == [into |-> path, left |-> Children[d]]
Considered(s, time, shown) ==
    [source |-> s, target |-> Append(Frame.into, NameOf[s]), time |-> time,
     overwrite |-> FALSE, shown |-> shown]
Found(s, path) == home' = [home EXCEPT ![s] = path]

VisitInterrupted ==
    /\ Inside /\ Frame.left # {} /\ Interrupted
    /\ Abort
    /\ UNCHANGED <<disk, policy, reserved, queue, worker, journal, unpruned,
                   cancelled, completed, bounds, history>>

(* An entry cannot be inspected, or is of an unsupported kind. *)
VisitFails ==
    /\ Inside /\ Frame.left # {} /\ faults > 0
    /\ faults' = faults - 1
    /\ Abort
    /\ UNCHANGED <<disk, policy, reserved, queue, worker, journal, unpruned,
                   cancelled, completed, edits, history>>

LeaveDirectory ==
    /\ Inside /\ Frame.left = {}
    /\ frames' = Tail(frames)
    /\ UNCHANGED <<disk, pc, cur, policy, reserved, queue, worker, journal,
                   unpruned, flags, completed, bounds, history>>

(* directory_target: merge into a folder, create it, or ask. *)
VisitDirectory(d) ==
    /\ Inside /\ ~Interrupted /\ d \in Directory \cap Frame.left
    /\ LET path == Append(Frame.into, NameOf[d]) IN
       \/ /\ ~Exists(path)
          /\ dest' = Put(path, Folder)
          /\ frames' = <<Enter(d, path)>> \o Left(d)
          /\ UNCHANGED <<pc, cur>>
       \/ /\ Exists(path) /\ dest[path].kind = "directory"
          /\ frames' = <<Enter(d, path)>> \o Left(d)
          /\ UNCHANGED <<operation, dest, pc, cur>>
       \/ /\ Exists(path) /\ dest[path].kind = "file"
          /\ cur' = Considered(d, 0, dest[path])
          /\ frames' = Left(d)
          /\ pc' = "ask"
          /\ UNCHANGED dest
    /\ Found(d, Append(Frame.into, NameOf[d]))
    /\ UNCHANGED <<operation, src, policy, reserved, queue, worker, journal,
                   unpruned, flags, completed, bounds, verdict, agreed>>

Identical(s, path) ==
    /\ dest[path].kind = "file"
    /\ dest[path].time = src[s].time
    /\ dest[path].data = src[s].data

(* visit_file: what stands at the requested target decides how to go on. *)
VisitFile(s) ==
    /\ Inside /\ ~Interrupted /\ s \in File \cap Frame.left
    /\ frames' = Left(s)
    /\ LET path == Append(Frame.into, NameOf[s]) IN
       \/ /\ ~Exists(path)
          /\ cur' = Considered(s, src[s].time, Folder)
          /\ pc' = "place"
          /\ UNCHANGED verdict
       \/ /\ Exists(path) /\ Identical(s, path)
          /\ cur' = Considered(s, src[s].time, dest[path])
          /\ pc' = "place"
          /\ verdict' = [verdict EXCEPT ![s] = "identical"]
       \/ /\ Exists(path) /\ ~Identical(s, path)
          /\ cur' = Considered(s, src[s].time, dest[path])
          /\ pc' = "ask"
          /\ UNCHANGED verdict
    /\ Found(s, Append(Frame.into, NameOf[s]))
    /\ UNCHANGED <<disk, policy, reserved, queue, worker, journal, unpruned,
                   flags, completed, bounds, agreed>>

ConflictKind ==
    IF cur.source \in File /\ cur.shown.kind = "file" THEN "file" ELSE "type"
Newer == cur.time > cur.shown.time
Older == cur.time < cur.shown.time
SourceWins(action) ==
    \/ action = "KeepSource"
    \/ action = "KeepNewer" /\ Newer
    \/ action = "KeepOlder" /\ Older
DestinationWins(action) ==
    \/ action = "KeepDestination"
    \/ action = "KeepNewer" /\ Older
    \/ action = "KeepOlder" /\ Newer

(* resolve: the choice of the user, or of an Apply-to-all policy. *)
Chosen(action) ==
    /\ pc = "ask"
    /\ action \in (IF ConflictKind = "file" THEN FileActions ELSE TypeActions)
    /\ policy[ConflictKind] \in {Ask, action}
Adopt(action, all) ==
    policy' = IF all THEN [policy EXCEPT ![ConflictKind] = action] ELSE policy
Settle(v) == verdict' = [verdict EXCEPT ![cur.source] = v]

(* By age, but neither is newer: the policy is dropped and the user asked. *)
AskAgain(action) ==
    /\ Chosen(action) /\ ConflictKind = "file"
    /\ action \in ByAge /\ ~Newer /\ ~Older
    /\ policy' = [policy EXCEPT !["file"] = Ask]
    /\ UNCHANGED <<disk, pc, frames, cur, reserved, queue, worker, journal,
                   unpruned, flags, completed, bounds, history>>

KeepSource(action, all) ==
    /\ Chosen(action) /\ ConflictKind = "file" /\ SourceWins(action)
    /\ Adopt(action, all)
    /\ cur' = [cur EXCEPT !.overwrite = TRUE]
    /\ pc' = "place"
    /\ Settle("source")
    /\ agreed' = agreed \cup {<<cur.target, cur.shown.data>>}
    /\ UNCHANGED <<disk, frames, reserved, queue, worker, journal, unpruned,
                   flags, completed, bounds, home>>

KeepDestination(action, all) ==
    /\ Chosen(action) /\ ConflictKind = "file" /\ DestinationWins(action)
    /\ Adopt(action, all)
    /\ pc' = "place"
    /\ Settle("destination")
    /\ UNCHANGED <<disk, frames, cur, reserved, queue, worker, journal,
                   unpruned, flags, completed, bounds, agreed, home>>

SkipFile(action, all) ==
    /\ Chosen(action) /\ cur.source \in File
    /\ action = "Skip" \/ (ConflictKind = "type" /\ action = "KeepDestination")
    /\ Adopt(action, all)
    /\ completed' = completed + 1
    /\ pc' = "visit" /\ cur' = NoTask
    /\ Settle("skip")
    /\ UNCHANGED <<disk, frames, reserved, queue, worker, journal, unpruned,
                   flags, bounds, agreed, home>>

KeepBoth(all) ==
    /\ Chosen("KeepBoth") /\ cur.source \in File
    /\ FreeTried(cur.target) # {}
    /\ Adopt("KeepBoth", all)
    /\ cur' = [cur EXCEPT !.target = KeepBothTarget(cur.target)]
    /\ reserved' = reserved \cup {KeepBothTarget(cur.target)}
    /\ Found(cur.source, KeepBothTarget(cur.target))
    /\ pc' = "send"
    /\ UNCHANGED <<disk, frames, queue, worker, journal, unpruned, flags,
                   completed, bounds, verdict, agreed>>

KeepBothFolder(all) ==
    /\ Chosen("KeepBoth") /\ cur.source \in Directory
    /\ FreeTried(cur.target) # {}
    /\ Adopt("KeepBoth", all)
    /\ dest' = Put(KeepBothTarget(cur.target), Folder)
    /\ frames' = <<Enter(cur.source, KeepBothTarget(cur.target))>> \o frames
    /\ Found(cur.source, KeepBothTarget(cur.target))
    /\ pc' = "visit" /\ cur' = NoTask
    /\ UNCHANGED <<operation, src, reserved, queue, worker, journal,
                   unpruned, flags, completed, bounds, verdict, agreed>>

SkipFolder(action, all) ==
    /\ Chosen(action) /\ cur.source \in Directory
    /\ action \in {"KeepDestination", "Skip"}
    /\ Adopt(action, all)
    /\ pc' = "visit" /\ cur' = NoTask
    /\ Settle("skip")
    /\ UNCHANGED <<disk, frames, reserved, queue, worker, journal, unpruned,
                   flags, completed, bounds, agreed, home>>

(* The wait for an answer looks at the cancellation only; no free name and
   a folder that cannot be created are errors too. *)
ResolveFails ==
    /\ pc = "ask"
    /\ \/ cancelled /\ UNCHANGED faults
       \/ /\ Chosen("KeepBoth") /\ FreeTried(cur.target) = {}
          /\ UNCHANGED faults
       \/ faults > 0 /\ faults' = faults - 1
    /\ Abort
    /\ UNCHANGED <<disk, policy, reserved, queue, worker, journal, unpruned,
                   cancelled, completed, edits, history>>

(* visit_file goes on with what is at the target now: a file that need not
   be copied is journaled and done, another is handed to the workers. *)
Keeps == ~cur.overwrite /\ Exists(cur.target)

RecordKept ==
    /\ pc = "place" /\ Keeps
    /\ journal' = Journaled(cur.source, cur.time)
    /\ completed' = completed + 1
    /\ pc' = "visit" /\ cur' = NoTask
    /\ UNCHANGED <<disk, frames, policy, reserved, queue, worker, unpruned,
                   flags, bounds, history>>

Reserve ==
    /\ pc = "place" /\ ~Keeps /\ cur.target \notin reserved
    /\ reserved' = reserved \cup {cur.target}
    /\ pc' = "send"
    /\ UNCHANGED <<disk, frames, cur, policy, queue, worker, journal,
                   unpruned, flags, completed, bounds, history>>

(* The journal cannot be written, the target is reserved for another source,
   or the job is ending while the queue is full. *)
PlaceFails ==
    /\ \/ /\ pc = "place" /\ Keeps /\ RemoveSources
          /\ faults > 0 /\ faults' = faults - 1
       \/ pc = "place" /\ ~Keeps /\ cur.target \in reserved /\ UNCHANGED faults
       \/ pc = "send" /\ Interrupted /\ UNCHANGED faults
    /\ Abort
    /\ UNCHANGED <<disk, policy, reserved, queue, worker, journal, unpruned,
                   cancelled, completed, edits, history>>

Room == Len(queue) < Capacity

Enqueue ==
    /\ pc = "send" /\ Room
    /\ queue' = Append(queue, cur)
    /\ pc' = "visit" /\ cur' = NoTask
    /\ UNCHANGED <<disk, frames, policy, reserved, worker, journal, unpruned,
                   flags, completed, bounds, history>>

EndDiscovery ==
    /\ pc = "visit" /\ frames = <<>>
    /\ pc' = "join"
    /\ UNCHANGED <<disk, frames, cur, policy, reserved, queue, worker,
                   journal, unpruned, flags, completed, bounds, history>>

-----------------------------------------------------------------------------
(* Workers: the source is checked, copied to a temporary file, checked again
   and published; only then is it journaled. *)

At(w, step) == worker[w].step = step
TaskOf(w) == worker[w].task
Goes(w, step) == worker' = [worker EXCEPT ![w].step = step]
Rest(w) == worker' = [worker EXCEPT ![w] = Idle]
SourceMatches(task) == Matches(src[task.source], "file", task.time)
TargetIsFile(task) ==                                            \* mutant
    IF task.overwrite THEN Exists(task.target) ELSE ~Exists(task.target)
TargetMatches(task) ==
    IF task.overwrite
    THEN /\ Exists(task.target)
         /\ Matches(dest[task.target], task.shown.kind, task.shown.time)
    ELSE ~Exists(task.target)

Receive(w) ==
    /\ At(w, "idle") /\ queue # <<>>
    /\ queue' = Tail(queue)
    /\ IF Interrupted THEN UNCHANGED worker
       ELSE worker' = [worker EXCEPT ![w] =
                [step |-> "open", task |-> Head(queue), data |-> <<Other, 0>>]]
    /\ UNCHANGED <<disk, discovery, journal, unpruned, flags, completed,
                   bounds, history>>

Open(w) ==
    /\ At(w, "open") /\ SourceMatches(TaskOf(w))
    /\ Goes(w, "read")
    /\ UNCHANGED <<disk, discovery, queue, journal, unpruned, flags,
                   completed, bounds, history>>

ReadSource(w) ==
    /\ At(w, "read") /\ ~cancelled
    /\ worker' = [worker EXCEPT ![w].step = "check",
                                ![w].data = src[TaskOf(w).source].data]
    /\ UNCHANGED <<disk, discovery, queue, journal, unpruned, flags,
                   completed, bounds, history>>

CheckCopy(w) ==
    /\ At(w, "check") /\ SourceMatches(TaskOf(w))
    /\ Goes(w, "publish")
    /\ UNCHANGED <<disk, discovery, queue, journal, unpruned, flags,
                   completed, bounds, history>>

Publish(w) ==
    /\ At(w, "publish") /\ TargetMatches(TaskOf(w))
    /\ dest' = Put(TaskOf(w).target, FileOf(worker[w].data, PublishTime))
    /\ Goes(w, "record")
    /\ UNCHANGED <<operation, src, discovery, queue, journal, unpruned,
                   flags, completed, bounds, history>>

RecordCopied(w) ==
    /\ At(w, "record")
    /\ journal' = Journaled(TaskOf(w).source, TaskOf(w).time)
    /\ completed' = completed + 1
    /\ Rest(w)
    /\ UNCHANGED <<disk, discovery, queue, unpruned, flags, bounds, history>>

(* The temporary file of a failed copy is dropped with it. *)
CopyFails(w) ==
    /\ ~At(w, "idle")
    /\ \/ At(w, "open") /\ ~SourceMatches(TaskOf(w)) /\ UNCHANGED faults
       \/ At(w, "check") /\ ~SourceMatches(TaskOf(w)) /\ UNCHANGED faults
       \/ At(w, "publish") /\ ~TargetMatches(TaskOf(w)) /\ UNCHANGED faults
       \/ cancelled /\ (At(w, "read") \/ At(w, "check")) /\ UNCHANGED faults
       \/ /\ At(w, "record") => RemoveSources
          /\ faults > 0 /\ faults' = faults - 1
    /\ Rest(w)
    /\ stopped' = TRUE
    /\ failed' = (failed \/ ~cancelled \/ At(w, "record"))
    /\ UNCHANGED <<disk, discovery, queue, journal, unpruned, cancelled,
                   completed, edits, history>>

-----------------------------------------------------------------------------
(* After the workers have drained the closed queue. *)

QueueDrained == queue = <<>>                                     \* mutant
WorkersDone == queue = <<>> /\ \A w \in Worker : At(w, "idle")

Join ==
    /\ pc = "join" /\ WorkersDone
    /\ IF Interrupted THEN pc' = "done" /\ UNCHANGED completed
       ELSE /\ pc' = IF RemoveSources THEN "cleanup" ELSE "done"
            /\ completed' = Cardinality(Source)
    /\ UNCHANGED <<disk, frames, cur, policy, reserved, queue, worker,
                   journal, unpruned, flags, bounds, history>>

Oldest == Head(journal)
EntryIsFile == src[Oldest.source].kind = "file"                  \* mutant
EntryMatches == Matches(src[Oldest.source], "file", Oldest.time)

RemoveSource ==
    /\ pc = "cleanup" /\ journal # <<>> /\ ~cancelled /\ EntryMatches
    /\ src' = [src EXCEPT ![Oldest.source].kind = "gone"]
    /\ journal' = Tail(journal)
    /\ UNCHANGED <<operation, dest, discovery, queue, worker, unpruned,
                   flags, completed, bounds, history>>

CleanupFails ==
    /\ pc = "cleanup" /\ journal # <<>>
    /\ \/ (cancelled \/ ~EntryMatches) /\ UNCHANGED faults
       \/ faults > 0 /\ faults' = faults - 1
    /\ failed' = TRUE /\ stopped' = TRUE
    /\ pc' = "done"
    /\ UNCHANGED <<disk, frames, cur, policy, reserved, queue, worker,
                   journal, unpruned, cancelled, completed, edits, history>>

CleanupEnds ==
    /\ pc = "cleanup" /\ journal = <<>>
    /\ pc' = "prune"
    /\ UNCHANGED <<disk, frames, cur, policy, reserved, queue, worker,
                   journal, unpruned, flags, completed, bounds, history>>

(* remove_empty_source_directories leaves a directory after its children;
   remove_dir succeeds on an empty one, and its result is ignored. *)
Empty(d) == \A s \in Children[d] : src[s].kind = "gone"

Prune(d) ==
    /\ pc = "prune" /\ d \in unpruned /\ Children[d] \cap unpruned = {}
    /\ unpruned' = unpruned \ {d}
    /\ \/ cancelled /\ UNCHANGED src
       \/ /\ Empty(d)
          /\ src' = [src EXCEPT ![d].kind = "gone"]
       \/ ~Empty(d) /\ UNCHANGED src
    /\ UNCHANGED <<operation, dest, discovery, queue, worker, journal, flags,
                   completed, bounds, history>>

PruneEnds ==
    /\ pc = "prune" /\ unpruned = {}
    /\ pc' = "done"
    /\ UNCHANGED <<disk, frames, cur, policy, reserved, queue, worker,
                   journal, unpruned, flags, completed, bounds, history>>

OutcomeOfCancel ==                                               \* mutant
    IF ~cancelled THEN "Completed"
    ELSE IF completed > 0 THEN "Partial" ELSE "Cancelled"
OutcomeCancelledFirst ==                                         \* mutant
    IF cancelled THEN "Cancelled"
    ELSE IF ~failed THEN "Completed"
    ELSE IF completed > 0 THEN "Partial" ELSE "Failed"
Outcome ==
    IF ~failed /\ ~cancelled THEN "Completed"
    ELSE IF completed > 0 THEN "Partial"
    ELSE IF cancelled THEN "Cancelled" ELSE "Failed"

-----------------------------------------------------------------------------
(* The user and other programs.  They leave alone what the transfer has
   published; a source is written at most once. *)

Cancel ==
    /\ pc # "done" /\ ~cancelled
    /\ cancelled' = TRUE
    /\ UNCHANGED <<disk, discovery, queue, worker, journal, unpruned,
                   stopped, failed, completed, bounds, history>>

EditSource(s) ==
    /\ pc # "done" /\ edits > 0 /\ src[s] = FileOf(<<s, 0>>, StartTime[s])
    /\ src' = [src EXCEPT ![s] = FileOf(<<s, 1>>, EditTime)]
    /\ edits' = edits - 1
    /\ UNCHANGED <<operation, dest, discovery, queue, worker, journal,
                   unpruned, flags, completed, faults, history>>

EditDestination(path) ==
    /\ pc # "done" /\ edits > 0 /\ dest[path].kind = "file"
    /\ dest[path].data = <<Other, 0>>
    /\ dest' = [dest EXCEPT ![path] = FileOf(<<Other, 1>>, EditTime)]
    /\ edits' = edits - 1
    /\ UNCHANGED <<operation, src, discovery, queue, worker, journal,
                   unpruned, flags, completed, faults, history>>

CreateDestination(path) ==
    /\ pc # "done" /\ edits > 0 /\ operation \in OutsideCreates /\ ~Exists(path)
    /\ dest' = Put(path, FileOf(<<Other, 1>>, EditTime))
    /\ edits' = edits - 1
    /\ UNCHANGED <<operation, src, discovery, queue, worker, journal,
                   unpruned, flags, completed, faults, history>>

Finished == pc = "done" /\ UNCHANGED vars

Discovery ==
    \/ VisitInterrupted \/ VisitFails \/ LeaveDirectory
    \/ \E d \in Directory : VisitDirectory(d)
    \/ \E s \in File : VisitFile(s)
    \/ \E action \in FileActions : AskAgain(action)
    \/ \E action \in FileActions, all \in BOOLEAN :
          \/ KeepSource(action, all) \/ KeepDestination(action, all)
          \/ SkipFile(action, all) \/ SkipFolder(action, all)
    \/ \E all \in BOOLEAN : KeepBoth(all) \/ KeepBothFolder(all)
    \/ ResolveFails \/ RecordKept \/ Reserve \/ PlaceFails \/ Enqueue
    \/ EndDiscovery

Work(w) ==
    \/ Receive(w) \/ Open(w) \/ ReadSource(w) \/ CheckCopy(w) \/ Publish(w)
    \/ RecordCopied(w) \/ CopyFails(w)

Cleanup ==
    \/ Join \/ RemoveSource \/ CleanupFails \/ CleanupEnds \/ PruneEnds
    \/ \E d \in Directory : Prune(d)

Outside ==
    \/ Cancel
    \/ \E s \in File : EditSource(s)
    \/ \E path \in DOMAIN dest : EditDestination(path)
    \/ \E s \in Roots : CreateDestination(<<NameOf[s]>>)

Next == Discovery \/ (\E w \in Worker : Work(w)) \/ Cleanup \/ Outside \/ Finished

Spec == Init /\ [][Next]_vars

-----------------------------------------------------------------------------
(* Properties. *)

(* Every variable keeps its type: the queue keeps its bound, and tasks and
   journal entries are about source files. *)
TypeOK ==
    /\ operation \in Operations
    /\ src \in [Source -> Entry]
    /\ \A p \in DOMAIN dest : dest[p] \in Entry
    /\ pc \in {"visit", "ask", "place", "send", "join", "cleanup", "prune", "done"}
    /\ cur \in Task
    /\ policy \in [{"file", "type"} -> FileActions \cup {Ask}]
    /\ queue \in Seq(Task) /\ Len(queue) <= Capacity
    /\ \A i \in DOMAIN queue : queue[i].source \in File
    /\ worker \in [Worker -> [step : {"idle", "open", "read", "check",
                                      "publish", "record"},
                              task : Task, data : Data]]
    /\ \A w \in Worker : At(w, "idle") \/ TaskOf(w).source \in File
    /\ journal \in Seq([source : File, time : 0 .. 10])
    /\ unpruned \subseteq Directory
    /\ {cancelled, stopped, failed} \subseteq BOOLEAN
    /\ completed \in Nat /\ edits \in 0 .. Edits /\ faults \in 0 .. Faults
    /\ verdict \in [Source -> {"none", "identical", "source", "destination", "skip"}]
    /\ home \in [Source -> Seq(DOMAIN Copies)]

Gone(s) == src[s].kind = "gone"
Landed(data) == \E p \in DOMAIN dest : dest[p].kind = "file" /\ dest[p].data = data

Skipped(s) ==
    \/ verdict[s] = "skip"
    \/ \E d \in Directory : verdict[d] = "skip" /\ s \in Below[d]
Settled(s) ==
    Skipped(s) \/ verdict[s] = "destination" \/ \E v \in {0, 1} : Landed(<<s, v>>)

(* A source that was removed has its last data at the destination, unless the
   user decided for the file that stands there: no order of discovery, workers,
   cleanup and writes of other programs loses the only copy of a file. *)
NoSourceLost ==
    \A s \in File : Gone(s) => verdict[s] = "destination" \/ Landed(src[s].data)

(* No source is removed before every other one is copied or decided: a move
   that is cancelled or fails in its copy pass has removed nothing. *)
SourcesWaitForTheCopyPass ==
    (\E s \in Source : Gone(s)) => \A s \in File : Settled(s)

(* A file the user skipped, or one inside a skipped folder, stays. *)
SkipKeepsSource == \A s \in File : Skipped(s) => ~Gone(s)

(* Another program has put a file where s would go. *)
Usurped(s) ==
    \E p \in DOMAIN dest : p[Len(p)] = NameOf[s] /\ dest[p].data = <<Other, 1>>

(* A transfer reported as completed left no file behind: each is copied or
   decided, and those of a move that were not skipped are gone.  Only a file
   that another program creates between visit_file's two looks at the target
   is taken for one the user kept. *)
CompletedSettlesEverything ==
    pc = "done" /\ Outcome = "Completed" =>
        \A s \in File :
            /\ Settled(s) \/ Usurped(s)
            /\ RemoveSources => Gone(s) \/ Skipped(s)

(* What is published is the version whose metadata discovery had seen: a file
   written during its copy is not published, whatever was read of it. *)
CopyIsTheSeenVersion ==
    \A w \in Worker : At(w, "publish") =>
        (worker[w].data[2] = 1 <=> TaskOf(w).time = EditTime)

(* A copy that is reported as cancelled or failed has published no file: the
   counter that tells these outcomes from a partial one misses nothing.  (A
   move publishes before it journals, and the journal may fail.) *)
UnchangedMeansUnchanged ==
    operation = "Copy" /\ pc = "done" /\ Outcome \in {"Cancelled", "Failed"} =>
        \A s \in File, v \in {0, 1} :
            Landed(<<s, v>>) => \E d \in Destinations : \E p \in DOMAIN d :
                                    d[p].data = <<s, v>>

(* A destination file is replaced only where the user chose its source, and
   only in the version that was shown: not one that another program wrote
   later, nor one that another worker published. *)
ReplacedOnlyAsAgreed ==
    [][\A p \in DOMAIN dest : dest[p].kind = "file" =>
          /\ p \in DOMAIN dest'
          /\ \/ dest'[p] = dest[p]
             \/ dest'[p].data = <<Other, 1>>
             \/ <<p, dest[p].data>> \in agreed]_vars

=============================================================================
