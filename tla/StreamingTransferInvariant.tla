--------------------- MODULE StreamingTransferInvariant ---------------------
(***************************************************************************)
(* What makes a streaming transfer safe, in the form the proofs need: where *)
(* each source is between the walk and the journal, whose each target is,   *)
(* and what lies at the target of a source that has been dealt with.        *)
(***************************************************************************)
EXTENDS StreamingTransfer

(* Where a source is: waiting in an open directory, in the tree below one that
   waits or is being decided, with the queue or a worker, in the journal. *)
Waiting == UNION {frames[i].left : i \in DOMAIN frames}
Pending == Waiting \cup ({cur.source} \cap Source)
Ahead == Waiting \cup UNION {Below[d] : d \in Pending \cap Directory}
Busy(w) == ~At(w, "idle")
Carried(s) ==
    \/ \E i \in DOMAIN queue : queue[i].source = s
    \/ \E w \in Worker : Busy(w) /\ TaskOf(w).source = s
Recorded(s) == \E i \in DOMAIN journal : journal[i].source = s
Begun(s) == s \in File /\ (Carried(s) \/ Recorded(s) \/ Gone(s))

(* The walk comes to every entry once: no entry waits in two directories, or
   below another one that waits. *)
WalkIsApart ==
    /\ \A i, j \in DOMAIN frames : i # j => frames[i].left \cap frames[j].left = {}
    /\ cur.source \notin Waiting
    /\ \A d \in Pending \cap Directory : Below[d] \cap Pending = {}

(* Nothing has been done about an entry before the walk comes to it. *)
AheadIsUntouched ==
    \A s \in Ahead : verdict[s] = "none" /\ home[s] = <<>> /\ ~Begun(s)

CurrentIsNew ==
    \A s \in Source : s = cur.source =>
        /\ ~Begun(s) /\ verdict[s] # "skip"
        /\ pc = "ask" => verdict[s] = "none"

(* What was skipped, or is inside a skipped folder, is never taken up. *)
SkippedIsLeft ==
    \A s \in Source : Skipped(s) => s \notin Ahead /\ s # cur.source /\ ~Begun(s)

(* A source is with the queue, a worker or the journal, and only once. *)
OnceOnly ==
    /\ \A i, j \in DOMAIN queue : queue[i].source = queue[j].source => i = j
    /\ \A i \in DOMAIN queue, w \in Worker :
          Busy(w) => queue[i].source # TaskOf(w).source
    /\ \A v, w \in Worker :
          Busy(v) /\ Busy(w) /\ TaskOf(v).source = TaskOf(w).source => v = w
    /\ \A s \in File : Recorded(s) => ~Carried(s)

(* Workers are done before cleanup, and cleanup before pruning; nothing is
   removed earlier.  A job that stopped by itself has failed. *)
PhasesInOrder ==
    /\ pc \in {"ask", "place", "send"} <=> cur.source \in Source
    /\ pc \in {"join", "cleanup", "prune", "done"} => frames = <<>>
    /\ pc \in {"cleanup", "prune", "done"} => queue = <<>> /\ \A w \in Worker : At(w, "idle")
    /\ pc \in {"cleanup", "prune"} => RemoveSources
    /\ journal # <<>> => RemoveSources
    /\ pc = "prune" \/ (pc = "done" /\ ~Interrupted) => journal = <<>>
    /\ (\E s \in Source : Gone(s)) => pc \in {"cleanup", "prune", "done"}
    /\ stopped => failed \/ cancelled

(* A copy counts what it publishes: at the latest when its worker rests. *)
PublishedIsCounted ==
    operation = "Copy" =>
        \A p \in DOMAIN dest : dest[p].kind = "file" /\ dest[p].data[1] \in File =>
            \/ completed > 0
            \/ \E w \in Worker : At(w, "record")
            \/ \E d \in Destinations : \E q \in DOMAIN d : d[q].data = dest[p].data

-----------------------------------------------------------------------------
(* Targets. *)

HomeOf(d) == IF d = Top THEN <<>> ELSE home[d]
Entered(d) == d = Top \/ (d \in Directory /\ home[d] # <<>> /\ d # cur.source)
NamesFor(s) ==
    {NameOf[s]} \cup {Copies[NameOf[s]][i] : i \in DOMAIN Copies[NameOf[s]]}

(* The names that the entries of one directory may be given differ. *)
NamesApart ==
    \A d \in DOMAIN Children : \A s, t \in Children[d] :
        s # t => NamesFor(s) \cap NamesFor(t) = {}

(* Every target is that of an entered directory and a name for the source. *)
HomesAreNamed ==
    /\ \A i \in DOMAIN frames : \E d \in Directory \cup {Top} :
          /\ Entered(d)
          /\ frames[i].into = HomeOf(d) /\ frames[i].left \subseteq Children[d]
    /\ \A s \in Source : home[s] # <<>> =>
          \E d \in Directory \cup {Top} : \E n \in NamesFor(s) :
              /\ Entered(d) /\ s \in Children[d]
              /\ home[s] = Append(HomeOf(d), n)

(* Two sources never have one target. *)
HomesAreApart ==
    \A s, t \in Source : s # t /\ home[s] # <<>> => home[s] # home[t]

(* A task is for the target of its source; a reserved target is that of a file
   which has been handed out. *)
TasksGoHome ==
    /\ pc \in {"ask", "place", "send"} => cur.target = home[cur.source]
    /\ pc \in {"ask", "place"} => cur.target[Len(cur.target)] = NameOf[cur.source]
    /\ \A i \in DOMAIN queue : queue[i].target = home[queue[i].source]
    /\ \A w \in Worker : Busy(w) => TaskOf(w).target = home[TaskOf(w).source]
    /\ \A r \in reserved : r # <<>> /\ \E s \in File :
          home[s] = r /\ (s = cur.source => pc = "send")

-----------------------------------------------------------------------------
(* What lies at the target of a source. *)

Version(time) == IF time = EditTime THEN 1 ELSE 0
Lies(s, v) ==
    /\ home[s] \in DOMAIN dest
    /\ dest[home[s]].kind = "file" /\ dest[home[s]].data = <<s, v>>
\* Another program has put a file there.
Stranger(s) ==
    /\ operation \in OutsideCreates
    /\ home[s] \in DOMAIN dest /\ dest[home[s]].data = <<Other, 1>>
    /\ home[s][Len(home[s])] = NameOf[s]
Safe(s) ==
    verdict[s] = "destination" \/ Stranger(s) \/ \E v \in {0, 1} : Lies(s, v)
SafeAs(s, v) == verdict[s] = "destination" \/ Stranger(s) \/ Lies(s, v)

(* A file that need not be copied: what lies at its target was looked at. *)
KeptIsSafe ==
    pc = "place" =>
        /\ cur.overwrite <=> verdict[cur.source] = "source"
        /\ Keeps => SafeAs(cur.source, Version(cur.time))

(* What has been published, journaled or removed lies at its target, in the
   version that was seen. *)
RecordedIsSafe ==
    /\ \A w \in Worker : At(w, "record") =>
          Lies(TaskOf(w).source, Version(TaskOf(w).time))
    /\ \A i \in DOMAIN journal :
          /\ SafeAs(journal[i].source, Version(journal[i].time))
          /\ journal[i].time = Unknown => StartTime[journal[i].source] = PreEpoch
    /\ \A s \in File : Gone(s) => \E v \in {0, 1} :
          SafeAs(s, v) /\ (src[s].data = <<s, v>> \/ StartTime[s] = PreEpoch)

(* As long as the job goes on, every file is still to be visited, with the
   queue or a worker, or dealt with. *)
Dealt(s) ==
    Skipped(s) \/ (Safe(s) /\ (RemoveSources => Recorded(s) \/ Gone(s)))
NothingIsForgotten ==
    /\ ~Interrupted =>
          \A s \in File : s \in Ahead \/ s = cur.source \/ Carried(s) \/ Dealt(s)
    /\ pc \in {"cleanup", "prune"} \/ (\E s \in Source : Gone(s)) =>
          \A s \in File : Skipped(s) \/ Safe(s)

-----------------------------------------------------------------------------
(* The state of a transfer: its types, the order of walking, copying and
   removing, what was skipped, whose each target is, what lies there and what is
   about to be published; no source goes before every file is safe. *)
TransferInvariant ==
    /\ TypeOK /\ CopyIsTheSeenVersion
    /\ SourcesWaitForTheCopyPass /\ SkipKeepsSource
    /\ WalkIsApart /\ AheadIsUntouched /\ CurrentIsNew /\ SkippedIsLeft
    /\ OnceOnly /\ PhasesInOrder /\ PublishedIsCounted
    /\ HomesAreNamed /\ HomesAreApart /\ TasksGoHome
    /\ KeptIsSafe /\ RecordedIsSafe /\ NothingIsForgotten
=============================================================================
