----------------------------- MODULE FolderWalk -----------------------------
(***************************************************************************)
(* The recursive size of a folder, added up by several walkers that share  *)
(* the directories still to be read (measure_folder_with_workers,          *)
(* walk_worker, scan_subtree, flush_counts of folder_size.rs).             *)
(*                                                                         *)
(* Every walker adds to counts of its own and flushes them into the shared *)
(* ones under the lock; one action is one such critical section, or a step *)
(* that touches only the walker's own state.  Waking a waiting walker is   *)
(* its Take becoming enabled: all waits have a timeout.  The tree does not *)
(* change during the walk, and its entries come in any order.              *)
(***************************************************************************)
EXTENDS Naturals, Sequences, FiniteSets

CONSTANTS
    Dir, Root,          \* directories
    File, Size,         \* files, with their sizes
    Odd,                \* entries that are skipped: links, unreadable entries
    Contents,           \* Contents[d]: the entries of a directory
    Unreadable,         \* the sets of directories that may refuse to be read
    Walker,
    Backlog,            \* DIRECTORY_BACKLOG
    Batch,              \* COUNT_BATCH
    MaxSize             \* u64::MAX

Entry == Dir \cup File \cup Odd

ASSUME WalkAssumption ==
    /\ Root \in Dir
    /\ Dir \cap File = {} /\ (Dir \cup File) \cap Odd = {}
    /\ IsFiniteSet(Dir) /\ IsFiniteSet(File) /\ IsFiniteSet(Odd)
    /\ Contents \in [Dir -> SUBSET Entry]
    /\ \A c, d \in Dir : c # d => Contents[c] \cap Contents[d] = {}
    /\ \A d \in Dir : Root \notin Contents[d]
    /\ Unreadable \subseteq SUBSET Dir
    /\ MaxSize \in Nat /\ Size \in [File -> 0 .. MaxSize]
    /\ Backlog \in Nat \ {0} /\ Batch \in Nat \ {0}
    /\ IsFiniteSet(Walker)

VARIABLES
    pending,    \* WalkState.pending, a stack: the last is taken first
    active,     \* WalkState.active
    counts,     \* WalkState.counts
    error,      \* WalkState.error
    failed,     \* WalkShared.failed
    superseded, \* another request has become the current one
    watching,   \* the measuring thread is in its progress loop
    walker,     \* walker[w]: where it is and what it holds
    progress,   \* bytes of the last progress report
    result,     \* what measure_folder returned
    refused     \* the directories that cannot be read

shared == <<pending, active, counts, error, failed>>
vars == <<shared, superseded, watching, walker, progress, result, refused>>

NoCounts == [bytes |-> 0, files |-> 0, directories |-> 0, skipped |-> 0]
AtRest == [pc |-> "take", path |-> Root, readers |-> <<>>, entry |-> Root,
           counts |-> NoCounts, batch |-> 0, error |-> "none"]

Init ==
    /\ pending = <<Root>> /\ active = 0
    /\ counts = NoCounts
    /\ error = "none" /\ failed = FALSE
    /\ superseded = FALSE
    /\ watching = TRUE
    /\ walker = [w \in Walker |-> AtRest]
    /\ progress = 0
    /\ result = "none"
    /\ refused \in Unreadable

-----------------------------------------------------------------------------
At(w, pc) == walker[w].pc = pc
Goes(w, pc) == walker' = [walker EXCEPT ![w].pc = pc]
(* cancelled: the request is over or another walker has failed. *)
IsCancelled == superseded \/ failed

(* walk_worker: the next directory of the stack is taken. *)
TakeDirectory(w) ==
    /\ At(w, "take") /\ ~IsCancelled /\ pending # <<>>
    /\ pending' = SubSeq(pending, 1, Len(pending) - 1)
    /\ active' = active + 1
    /\ walker' = [walker EXCEPT ![w].path = pending[Len(pending)], ![w].pc = "open"]
    /\ UNCHANGED <<counts, error, failed, superseded, watching, progress,
                   result, refused>>

NothingToTake == pending = <<>>                                  \* mutant
NothingLeft == pending = <<>> /\ active = 0

(* The walker returns; an empty stack alone does not let it go. *)
Leave(w) ==
    /\ At(w, "take") /\ (IsCancelled \/ NothingLeft)
    /\ Goes(w, "gone")
    /\ UNCHANGED <<shared, superseded, watching, progress, result, refused>>

Begun == [NoCounts EXCEPT !.directories = 1]

(* scan_subtree: the directory it was given is opened; only an unreadable
   root is an error. *)
OpenDirectory(w) ==
    /\ At(w, "open")
    /\ walker' = [walker EXCEPT ![w] =
         IF walker[w].path \notin refused
         THEN [walker[w] EXCEPT !.counts = Begun, !.pc = "look",
                                !.readers = <<Contents[walker[w].path]>>]
         ELSE IF walker[w].path = Root
         THEN [walker[w] EXCEPT !.error = "unreadable", !.pc = "return"]
         ELSE [walker[w] EXCEPT !.counts = [Begun EXCEPT !.skipped = 1],
                                !.pc = "final"]]
    /\ UNCHANGED <<shared, superseded, watching, progress, result, refused>>

Readers(w) == walker[w].readers
Reader(w) == Head(Readers(w))
Rest(w, e) == <<Reader(w) \ {e}>> \o Tail(Readers(w))

(* The loop of scan_subtree looks at cancelled, then takes the next entry. *)
NextEntry(w, e) ==
    /\ At(w, "look") /\ ~IsCancelled /\ Readers(w) # <<>> /\ e \in Reader(w)
    /\ walker' = [walker EXCEPT ![w].readers = Rest(w, e), ![w].entry = e,
                                ![w].pc = "entry"]
    /\ UNCHANGED <<shared, superseded, watching, progress, result, refused>>

EndOfDirectory(w) ==
    /\ At(w, "look") /\ ~IsCancelled /\ Readers(w) # <<>> /\ Reader(w) = {}
    /\ walker' = [walker EXCEPT ![w].readers = Tail(@)]
    /\ UNCHANGED <<shared, superseded, watching, progress, result, refused>>

EndOfSubtree(w) ==
    /\ At(w, "look") /\ (IsCancelled \/ Readers(w) = <<>>)
    /\ Goes(w, "final")
    /\ UNCHANGED <<shared, superseded, watching, progress, result, refused>>

Counted(w) ==
    IF walker[w].batch + 1 = Batch THEN [walker[w] EXCEPT !.batch = Batch, !.pc = "flush"]
    ELSE [walker[w] EXCEPT !.batch = @ + 1, !.pc = "look"]

EntryIs(w, kind) == At(w, "entry") /\ walker[w].entry \in kind

HasRoom == Len(pending) < Backlog

(* A directory is given to whoever takes it first ... *)
ShareDirectory(w) ==
    /\ EntryIs(w, Dir) /\ HasRoom
    /\ pending' = Append(pending, walker[w].entry)
    /\ walker' = [walker EXCEPT ![w] = Counted(w)]
    /\ UNCHANGED <<active, counts, error, failed, superseded, watching,
                   progress, result, refused>>

ReadHereInstead(w) == <<Contents[walker[w].entry]>>              \* mutant
ReadHere(w) == <<Contents[walker[w].entry]>> \o Readers(w)

(* ... or, while the backlog is full, read by the walker itself. *)
DescendLocally(w) ==
    /\ EntryIs(w, Dir) /\ ~HasRoom
    /\ walker' = [walker EXCEPT ![w] =
         IF walker[w].entry \in refused
         THEN [Counted(w) EXCEPT !.counts.directories = @ + 1,
                                 !.counts.skipped = @ + 1]
         ELSE [Counted(w) EXCEPT !.counts.directories = @ + 1,
                                 !.readers = ReadHere(w)]]
    /\ UNCHANGED <<shared, superseded, watching, progress, result, refused>>

Bytes(w) == walker[w].counts.bytes
SizeOf(w) == Size[walker[w].entry]

CountFile(w) ==
    /\ EntryIs(w, File)
    /\ walker' = [walker EXCEPT ![w] =
         IF Bytes(w) + SizeOf(w) <= MaxSize
         THEN [Counted(w) EXCEPT !.counts.files = @ + 1,
                                 !.counts.bytes = @ + SizeOf(w)]
         ELSE [walker[w] EXCEPT !.error = "overflow", !.pc = "return"]]
    /\ UNCHANGED <<shared, superseded, watching, progress, result, refused>>

CountSkipped(w) ==
    /\ EntryIs(w, Odd)
    /\ walker' = [walker EXCEPT ![w] =
                    [Counted(w) EXCEPT !.counts.skipped = @ + 1]]
    /\ UNCHANGED <<shared, superseded, watching, progress, result, refused>>

AfterFlush(w) ==
    [walker[w] EXCEPT !.counts = NoCounts, !.batch = 0,
                      !.pc = IF walker[w].pc = "flush" THEN "look" ELSE "return"]

Plus(x, y) == [field \in DOMAIN x |-> x[field] + y[field]]

(* flush_counts, after a batch and at the end of the subtree. *)
FlushCounts(w) ==
    /\ At(w, "flush") \/ At(w, "final")
    /\ IF counts.bytes + Bytes(w) <= MaxSize
       THEN /\ counts' = Plus(counts, walker[w].counts)
            /\ walker' = [walker EXCEPT ![w] = AfterFlush(w)]
       ELSE /\ walker' = [walker EXCEPT ![w].error = "overflow",
                                        ![w].pc = "return"]
            /\ UNCHANGED counts
    /\ UNCHANGED <<pending, active, error, failed, superseded, watching,
                   progress, result, refused>>

Failure(w) == walker[w].error
ReleasedOnSuccess(w) ==                                          \* mutant
    IF Failure(w) = "none" THEN active - 1 ELSE active
Released(w) == active - 1

(* walk_worker goes on after the subtree: the first error is kept, and ends
   the walk of all. *)
FinishSubtree(w) ==
    /\ At(w, "return")
    /\ active' = Released(w)
    /\ IF Failure(w) = "none" THEN UNCHANGED <<error, pending, failed>>
       ELSE /\ error' = IF error = "none" THEN Failure(w) ELSE error
            /\ pending' = <<>>
            /\ failed' = TRUE
    /\ walker' = [walker EXCEPT ![w] = AtRest]
    /\ UNCHANGED <<counts, superseded, watching, progress, result, refused>>

-----------------------------------------------------------------------------
(* The measuring thread, in the scope that owns the walkers. *)

Report ==
    /\ watching /\ ~NothingLeft /\ ~superseded
    /\ progress' = counts.bytes
    /\ UNCHANGED <<shared, superseded, watching, walker, result, refused>>

StopWatching ==
    /\ watching /\ (NothingLeft \/ superseded)
    /\ watching' = FALSE
    /\ UNCHANGED <<shared, superseded, walker, progress, result, refused>>

AllGone == \A w \in Walker : At(w, "gone")

Return ==
    /\ ~watching /\ AllGone /\ result = "none"
    /\ result' = IF superseded THEN "superseded"
                 ELSE IF error # "none" THEN error ELSE "measured"
    /\ UNCHANGED <<shared, superseded, watching, walker, progress, refused>>

(* request or cancel of the scanner's owner. *)
Supersede ==
    /\ ~superseded /\ result = "none"
    /\ superseded' = TRUE
    /\ UNCHANGED <<shared, watching, walker, progress, result, refused>>

Finished == result # "none" /\ UNCHANGED vars

Walk(w) ==
    \/ TakeDirectory(w) \/ Leave(w) \/ OpenDirectory(w)
    \/ \E e \in Entry : NextEntry(w, e)
    \/ EndOfDirectory(w) \/ EndOfSubtree(w)
    \/ ShareDirectory(w) \/ DescendLocally(w) \/ CountFile(w) \/ CountSkipped(w)
    \/ FlushCounts(w) \/ FinishSubtree(w)

Next ==
    \/ \E w \in Walker : Walk(w)
    \/ Report \/ StopWatching \/ Return \/ Supersede \/ Finished

Spec == Init /\ [][Next]_vars

(* Threads are scheduled: a walker or the measuring thread that can go on
   does.  Nothing obliges the owner to supersede a request. *)
FairSpec ==
    /\ Spec
    /\ \A w \in Walker : WF_vars(Walk(w))
    /\ WF_vars(StopWatching) /\ WF_vars(Return)

-----------------------------------------------------------------------------
(* What a sequential walk would find. *)

Closed(S) == Root \in S /\ \A d \in S \ refused : Contents[d] \cap Dir \subseteq S
Reached == {d \in Dir : \A S \in SUBSET Dir : Closed(S) => d \in S}
Listed == UNION {Contents[d] : d \in Reached \ refused}
Found == Reached \cup Listed

(* The counts of a set of entries: its bytes are counted one by one. *)
BytesIn(S) == {b \in (S \cap File) \X (1 .. MaxSize) : b[2] <= Size[b[1]]}
Measure(S) ==
    [bytes |-> Cardinality(BytesIn(S)),
     files |-> Cardinality(S \cap File),
     directories |-> Cardinality(S \cap Dir),
     skipped |-> Cardinality(S \cap Odd) + Cardinality(S \cap refused)]
Total == Measure(Found)

-----------------------------------------------------------------------------
(* Properties. *)

Counts == [bytes : 0 .. MaxSize, files : Nat, directories : Nat, skipped : Nat]
Errors == {"none", "unreadable", "overflow"}
Slot ==
    [pc : {"take", "open", "look", "entry", "flush", "final", "return", "gone"},
     path : Dir, readers : Seq(SUBSET Entry), entry : Entry, counts : Counts,
     batch : 0 .. Batch, error : Errors]

(* Every variable keeps its type: the shared stack keeps its bound, and no sum
   exceeds what its integer holds. *)
TypeOK ==
    /\ pending \in Seq(Dir) /\ Len(pending) <= Backlog
    /\ active \in 0 .. Cardinality(Walker)
    /\ counts \in Counts
    /\ error \in Errors
    /\ failed \in BOOLEAN /\ superseded \in BOOLEAN /\ watching \in BOOLEAN
    /\ walker \in [Walker -> Slot]
    /\ progress \in 0 .. MaxSize
    /\ result \in Errors \cup {"measured", "superseded"}

(* A measured size is the size of the tree: each directory that could be read
   was read once and each entry counted once, whoever read it and however the
   flushes, the full backlog and the other walkers interleaved. *)
MeasuredIsExact == result = "measured" => counts = Total

(* Overflow is reported when the tree is too large, and only then. *)
OverflowIsReal ==
    /\ result = "overflow" => Total.bytes > MaxSize
    /\ result = "measured" => Total.bytes <= MaxSize

(* Whatever is reported of a tree is true of it. *)
ResultIsTrue == MeasuredIsExact /\ OverflowIsReal

(* A walker that gives up, or the measuring thread that stops watching, while
   the request is current and nothing has failed leaves no work behind: no
   directory is pending, and no walker is still inside one. *)
Working(w) == walker[w].pc \notin {"take", "gone"}
NobodyLeavesWorkBehind ==
    ~superseded /\ ~failed /\ (~watching \/ \E w \in Walker : At(w, "gone")) =>
        pending = <<>> /\ \A w \in Walker : ~Working(w)

(* Sums beyond the range of the counter are reported, and not only found. *)
OverflowIsReported == error = "overflow" ~> result # "none"

(* The walk of a tree that fits the counter ends, whether or not a newer
   request takes over. *)
WalkEnds == Total.bytes <= MaxSize ~> result # "none"
=============================================================================
