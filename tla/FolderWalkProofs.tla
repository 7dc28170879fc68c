-------------------------- MODULE FolderWalkProofs --------------------------
(***************************************************************************)
(* Proofs about the folder walk, for every tree, every number of walkers   *)
(* and every backlog and batch: types, that nobody who stops while the     *)
(* request is current leaves work behind, and that what is returned of a   *)
(* tree is true of it.                                                     *)
(***************************************************************************)
EXTENDS FolderWalk, FiniteSetTheorems, TLAPS

(* The walkers inside a directory: what WalkState.active counts. *)
WorkingSet == {w \in Walker : Working(w)}
ActiveCountsWorkers == active = Cardinality(WorkingSet)

(* A batch is flushed as soon as it is full. *)
BatchBelow ==
    \A w \in Walker :
        walker[w].pc \in {"take", "open", "look", "entry"} => walker[w].batch < Batch

IInv == TypeOK /\ BatchBelow /\ ActiveCountsWorkers /\ NobodyLeavesWorkBehind

-----------------------------------------------------------------------------
(* Lemmas. *)

\* The walkers inside a directory are finitely many.
LEMMA WorkingFinite ==
    /\ IsFiniteSet(WorkingSet) /\ IsFiniteSet(WorkingSet')
    /\ Cardinality(WorkingSet) \in 0 .. Cardinality(Walker)
    /\ Cardinality(WorkingSet') \in 0 .. Cardinality(Walker)
    /\ Cardinality(Walker) \in Nat
<1>1. IsFiniteSet(Walker) /\ Cardinality(Walker) \in Nat
  BY WalkAssumption, FS_CardinalityType
<1>2. WorkingSet \in SUBSET Walker /\ WorkingSet' \in SUBSET Walker
  BY DEF WorkingSet
<1>3. QED
  BY <1>1, <1>2, FS_Subset, FS_CardinalityType

\* One walker changes: the new state of every walker, and the types.
LEMMA OneMoves ==
    ASSUME NEW w \in Walker, NEW r \in Slot, walker \in [Walker -> Slot],
           walker' = [walker EXCEPT ![w] = r]
    PROVE  /\ walker' \in [Walker -> Slot]
           /\ \A v \in Walker : walker'[v] = IF v = w THEN r ELSE walker[v]
  OBVIOUS

\* A walker that stays in its directory, or outside, keeps the set.
LEMMA WorkingStays ==
    ASSUME NEW w \in Walker,
           \A v \in Walker \ {w} : walker'[v] = walker[v],
           Working(w)' <=> Working(w)
    PROVE  WorkingSet' = WorkingSet
<1>1. \A v \in Walker : Working(v)' <=> Working(v)
  BY DEF Working
<1>2. QED
  BY <1>1 DEF WorkingSet

\* A walker that takes a directory is one more.
LEMMA WorkingAdds ==
    ASSUME NEW w \in Walker,
           \A v \in Walker \ {w} : walker'[v] = walker[v],
           ~Working(w), Working(w)'
    PROVE  Cardinality(WorkingSet') = Cardinality(WorkingSet) + 1
<1>1. WorkingSet' = WorkingSet \cup {w} /\ w \notin WorkingSet
  BY DEF WorkingSet, Working
<1>2. QED
  BY <1>1, WorkingFinite, FS_AddElement

\* A walker that has finished its directory is one less.
LEMMA WorkingDrops ==
    ASSUME NEW w \in Walker,
           \A v \in Walker \ {w} : walker'[v] = walker[v],
           Working(w), ~Working(w)'
    PROVE  /\ Cardinality(WorkingSet') = Cardinality(WorkingSet) - 1
           /\ WorkingSet' \subseteq WorkingSet
<1>1. WorkingSet' = WorkingSet \ {w} /\ w \in WorkingSet
  BY DEF WorkingSet, Working
<1>2. QED
  BY <1>1, WorkingFinite, FS_RemoveElement

\* When the count is zero nobody is inside a directory.
LEMMA ZeroMeansNobody ==
    ASSUME ActiveCountsWorkers, active = 0
    PROVE  \A w \in Walker : ~Working(w)
<1>1. WorkingSet = {}
  BY WorkingFinite, FS_EmptySet DEF ActiveCountsWorkers
<1>2. QED
  BY <1>1 DEF WorkingSet

\* A walker inside a directory: unless the walk is over, everyone is there.
LEMMA WorkerHoldsTheWalk ==
    ASSUME NobodyLeavesWorkBehind, NEW w \in Walker, Working(w)
    PROVE  superseded \/ failed \/ (watching /\ \A v \in Walker : ~At(v, "gone"))
BY DEF NobodyLeavesWorkBehind

\* Counting one entry keeps the slot's type; a full batch is flushed next.
LEMMA CountedType ==
    ASSUME TypeOK, BatchBelow, NEW w \in Walker, At(w, "entry")
    PROVE  /\ Counted(w) \in Slot
           /\ Counted(w).pc \in {"look", "flush"}
           /\ Counted(w).pc = "look" => Counted(w).batch < Batch
           /\ Counted(w).counts = walker[w].counts
           /\ Counted(w).readers = walker[w].readers
           /\ Counted(w).path = walker[w].path
           /\ Counted(w).entry = walker[w].entry
           /\ Counted(w).error = walker[w].error
<1>1. walker[w] \in Slot /\ walker[w].batch < Batch /\ Batch \in Nat \ {0}
      /\ walker[w].batch \in 0 .. Batch
  BY WalkAssumption DEF TypeOK, BatchBelow, At, Slot
<1>2. CASE walker[w].batch + 1 = Batch
  <2>1. Counted(w) = [walker[w] EXCEPT !.batch = Batch, !.pc = "flush"]
    BY <1>2 DEF Counted
  <2>2. Batch \in 0 .. Batch
    BY <1>1
  <2>3. QED
    BY <1>1, <2>1, <2>2 DEF Slot
<1>3. CASE walker[w].batch + 1 # Batch
  <2>1. Counted(w) = [walker[w] EXCEPT !.batch = @ + 1, !.pc = "look"]
    BY <1>3 DEF Counted
  <2>2. walker[w].batch + 1 \in 0 .. Batch /\ walker[w].batch + 1 < Batch
    BY <1>1, <1>3
  <2>3. QED
    BY <1>1, <2>1, <2>2 DEF Slot
<1>4. QED
  BY <1>2, <1>3

\* A step of one walker that changes nothing but its slot, inside a directory.
LEMMA OwnStep ==
    ASSUME IInv, NEW w \in Walker, NEW r \in Slot, Working(w),
           r.pc \in {"open", "look", "entry"} => r.batch < Batch,
           r.pc \notin {"take", "gone"},
           walker' = [walker EXCEPT ![w] = r],
           UNCHANGED <<shared, superseded, watching, progress, result>>
    PROVE  IInv'
<1>1. /\ walker' \in [Walker -> Slot]
      /\ \A v \in Walker : walker'[v] = IF v = w THEN r ELSE walker[v]
  BY OneMoves DEF IInv, TypeOK
<1>2. TypeOK'
  BY <1>1 DEF IInv, TypeOK, shared
<1>3. BatchBelow'
  BY <1>1 DEF IInv, BatchBelow
<1>4. Working(w)'
  BY <1>1 DEF Working
<1>5. WorkingSet' = WorkingSet
  BY <1>1, <1>4, WorkingStays
<1>6. ActiveCountsWorkers'
  BY <1>5 DEF IInv, ActiveCountsWorkers, shared
<1>7. NobodyLeavesWorkBehind'
  <2>1. superseded \/ failed \/ (watching /\ \A v \in Walker : ~At(v, "gone"))
    BY WorkerHoldsTheWalk DEF IInv
  <2>2. \A v \in Walker : At(v, "gone")' => At(v, "gone")
    BY <1>1 DEF At
  <2>3. QED
    BY <2>1, <2>2 DEF NobodyLeavesWorkBehind, shared
<1>8. QED
  BY <1>2, <1>3, <1>6, <1>7 DEF IInv

-----------------------------------------------------------------------------
(* One step. *)

\* The walk starts with one directory, all walkers outside.
LEMMA InitOK == Init => IInv
<1> SUFFICES ASSUME Init PROVE IInv
  OBVIOUS
<1>1. AtRest \in Slot
  BY WalkAssumption DEF AtRest, Slot, Entry, NoCounts, Counts, Errors
<1>2. TypeOK
  <2>1. pending \in Seq(Dir) /\ Len(pending) <= Backlog
    BY WalkAssumption DEF Init
  <2>2. active \in 0 .. Cardinality(Walker) /\ progress \in 0 .. MaxSize
    BY WalkAssumption, WorkingFinite DEF Init
  <2>3. counts \in Counts
    BY WalkAssumption DEF Init, NoCounts, Counts
  <2>4. walker \in [Walker -> Slot]
    BY <1>1 DEF Init
  <2>5. QED
    BY <2>1, <2>2, <2>3, <2>4 DEF Init, TypeOK, Errors
<1>3. BatchBelow
  BY WalkAssumption DEF Init, BatchBelow, AtRest
<1>4. \A w \in Walker : ~Working(w) /\ ~At(w, "gone")
  BY DEF Init, Working, At, AtRest
<1>5. ActiveCountsWorkers
  <2>1. WorkingSet = {}
    BY <1>4 DEF WorkingSet
  <2>2. QED
    BY <2>1, FS_EmptySet DEF Init, ActiveCountsWorkers
<1>6. NobodyLeavesWorkBehind
  BY <1>4 DEF Init, NobodyLeavesWorkBehind
<1>7. QED
  BY <1>2, <1>3, <1>5, <1>6 DEF IInv

\* Taking a directory moves it from the stack to the walker in one step.
LEMMA TakeOK ==
    ASSUME IInv, NEW w \in Walker, TakeDirectory(w)
    PROVE  IInv'
<1> DEFINE r == [walker[w] EXCEPT !.path = pending[Len(pending)], !.pc = "open"]
<1>1. /\ Len(pending) \in 1 .. Len(pending) /\ pending[Len(pending)] \in Dir
      /\ walker[w] \in Slot
  BY DEF IInv, TypeOK, TakeDirectory
<1>2. r \in Slot /\ r.pc = "open" /\ r.batch = walker[w].batch
  BY <1>1 DEF Slot
<1>3. walker' = [walker EXCEPT ![w] = r]
  BY DEF TakeDirectory, IInv, TypeOK
<1> HIDE DEF r
<1>4. /\ walker' \in [Walker -> Slot]
      /\ \A v \in Walker : walker'[v] = IF v = w THEN r ELSE walker[v]
  BY <1>2, <1>3, OneMoves DEF IInv, TypeOK
<1>5. ~Working(w) /\ Working(w)'
  BY <1>2, <1>4 DEF TakeDirectory, At, Working
<1>6. Cardinality(WorkingSet') = Cardinality(WorkingSet) + 1
  BY <1>4, <1>5, WorkingAdds
<1>7. ActiveCountsWorkers'
  BY <1>6 DEF IInv, ActiveCountsWorkers, TakeDirectory
<1>8. TypeOK'
  <2>1. active' \in 0 .. Cardinality(Walker)
    BY <1>7, WorkingFinite DEF ActiveCountsWorkers
  <2>2. pending' \in Seq(Dir) /\ Len(pending') <= Backlog
    BY <1>1, WalkAssumption DEF IInv, TypeOK, TakeDirectory
  <2>3. QED
    BY <1>4, <2>1, <2>2 DEF IInv, TypeOK, TakeDirectory
<1>9. BatchBelow'
  BY <1>2, <1>4 DEF IInv, BatchBelow, TakeDirectory, At
<1>10. NobodyLeavesWorkBehind'
  <2>1. ~superseded /\ ~failed /\ watching /\ \A v \in Walker : ~At(v, "gone")
    BY DEF IInv, NobodyLeavesWorkBehind, TakeDirectory, IsCancelled
  <2>2. \A v \in Walker : ~At(v, "gone")'
    BY <1>2, <1>4, <2>1 DEF At
  <2>3. watching'
    BY <2>1 DEF TakeDirectory
  <2>4. QED
    BY <2>2, <2>3 DEF NobodyLeavesWorkBehind
<1>11. QED
  BY <1>7, <1>8, <1>9, <1>10 DEF IInv

\* A walker leaves because the walk is over, or because nothing is left.
LEMMA LeaveOK ==
    ASSUME IInv, NEW w \in Walker, Leave(w)
    PROVE  IInv'
<1> DEFINE r == [walker[w] EXCEPT !.pc = "gone"]
<1>1. walker[w] \in Slot
  BY DEF IInv, TypeOK
<1>2. r \in Slot /\ r.pc = "gone"
  BY <1>1 DEF Slot
<1>3. walker' = [walker EXCEPT ![w] = r]
  BY DEF Leave, Goes
<1> HIDE DEF r
<1>4. /\ walker' \in [Walker -> Slot]
      /\ \A v \in Walker : walker'[v] = IF v = w THEN r ELSE walker[v]
  BY <1>2, <1>3, OneMoves DEF IInv, TypeOK
<1>5. ~Working(w) /\ ~Working(w)'
  BY <1>2, <1>4 DEF Leave, At, Working
<1>6. WorkingSet' = WorkingSet
  BY <1>4, <1>5, WorkingStays
<1>7. ActiveCountsWorkers'
  BY <1>6 DEF IInv, ActiveCountsWorkers, Leave, shared
<1>8. TypeOK'
  BY <1>4 DEF IInv, TypeOK, Leave, shared
<1>9. BatchBelow'
  BY <1>2, <1>4 DEF IInv, BatchBelow
<1>10. NobodyLeavesWorkBehind'
  <2>1. CASE IsCancelled
    BY <2>1 DEF IsCancelled, NobodyLeavesWorkBehind, Leave, shared
  <2>2. CASE NothingLeft
    <3>1. \A v \in Walker : ~Working(v)
      BY <2>2, ZeroMeansNobody DEF NothingLeft, IInv
    <3>2. \A v \in Walker : ~Working(v)'
      BY <1>4, <1>5, <3>1 DEF Working
    <3>3. pending' = <<>>
      BY <2>2 DEF NothingLeft, Leave, shared
    <3>4. QED
      BY <3>2, <3>3 DEF NobodyLeavesWorkBehind
  <2>3. QED
    BY <2>1, <2>2 DEF Leave
<1>11. QED
  BY <1>7, <1>8, <1>9, <1>10 DEF IInv

\* The steps of a walker inside its directory that share nothing.
LEMMA OwnStepsOK ==
    ASSUME IInv, NEW w \in Walker,
           \/ OpenDirectory(w) \/ EndOfDirectory(w) \/ EndOfSubtree(w)
           \/ (\E e \in Entry : NextEntry(w, e))
           \/ DescendLocally(w) \/ CountFile(w) \/ CountSkipped(w)
    PROVE  IInv'
<1> DEFINE me == walker[w]
<1>0. /\ me \in Slot /\ TypeOK /\ BatchBelow /\ Contents[me.path] \in SUBSET Entry
      /\ 0 \in Nat /\ 1 \in Nat
      /\ me.pc \in {"take", "open", "look", "entry"} => me.batch < Batch
  BY WalkAssumption DEF IInv, TypeOK, BatchBelow, Slot
<1>1. CASE OpenDirectory(w)
  <2> DEFINE r1 == [me EXCEPT !.counts = Begun, !.pc = "look",
                              !.readers = <<Contents[me.path]>>]
             r2 == [me EXCEPT !.error = "unreadable", !.pc = "return"]
             r3 == [me EXCEPT !.counts = [Begun EXCEPT !.skipped = 1], !.pc = "final"]
  <2>1. Begun \in Counts /\ [Begun EXCEPT !.skipped = 1] \in Counts
    <3>1. NoCounts \in Counts
      BY WalkAssumption DEF NoCounts, Counts
    <3>2. Begun \in Counts
      BY <3>1 DEF Begun, Counts
    <3>3. QED
      BY <3>2 DEF Counts
  <2>2. <<Contents[me.path]>> \in Seq(SUBSET Entry)
    BY <1>0
  <2>3. r1 \in Slot /\ r1.pc = "look" /\ r1.batch = me.batch
    BY <1>0, <2>1, <2>2 DEF Slot
  <2>4. r2 \in Slot /\ r2.pc = "return"
    BY <1>0 DEF Slot, Errors
  <2>5. r3 \in Slot /\ r3.pc = "final"
    BY <1>0, <2>1 DEF Slot
  <2>6. walker' = [walker EXCEPT ![w] =
          IF me.path \notin refused THEN r1 ELSE IF me.path = Root THEN r2 ELSE r3]
    BY <1>1 DEF OpenDirectory
  <2> HIDE DEF r1, r2, r3
  <2>7. Working(w) /\ me.batch < Batch
    BY <1>0, <1>1 DEF OpenDirectory, Working, At
  <2>8. CASE me.path \notin refused
    BY <2>3, <2>6, <2>7, <2>8, <1>1, OwnStep DEF OpenDirectory
  <2>9. CASE me.path \in refused /\ me.path = Root
    BY <2>4, <2>6, <2>7, <2>9, <1>1, OwnStep DEF OpenDirectory
  <2>10. CASE me.path \in refused /\ me.path # Root
    BY <2>5, <2>6, <2>7, <2>10, <1>1, OwnStep DEF OpenDirectory
  <2>11. QED
    BY <2>8, <2>9, <2>10
<1>2. CASE EndOfDirectory(w)
  <2> DEFINE r == [me EXCEPT !.readers = Tail(@)]
  <2>1. r \in Slot /\ r.pc = "look" /\ r.batch = me.batch
    <3>1. Tail(me.readers) \in Seq(SUBSET Entry)
      BY <1>0, <1>2 DEF EndOfDirectory, Readers, Slot
    <3>2. me.pc = "look"
      BY <1>2 DEF EndOfDirectory, At
    <3>3. QED
      BY <1>0, <3>1, <3>2 DEF Slot
  <2>2. walker' = [walker EXCEPT ![w] = r]
    BY <1>2 DEF EndOfDirectory
  <2> HIDE DEF r
  <2>3. Working(w) /\ me.batch < Batch
    BY <1>0, <1>2 DEF EndOfDirectory, Working, At
  <2>4. QED
    BY <2>1, <2>2, <2>3, <1>2, OwnStep DEF EndOfDirectory
<1>3. CASE EndOfSubtree(w)
  <2> DEFINE r == [me EXCEPT !.pc = "final"]
  <2>1. r \in Slot /\ r.pc = "final"
    BY <1>0 DEF Slot
  <2>2. walker' = [walker EXCEPT ![w] = r]
    BY <1>3 DEF EndOfSubtree, Goes
  <2> HIDE DEF r
  <2>3. Working(w)
    BY <1>3 DEF EndOfSubtree, Working, At
  <2>4. QED
    BY <2>1, <2>2, <2>3, <1>3, OwnStep DEF EndOfSubtree
<1>4. ASSUME NEW e \in Entry, NextEntry(w, e) PROVE IInv'
  <2> DEFINE r == [me EXCEPT !.readers = Rest(w, e), !.entry = e, !.pc = "entry"]
  <2>1. Rest(w, e) \in Seq(SUBSET Entry)
    <3>1. me.readers \in Seq(SUBSET Entry) /\ me.readers # <<>>
      BY <1>0, <1>4 DEF NextEntry, Readers, Slot
    <3>2. Head(me.readers) \in SUBSET Entry /\ Tail(me.readers) \in Seq(SUBSET Entry)
      BY <3>1
    <3>3. <<Head(me.readers) \ {e}>> \in Seq(SUBSET Entry)
      BY <3>2
    <3>4. QED
      BY <3>2, <3>3 DEF Rest, Reader, Readers
  <2>2. r \in Slot /\ r.pc = "entry" /\ r.batch = me.batch
    BY <1>0, <2>1 DEF Slot
  <2>3. walker' = [walker EXCEPT ![w] = r]
    BY <1>4 DEF NextEntry
  <2> HIDE DEF r
  <2>4. Working(w) /\ me.batch < Batch
    BY <1>0, <1>4 DEF NextEntry, Working, At
  <2>5. QED
    BY <2>2, <2>3, <2>4, <1>4, OwnStep DEF NextEntry
<1>5. ASSUME At(w, "entry")
      PROVE  /\ Working(w) /\ Counted(w) \in Slot
             /\ Counted(w).pc \in {"look", "flush"}
             /\ Counted(w).pc = "look" => Counted(w).batch < Batch
             /\ Counted(w).counts = me.counts /\ Counted(w).readers = me.readers
  BY <1>0, <1>5, CountedType DEF At, Working
<1>6. CASE DescendLocally(w)
  <2> DEFINE k == Counted(w)
             c == [k.counts EXCEPT !.directories = @ + 1]
             cs == [k.counts EXCEPT !.directories = @ + 1, !.skipped = @ + 1]
             r1 == [k EXCEPT !.counts = cs]
             r2 == [k EXCEPT !.counts = c, !.readers = ReadHere(w)]
  <2>1. At(w, "entry") /\ me.entry \in Dir
    BY <1>6 DEF DescendLocally, EntryIs
  <2>2. ReadHere(w) \in Seq(SUBSET Entry)
    <3>1. <<Contents[me.entry]>> \in Seq(SUBSET Entry) /\ me.readers \in Seq(SUBSET Entry)
      BY <1>0, <2>1, WalkAssumption DEF Slot
    <3>2. QED
      BY <3>1 DEF ReadHere, Readers
  <2>3. c \in Counts /\ cs \in Counts
    <3>1. k.counts \in Counts
      BY <1>5, <2>1 DEF Slot
    <3> HIDE DEF k
    <3>2. c \in Counts
      BY <3>1 DEF Counts
    <3>3. cs = [c EXCEPT !.skipped = @ + 1]
      BY <3>1 DEF Counts
    <3> HIDE DEF c, cs
    <3>4. c.skipped + 1 \in Nat
      BY <3>2 DEF Counts
    <3>5. [c EXCEPT !.skipped = c.skipped + 1] \in Counts
      BY <3>2, <3>4 DEF Counts
    <3>6. QED
      BY <3>2, <3>3, <3>5
  <2>4. /\ r1 \in Slot /\ r1.pc = k.pc /\ r1.batch = k.batch
        /\ r2 \in Slot /\ r2.pc = k.pc /\ r2.batch = k.batch
    BY <1>5, <2>1, <2>2, <2>3 DEF Slot
  <2>5. walker' = [walker EXCEPT ![w] = IF me.entry \in refused THEN r1 ELSE r2]
    <3>1. k \in Slot
      BY <1>5, <2>1
    <3>2. r1 = [k EXCEPT !.counts.directories = @ + 1, !.counts.skipped = @ + 1]
      BY <3>1 DEF Slot, Counts
    <3>3. r2 = [k EXCEPT !.counts.directories = @ + 1, !.readers = ReadHere(w)]
      BY <3>1 DEF Slot, Counts
    <3> HIDE DEF r1, r2, k
    <3>4. QED
      BY <1>6, <3>2, <3>3 DEF DescendLocally, k
  <2>6. k.pc \in {"look", "flush"} /\ (k.pc = "look" => k.batch < Batch) /\ Working(w)
    BY <1>5, <2>1
  <2> HIDE DEF r1, r2, k
  <2>7. CASE me.entry \in refused
    BY <2>4, <2>5, <2>6, <2>7, <1>6, OwnStep DEF DescendLocally
  <2>8. CASE me.entry \notin refused
    BY <2>4, <2>5, <2>6, <2>8, <1>6, OwnStep DEF DescendLocally
  <2>9. QED
    BY <2>7, <2>8
<1>7. CASE CountFile(w)
  <2> DEFINE k == Counted(w)
             c == [k.counts EXCEPT !.files = @ + 1, !.bytes = @ + SizeOf(w)]
             r1 == [k EXCEPT !.counts = c]
             r2 == [me EXCEPT !.error = "overflow", !.pc = "return"]
  <2>1. At(w, "entry") /\ SizeOf(w) \in Nat
    BY <1>7, WalkAssumption DEF CountFile, EntryIs, SizeOf
  <2>2. r2 \in Slot /\ r2.pc = "return"
    BY <1>0 DEF Slot, Errors
  <2>3. ASSUME Bytes(w) + SizeOf(w) <= MaxSize
        PROVE  /\ r1 \in Slot /\ r1.pc = k.pc /\ r1.batch = k.batch
    <3>1. c \in Counts
      <4>1. k.counts \in Counts /\ k.counts.bytes = Bytes(w)
        BY <1>0, <1>5, <2>1 DEF Slot, Bytes
      <4>2. Bytes(w) + SizeOf(w) \in 0 .. MaxSize
        BY <2>1, <2>3, <4>1, WalkAssumption DEF Counts
      <4> HIDE DEF k
      <4>3. [k.counts EXCEPT !.files = @ + 1] \in Counts
        BY <4>1 DEF Counts
      <4>4. c = [[k.counts EXCEPT !.files = @ + 1] EXCEPT !.bytes = Bytes(w) + SizeOf(w)]
        BY <4>1
      <4>5. QED
        BY <4>2, <4>3, <4>4 DEF Counts
    <3>2. QED
      BY <1>5, <2>1, <3>1 DEF Slot
  <2>4. walker' = [walker EXCEPT ![w] =
                     IF Bytes(w) + SizeOf(w) <= MaxSize THEN r1 ELSE r2]
    <3>1. r1 = [k EXCEPT !.counts.files = @ + 1, !.counts.bytes = @ + SizeOf(w)]
      BY <1>5, <2>1 DEF Slot, Counts
    <3> HIDE DEF r1, k
    <3>2. QED
      BY <1>7, <3>1 DEF CountFile, k
  <2>5. k.pc \in {"look", "flush"} /\ (k.pc = "look" => k.batch < Batch) /\ Working(w)
    BY <1>5, <2>1
  <2> HIDE DEF r1, r2, k
  <2>6. CASE Bytes(w) + SizeOf(w) <= MaxSize
    BY <2>3, <2>4, <2>5, <2>6, <1>7, OwnStep DEF CountFile
  <2>7. CASE ~(Bytes(w) + SizeOf(w) <= MaxSize)
    BY <2>2, <2>4, <2>5, <2>7, <1>7, OwnStep DEF CountFile
  <2>8. QED
    BY <2>6, <2>7
<1>8. CASE CountSkipped(w)
  <2> DEFINE k == Counted(w)
             r == [k EXCEPT !.counts.skipped = @ + 1]
  <2>1. At(w, "entry")
    BY <1>8 DEF CountSkipped, EntryIs
  <2>2. r \in Slot /\ r.pc = k.pc /\ r.batch = k.batch
    BY <1>5, <2>1 DEF Slot, Counts
  <2>3. walker' = [walker EXCEPT ![w] = r]
    BY <1>8 DEF CountSkipped
  <2>4. k.pc \in {"look", "flush"} /\ (k.pc = "look" => k.batch < Batch) /\ Working(w)
    BY <1>5, <2>1
  <2> HIDE DEF r, k
  <2>5. QED
    BY <2>2, <2>3, <2>4, <1>8, OwnStep DEF CountSkipped
<1>9. QED
  BY <1>1, <1>2, <1>3, <1>4, <1>6, <1>7, <1>8

\* Sharing a directory: the walker that does it is still inside another.
LEMMA ShareOK ==
    ASSUME IInv, NEW w \in Walker, ShareDirectory(w)
    PROVE  IInv'
<1>1. At(w, "entry") /\ walker[w].entry \in Dir /\ Working(w)
  BY DEF ShareDirectory, EntryIs, At, Working
<1>2. /\ Counted(w) \in Slot /\ Counted(w).pc \in {"look", "flush"}
      /\ Counted(w).pc = "look" => Counted(w).batch < Batch
  BY <1>1, CountedType DEF IInv
<1>3. /\ walker' \in [Walker -> Slot]
      /\ \A v \in Walker : walker'[v] = IF v = w THEN Counted(w) ELSE walker[v]
  BY <1>2, OneMoves DEF IInv, TypeOK, ShareDirectory
<1>4. pending' \in Seq(Dir) /\ Len(pending') <= Backlog
  BY <1>1, WalkAssumption DEF IInv, TypeOK, ShareDirectory, HasRoom
<1>5. TypeOK'
  BY <1>3, <1>4 DEF IInv, TypeOK, ShareDirectory
<1>6. BatchBelow'
  BY <1>2, <1>3 DEF IInv, BatchBelow
<1>7. WorkingSet' = WorkingSet
  <2>1. Working(w)'
    BY <1>2, <1>3 DEF Working
  <2>2. QED
    BY <1>1, <1>3, <2>1, WorkingStays
<1>8. ActiveCountsWorkers'
  BY <1>7 DEF IInv, ActiveCountsWorkers, ShareDirectory
<1>9. NobodyLeavesWorkBehind'
  <2>1. superseded \/ failed \/ (watching /\ \A v \in Walker : ~At(v, "gone"))
    BY <1>1, WorkerHoldsTheWalk DEF IInv
  <2>2. \A v \in Walker : At(v, "gone")' => At(v, "gone")
    BY <1>2, <1>3 DEF At
  <2>3. QED
    BY <2>1, <2>2 DEF NobodyLeavesWorkBehind, ShareDirectory
<1>10. QED
  BY <1>5, <1>6, <1>8, <1>9 DEF IInv

\* A flush adds to the shared counts only what they can hold.
LEMMA FlushOK ==
    ASSUME IInv, NEW w \in Walker, FlushCounts(w)
    PROVE  IInv'
<1>0. walker[w] \in Slot /\ counts \in Counts /\ Working(w) /\ walker[w].counts \in Counts
  BY DEF IInv, TypeOK, FlushCounts, Working, At, Slot
<1>1. \E r \in Slot :
        /\ walker' = [walker EXCEPT ![w] = r]
        /\ r.pc \in {"look", "return"} /\ (r.pc = "look" => r.batch < Batch)
  <2>1. CASE counts.bytes + Bytes(w) <= MaxSize
    <3>1. AfterFlush(w) \in Slot /\ AfterFlush(w).pc \in {"look", "return"}
          /\ AfterFlush(w).batch < Batch
      <4>1. NoCounts \in Counts /\ 0 \in 0 .. Batch /\ 0 < Batch
        BY WalkAssumption DEF NoCounts, Counts
      <4>2. QED
        BY <1>0, <4>1 DEF AfterFlush, Slot
    <3>2. QED
      BY <2>1, <3>1 DEF FlushCounts
  <2>2. CASE ~(counts.bytes + Bytes(w) <= MaxSize)
    <3> DEFINE r == [walker[w] EXCEPT !.error = "overflow", !.pc = "return"]
    <3>1. r \in Slot /\ r.pc = "return"
      BY <1>0 DEF Slot, Errors
    <3>2. walker' = [walker EXCEPT ![w] = r]
      BY <2>2 DEF FlushCounts
    <3> HIDE DEF r
    <3>3. QED
      BY <3>1, <3>2
  <2>3. QED
    BY <2>1, <2>2
<1>2. PICK r \in Slot :
        /\ walker' = [walker EXCEPT ![w] = r]
        /\ r.pc \in {"look", "return"} /\ (r.pc = "look" => r.batch < Batch)
  BY <1>1
<1>3. /\ walker' \in [Walker -> Slot]
      /\ \A v \in Walker : walker'[v] = IF v = w THEN r ELSE walker[v]
  BY <1>2, OneMoves DEF IInv, TypeOK
<1>4. counts' \in Counts
  <2>1. CASE counts.bytes + Bytes(w) <= MaxSize
    <3>1. counts' = Plus(counts, walker[w].counts)
      BY <2>1 DEF FlushCounts
    <3>2. QED
      BY <1>0, <2>1, <3>1, WalkAssumption DEF Plus, Counts, Bytes
  <2>2. CASE ~(counts.bytes + Bytes(w) <= MaxSize)
    BY <1>0, <2>2 DEF FlushCounts
  <2>3. QED
    BY <2>1, <2>2
<1>5. TypeOK'
  BY <1>3, <1>4 DEF IInv, TypeOK, FlushCounts
<1>6. BatchBelow'
  BY <1>2, <1>3 DEF IInv, BatchBelow
<1>7. WorkingSet' = WorkingSet
  <2>1. Working(w)'
    BY <1>2, <1>3 DEF Working
  <2>2. QED
    BY <1>0, <1>3, <2>1, WorkingStays
<1>8. ActiveCountsWorkers'
  BY <1>7 DEF IInv, ActiveCountsWorkers, FlushCounts
<1>9. NobodyLeavesWorkBehind'
  <2>1. superseded \/ failed \/ (watching /\ \A v \in Walker : ~At(v, "gone"))
    BY <1>0, WorkerHoldsTheWalk DEF IInv
  <2>2. \A v \in Walker : At(v, "gone")' => At(v, "gone")
    BY <1>2, <1>3 DEF At
  <2>3. QED
    BY <2>1, <2>2 DEF NobodyLeavesWorkBehind, FlushCounts
<1>10. QED
  BY <1>5, <1>6, <1>8, <1>9 DEF IInv

\* The end of a subtree, in success and in failure.
LEMMA FinishOK ==
    ASSUME IInv, NEW w \in Walker, FinishSubtree(w)
    PROVE  IInv'
<1>1. AtRest \in Slot /\ AtRest.pc = "take" /\ AtRest.batch < Batch
  BY WalkAssumption DEF AtRest, Slot, Entry, NoCounts, Counts, Errors
<1>2. /\ walker' \in [Walker -> Slot]
      /\ \A v \in Walker : walker'[v] = IF v = w THEN AtRest ELSE walker[v]
  BY <1>1, OneMoves DEF IInv, TypeOK, FinishSubtree
<1>3. Working(w) /\ ~Working(w)'
  BY <1>1, <1>2 DEF FinishSubtree, Working, At
<1>4. /\ Cardinality(WorkingSet') = Cardinality(WorkingSet) - 1
      /\ WorkingSet' \subseteq WorkingSet
  BY <1>2, <1>3, WorkingDrops
<1>5. ActiveCountsWorkers'
  BY <1>4 DEF IInv, ActiveCountsWorkers, FinishSubtree, Released
<1>6. TypeOK'
  <2>1. active' \in 0 .. Cardinality(Walker)
    BY <1>5, WorkingFinite DEF ActiveCountsWorkers
  <2>2. walker[w].error \in Errors
    BY DEF IInv, TypeOK, Slot
  <2>3. /\ pending' \in Seq(Dir) /\ Len(pending') <= Backlog
        /\ error' \in Errors /\ failed' \in BOOLEAN
    <3>1. CASE Failure(w) = "none"
      BY <3>1 DEF IInv, TypeOK, FinishSubtree
    <3>2. CASE Failure(w) # "none"
      BY <3>2, <2>2, WalkAssumption DEF IInv, TypeOK, FinishSubtree, Failure
    <3>3. QED
      BY <3>1, <3>2
  <2>4. QED
    BY <1>2, <2>1, <2>3 DEF IInv, TypeOK, FinishSubtree
<1>7. BatchBelow'
  BY <1>1, <1>2 DEF IInv, BatchBelow
<1>8. NobodyLeavesWorkBehind'
  <2>1. superseded \/ failed \/ (watching /\ \A v \in Walker : ~At(v, "gone"))
    BY <1>3, WorkerHoldsTheWalk DEF IInv
  <2>2. \A v \in Walker : At(v, "gone")' => At(v, "gone")
    BY <1>1, <1>2 DEF At
  <2>3. failed => failed'
    BY DEF FinishSubtree
  <2>4. QED
    BY <2>1, <2>2, <2>3 DEF NobodyLeavesWorkBehind, FinishSubtree
<1>9. QED
  BY <1>5, <1>6, <1>7, <1>8 DEF IInv

\* The measuring thread and its owner.
LEMMA WatcherOK ==
    ASSUME IInv, Report \/ StopWatching \/ Return \/ Supersede
    PROVE  IInv'
<1>1. walker' = walker /\ shared' = shared
  BY DEF Report, StopWatching, Return, Supersede
<1>2. BatchBelow' /\ ActiveCountsWorkers'
  BY <1>1 DEF IInv, BatchBelow, ActiveCountsWorkers, WorkingSet, Working, shared
<1>3. TypeOK'
  <2>1. progress' \in 0 .. MaxSize /\ result' \in Errors \cup {"measured", "superseded"}
    BY DEF IInv, TypeOK, Report, StopWatching, Return, Supersede, Counts
  <2>2. watching' \in BOOLEAN /\ superseded' \in BOOLEAN
    BY DEF IInv, TypeOK, Report, StopWatching, Return, Supersede
  <2>3. QED
    BY <1>1, <2>1, <2>2 DEF IInv, TypeOK, shared
<1>4. NobodyLeavesWorkBehind'
  <2>1. CASE Report \/ Return
    BY <1>1, <2>1 DEF IInv, NobodyLeavesWorkBehind, Report, Return, shared, At, Working
  <2>2. CASE Supersede
    BY <2>2 DEF NobodyLeavesWorkBehind, Supersede
  <2>3. CASE StopWatching
    <3>1. CASE superseded
      BY <2>3, <3>1 DEF NobodyLeavesWorkBehind, StopWatching
    <3>2. CASE NothingLeft
      <4>1. \A w \in Walker : ~Working(w)
        BY <3>2, ZeroMeansNobody DEF NothingLeft, IInv
      <4>2. \A w \in Walker : ~Working(w)'
        BY <1>1, <4>1 DEF Working
      <4>3. pending' = <<>>
        BY <1>1, <3>2 DEF NothingLeft, shared
      <4>4. QED
        BY <4>2, <4>3 DEF NobodyLeavesWorkBehind
    <3>3. QED
      BY <2>3, <3>1, <3>2 DEF StopWatching
  <2>4. QED
    BY <2>1, <2>2, <2>3
<1>5. QED
  BY <1>2, <1>3, <1>4 DEF IInv

\* Every step preserves the invariant.
LEMMA StepOK == IInv /\ [Next]_vars => IInv'
<1> SUFFICES ASSUME IInv, [Next]_vars PROVE IInv'
  OBVIOUS
<1>1. ASSUME NEW w \in Walker, Walk(w) PROVE IInv'
  <2>1. CASE TakeDirectory(w)
    BY <2>1, TakeOK
  <2>2. CASE Leave(w)
    BY <2>2, LeaveOK
  <2>3. CASE ShareDirectory(w)
    BY <2>3, ShareOK
  <2>4. CASE FlushCounts(w)
    BY <2>4, FlushOK
  <2>5. CASE FinishSubtree(w)
    BY <2>5, FinishOK
  <2>6. CASE \/ OpenDirectory(w) \/ EndOfDirectory(w) \/ EndOfSubtree(w)
             \/ (\E e \in Entry : NextEntry(w, e))
             \/ DescendLocally(w) \/ CountFile(w) \/ CountSkipped(w)
    BY <2>6, OwnStepsOK
  <2>7. QED
    BY <1>1, <2>1, <2>2, <2>3, <2>4, <2>5, <2>6 DEF Walk
<1>2. CASE Report \/ StopWatching \/ Return \/ Supersede
  BY <1>2, WatcherOK
<1>3. CASE UNCHANGED vars
  BY <1>3 DEF vars, shared, IInv, TypeOK, BatchBelow, ActiveCountsWorkers,
              WorkingSet, NobodyLeavesWorkBehind, Working, At
<1>4. QED
  BY <1>1, <1>2, <1>3 DEF Next, Finished

-----------------------------------------------------------------------------
(* The counts of a set of entries. *)

\* There are finitely many entries, and finitely many bytes in them.
LEMMA CountsAreFinite ==
    ASSUME NEW S \in SUBSET Entry
    PROVE  /\ IsFiniteSet(S) /\ IsFiniteSet(S \cap File) /\ IsFiniteSet(S \cap Dir)
           /\ IsFiniteSet(S \cap Odd) /\ IsFiniteSet(S \cap refused)
           /\ IsFiniteSet(BytesIn(S))
<1>1. IsFiniteSet(Entry)
  BY WalkAssumption, FS_Union DEF Entry
<1>2. IsFiniteSet(S)
  BY <1>1, FS_Subset
<1>3. IsFiniteSet((S \cap File) \X (1 .. MaxSize))
  <2>1. IsFiniteSet(1 .. MaxSize)
    <3>1. 1 \in Int /\ MaxSize \in Int
      BY WalkAssumption
    <3>2. QED
      BY <3>1, FS_Interval
  <2>2. IsFiniteSet(S \cap File)
    BY <1>2, FS_Intersection
  <2>3. QED
    BY <2>1, <2>2, FS_Product
<1>4. BytesIn(S) \in SUBSET ((S \cap File) \X (1 .. MaxSize))
  BY DEF BytesIn
<1>5. IsFiniteSet(BytesIn(S))
  BY <1>3, <1>4, FS_Subset
<1>6. QED
  BY <1>2, <1>5, FS_Intersection

\* The counts are natural numbers.
LEMMA MeasureType ==
    ASSUME NEW S \in SUBSET Entry
    PROVE  /\ Cardinality(BytesIn(S)) \in Nat
           /\ Cardinality(S \cap File) \in Nat /\ Cardinality(S \cap Dir) \in Nat
           /\ Cardinality(S \cap Odd) \in Nat /\ Cardinality(S \cap refused) \in Nat
           /\ Measure(S).bytes = Cardinality(BytesIn(S))
           /\ Measure(S) \in [bytes : Nat, files : Nat, directories : Nat, skipped : Nat]
<1>1. /\ Cardinality(BytesIn(S)) \in Nat
      /\ Cardinality(S \cap File) \in Nat /\ Cardinality(S \cap Dir) \in Nat
      /\ Cardinality(S \cap Odd) \in Nat /\ Cardinality(S \cap refused) \in Nat
  BY CountsAreFinite, FS_CardinalityType
<1>2. QED
  BY <1>1 DEF Measure

\* Finite sets without a common element add up.
LEMMA DisjointCardinality ==
    ASSUME NEW S, NEW T, IsFiniteSet(S), IsFiniteSet(T), S \cap T = {}
    PROVE  Cardinality(S \cup T) = Cardinality(S) + Cardinality(T)
<1>1. Cardinality(S \cap T) = 0 /\ Cardinality(S) \in Nat /\ Cardinality(T) \in Nat
  BY FS_EmptySet, FS_CardinalityType
<1>2. Cardinality(S \cup T) = Cardinality(S) + Cardinality(T) - Cardinality(S \cap T)
  BY FS_Union
<1>3. QED
  BY <1>1, <1>2

\* Nothing counts for nothing.
LEMMA MeasureNothing == Measure({}) = NoCounts
<1>1. BytesIn({}) = {}
  BY DEF BytesIn
<1>2. /\ {} \cap File = {} /\ {} \cap Dir = {} /\ {} \cap Odd = {}
      /\ {} \cap refused = {} /\ Cardinality({}) = 0
  BY FS_EmptySet
<1>3. QED
  BY <1>1, <1>2 DEF Measure, NoCounts

\* The counts of two sets without a common entry add up.
LEMMA MeasureAdds ==
    ASSUME NEW S \in SUBSET Entry, NEW T \in SUBSET Entry, S \cap T = {}
    PROVE  Measure(S \cup T) = Plus(Measure(S), Measure(T))
<1>1. Cardinality(BytesIn(S \cup T)) = Cardinality(BytesIn(S)) + Cardinality(BytesIn(T))
  <2>1. BytesIn(S \cup T) = BytesIn(S) \cup BytesIn(T) /\ BytesIn(S) \cap BytesIn(T) = {}
    BY DEF BytesIn
  <2>2. QED
    BY <2>1, CountsAreFinite, DisjointCardinality
<1>2. ASSUME NEW K, IsFiniteSet(S \cap K), IsFiniteSet(T \cap K)
      PROVE  Cardinality((S \cup T) \cap K) = Cardinality(S \cap K) + Cardinality(T \cap K)
  <2> DEFINE A == S \cap K
             B == T \cap K
  <2>1. (S \cup T) \cap K = A \cup B /\ A \cap B = {} /\ IsFiniteSet(A) /\ IsFiniteSet(B)
    BY <1>2
  <2> HIDE DEF A, B
  <2>2. Cardinality(A \cup B) = Cardinality(A) + Cardinality(B)
    BY <2>1, DisjointCardinality
  <2>3. QED
    BY <2>1, <2>2 DEF A, B
<1>3. Cardinality((S \cup T) \cap File) = Cardinality(S \cap File) + Cardinality(T \cap File)
  BY <1>2, CountsAreFinite
<1>4. Cardinality((S \cup T) \cap Dir) = Cardinality(S \cap Dir) + Cardinality(T \cap Dir)
  BY <1>2, CountsAreFinite
<1>5. Cardinality((S \cup T) \cap Odd) = Cardinality(S \cap Odd) + Cardinality(T \cap Odd)
  BY <1>2, CountsAreFinite
<1>6. Cardinality((S \cup T) \cap refused)
        = Cardinality(S \cap refused) + Cardinality(T \cap refused)
  BY <1>2, CountsAreFinite
<1>7. /\ Cardinality(S \cap Odd) \in Nat /\ Cardinality(S \cap refused) \in Nat
      /\ Cardinality(T \cap Odd) \in Nat /\ Cardinality(T \cap refused) \in Nat
  BY MeasureType
<1>8. (Cardinality(S \cap Odd) + Cardinality(T \cap Odd))
        + (Cardinality(S \cap refused) + Cardinality(T \cap refused))
      = (Cardinality(S \cap Odd) + Cardinality(S \cap refused))
        + (Cardinality(T \cap Odd) + Cardinality(T \cap refused))
  BY <1>7
<1>9. Measure(S \cup T) =
        [bytes |-> Measure(S).bytes + Measure(T).bytes,
         files |-> Measure(S).files + Measure(T).files,
         directories |-> Measure(S).directories + Measure(T).directories,
         skipped |-> Measure(S).skipped + Measure(T).skipped]
  BY <1>1, <1>3, <1>4, <1>5, <1>6, <1>8 DEF Measure
<1>10. DOMAIN Measure(S) = {"bytes", "files", "directories", "skipped"}
  BY DEF Measure
<1>11. QED
  BY <1>9, <1>10 DEF Plus

\* More entries hold at least as many bytes.
LEMMA MeasureGrows ==
    ASSUME NEW T \in SUBSET Entry, NEW S \in SUBSET T
    PROVE  Measure(S).bytes <= Measure(T).bytes
<1>1. BytesIn(S) \in SUBSET BytesIn(T)
  BY DEF BytesIn
<1>2. Cardinality(BytesIn(S)) <= Cardinality(BytesIn(T))
  BY <1>1, CountsAreFinite, FS_Subset
<1>3. S \in SUBSET Entry
  OBVIOUS
<1>4. QED
  BY <1>2, <1>3, MeasureType

\* One file counts once, with its bytes.
LEMMA MeasureOfFile ==
    ASSUME NEW f \in File, refused \in SUBSET Dir
    PROVE  Measure({f}) = [bytes |-> Size[f], files |-> 1, directories |-> 0, skipped |-> 0]
<1>1. Size[f] \in 0 .. MaxSize /\ MaxSize \in Nat
  BY WalkAssumption
<1>2. BytesIn({f}) = {f} \X (1 .. Size[f])
  BY <1>1 DEF BytesIn
<1>3. Cardinality(BytesIn({f})) = Size[f]
  <2>1. IsFiniteSet({f}) /\ Cardinality({f}) = 1
    BY FS_Singleton
  <2>2. IsFiniteSet(1 .. Size[f]) /\ Cardinality(1 .. Size[f]) = Size[f]
    <3>1. 1 \in Int /\ Size[f] \in Int
      BY <1>1
    <3>2. /\ IsFiniteSet(1 .. Size[f])
          /\ Cardinality(1 .. Size[f]) = IF 1 > Size[f] THEN 0 ELSE Size[f] - 1 + 1
      BY <3>1, FS_Interval
    <3>3. QED
      BY <1>1, <3>2
  <2>3. Cardinality({f} \X (1 .. Size[f])) = 1 * Size[f]
    <3> DEFINE A == {f}
               B == 1 .. Size[f]
    <3>1. IsFiniteSet(A) /\ IsFiniteSet(B) /\ Cardinality(A) = 1 /\ Cardinality(B) = Size[f]
      BY <2>1, <2>2
    <3> HIDE DEF A, B
    <3>2. Cardinality(A \X B) = Cardinality(A) * Cardinality(B)
      BY <3>1, FS_Product
    <3>3. QED
      BY <3>1, <3>2 DEF A, B
  <2>4. 1 * Size[f] = Size[f]
    BY <1>1
  <2>5. Cardinality(BytesIn({f})) = Cardinality({f} \X (1 .. Size[f]))
    BY <1>2
  <2>6. QED
    BY <2>3, <2>4, <2>5
<1>4. /\ {f} \cap File = {f} /\ {f} \cap Dir = {} /\ {f} \cap Odd = {}
      /\ {f} \cap refused = {}
  BY WalkAssumption
<1>5. Cardinality({}) = 0 /\ Cardinality({f}) = 1
  BY FS_Singleton, FS_EmptySet
<1>6. QED
  BY <1>3, <1>4, <1>5 DEF Measure

\* One skipped entry counts once.
LEMMA MeasureOfOdd ==
    ASSUME NEW o \in Odd, refused \in SUBSET Dir
    PROVE  Measure({o}) = [bytes |-> 0, files |-> 0, directories |-> 0, skipped |-> 1]
<1>1. /\ {o} \cap File = {} /\ {o} \cap Dir = {} /\ {o} \cap Odd = {o}
      /\ {o} \cap refused = {}
  BY WalkAssumption
<1>2. BytesIn({o}) = {}
  BY <1>1 DEF BytesIn
<1>3. Cardinality({}) = 0 /\ Cardinality({o}) = 1
  BY FS_Singleton, FS_EmptySet
<1>4. QED
  BY <1>1, <1>2, <1>3 DEF Measure

\* One directory counts once, and as skipped when it cannot be read.
LEMMA MeasureOfDirectory ==
    ASSUME NEW d \in Dir, refused \in SUBSET Dir
    PROVE  Measure({d}) = [bytes |-> 0, files |-> 0, directories |-> 1,
                           skipped |-> IF d \in refused THEN 1 ELSE 0]
<1>1. /\ {d} \cap File = {} /\ {d} \cap Dir = {d} /\ {d} \cap Odd = {}
      /\ {d} \cap refused = IF d \in refused THEN {d} ELSE {}
  BY WalkAssumption
<1>2. BytesIn({d}) = {}
  BY <1>1 DEF BytesIn
<1>3. Cardinality({}) = 0 /\ Cardinality({d}) = 1
  BY FS_Singleton, FS_EmptySet
<1>4. QED
  BY <1>1, <1>2, <1>3 DEF Measure

-----------------------------------------------------------------------------
(* The books of a walk: which entries are counted, by whom, and which are  *)
(* still to be looked at.                                                  *)

Together(sets) == UNION {sets[w] : w \in Walker}
Met(done, waiting, holds) == (done \cup waiting) \cup Together(holds)

(* Every entry that was met is in one place: counted, waiting or in the
   hands of one walker; and what is counted is in one sum. *)
NothingTwice(done, flushed, own, waiting, holds) ==
    /\ done \cap waiting = {}
    /\ \A w \in Walker : holds[w] \cap (done \cup waiting) = {}
    /\ \A v, w \in Walker : v # w => holds[v] \cap holds[w] = {}
    /\ flushed \subseteq done
    /\ \A w \in Walker : own[w] \subseteq done \ flushed
    /\ \A v, w \in Walker : v # w => own[v] \cap own[w] = {}

(* Only what a sequential walk finds is met, and the entries of a directory
   only once it has been counted. *)
OnlyFound(done, met) ==
    /\ met \subseteq Found
    /\ \A d \in Dir \ done : Contents[d] \cap met = {}

(* Nothing is dropped. *)
NothingDropped(done, flushed, own, met) ==
    /\ Root \in met
    /\ \A d \in (done \cap Dir) \ refused : Contents[d] \subseteq met
    /\ done = flushed \cup Together(own)

Books(done, flushed, own, waiting, holds) ==
    /\ done \in SUBSET Entry /\ flushed \in SUBSET Entry /\ waiting \in SUBSET Dir
    /\ own \in [Walker -> SUBSET Entry] /\ holds \in [Walker -> SUBSET Entry]
    /\ NothingTwice(done, flushed, own, waiting, holds)
    /\ OnlyFound(done, Met(done, waiting, holds))

Complete(done, flushed, own, waiting, holds) ==
    NothingDropped(done, flushed, own, Met(done, waiting, holds))

\* What the walkers have together after one of them changes.
LEMMA OneHandChanges ==
    ASSUME NEW sets \in [Walker -> SUBSET Entry], NEW w \in Walker,
           NEW s \in SUBSET Entry
    PROVE  /\ Together([sets EXCEPT ![w] = s]) \subseteq Together(sets) \cup s
           /\ s \subseteq Together([sets EXCEPT ![w] = s])
           /\ Together(sets) \subseteq Together([sets EXCEPT ![w] = s]) \cup sets[w]
<1> DEFINE new == [sets EXCEPT ![w] = s]
<1>1. new[w] = s /\ \A v \in Walker : v # w => new[v] = sets[v]
  OBVIOUS
<1> HIDE DEF new
<1>2. Together(new) \subseteq Together(sets) \cup s
  BY <1>1 DEF Together
<1>3. s \subseteq Together(new)
  BY <1>1 DEF Together
<1>4. Together(sets) \subseteq Together(new) \cup sets[w]
  BY <1>1 DEF Together
<1>5. QED
  BY <1>2, <1>3, <1>4 DEF new

\* The directories found are the ones a sequential walk reaches.
LEMMA FoundDirectories ==
    ASSUME refused \in SUBSET Dir
    PROVE  /\ Found \cap Dir = Reached
           /\ \A d \in Reached \ refused : Contents[d] \subseteq Found
           /\ Found \in SUBSET Entry /\ Root \in Found
<1>1. Reached \in SUBSET Dir /\ Root \in Reached
  BY WalkAssumption DEF Reached, Closed
<1>2. ASSUME NEW d \in Listed, d \in Dir PROVE d \in Reached
  <2>1. PICK c \in Reached \ refused : d \in Contents[c]
    BY <1>2 DEF Listed
  <2>2. ASSUME NEW S \in SUBSET Dir, Closed(S) PROVE d \in S
    <3>1. c \in S
      BY <2>1, <2>2 DEF Reached
    <3>2. Contents[c] \cap Dir \subseteq S
      BY <2>1, <2>2, <3>1 DEF Closed
    <3>3. QED
      BY <1>2, <2>1, <3>2
  <2>3. QED
    BY <1>2, <2>2 DEF Reached
<1>3. \A d \in Reached \ refused : Contents[d] \subseteq Listed
  BY DEF Listed
<1>4. Listed \subseteq Entry
  BY <1>1, WalkAssumption DEF Listed
<1>5. QED
  BY <1>1, <1>2, <1>3, <1>4 DEF Found, Entry

\* When nothing was dropped and nothing is left, all that can be found is counted.
LEMMA AllIsCounted ==
    ASSUME NEW done, NEW flushed, NEW own, NEW waiting, NEW holds,
           Books(done, flushed, own, waiting, holds), refused \in SUBSET Dir,
           Complete(done, flushed, own, waiting, holds),
           waiting = {}, Together(holds) = {}, Together(own) = {}
    PROVE  flushed = Found
<1>1. /\ Met(done, waiting, holds) = done /\ done = flushed
      /\ done \subseteq Found /\ Root \in done
      /\ \A d \in (done \cap Dir) \ refused : Contents[d] \subseteq done
  BY DEF Books, Complete, Met, OnlyFound, NothingDropped
<1>2. Reached \subseteq done
  <2>1. Closed(done \cap Dir)
    BY <1>1, WalkAssumption DEF Closed
  <2>2. QED
    BY <2>1 DEF Reached
<1>3. Listed \subseteq done
  BY <1>1, <1>2 DEF Listed, Reached
<1>4. QED
  BY <1>1, <1>2, <1>3 DEF Found

-----------------------------------------------------------------------------
(* The entries of the books. *)

\* A walker counts an entry that it holds; of a directory that can be read it
\* holds the contents from then on.
LEMMA BookCount ==
    ASSUME NEW done, NEW flushed, NEW own, NEW waiting, NEW holds,
           Books(done, flushed, own, waiting, holds), refused \in SUBSET Dir,
           NEW w \in Walker, NEW e \in holds[w], NEW h,
           h = (holds[w] \ {e}) \cup
                 (IF e \in Dir /\ e \notin refused THEN Contents[e] ELSE {})
    PROVE  /\ Books(done \cup {e}, flushed, [own EXCEPT ![w] = @ \cup {e}], waiting,
                    [holds EXCEPT ![w] = h])
           /\ Complete(done, flushed, own, waiting, holds) =>
                Complete(done \cup {e}, flushed, [own EXCEPT ![w] = @ \cup {e}], waiting,
                         [holds EXCEPT ![w] = h])
<1> DEFINE new == IF e \in Dir /\ e \notin refused THEN Contents[e] ELSE {}
           met == Met(done, waiting, holds)
           done2 == done \cup {e}
           own2 == [own EXCEPT ![w] = own[w] \cup {e}]
           holds2 == [holds EXCEPT ![w] = h]
           met2 == Met(done2, waiting, holds2)
<1>1. /\ done \in SUBSET Entry /\ flushed \in SUBSET Entry /\ waiting \in SUBSET Dir
      /\ own \in [Walker -> SUBSET Entry] /\ holds \in [Walker -> SUBSET Entry]
      /\ NothingTwice(done, flushed, own, waiting, holds) /\ OnlyFound(done, met)
  BY DEF Books
<1>2. /\ e \in Entry /\ e \notin done /\ e \notin waiting
      /\ \A v \in Walker : v # w => e \notin holds[v]
      /\ e \in met /\ holds[w] \subseteq met /\ done \subseteq met /\ waiting \subseteq met
      /\ \A v \in Walker : holds[v] \subseteq met
  BY <1>1 DEF NothingTwice, Met, Together
<1>3. e \in Found /\ \A v \in Walker : own[v] \subseteq Found /\ e \notin own[v]
  BY <1>1, <1>2 DEF OnlyFound, NothingTwice
<1>4. new \subseteq Found /\ new \subseteq Entry /\ new \cap met = {} /\ e \notin new
  <2>1. CASE e \in Dir /\ e \notin refused
    <3>1. e \in Reached
      BY <1>3, <2>1, FoundDirectories
    <3>2. new = Contents[e] /\ Contents[e] \subseteq Entry
      BY <2>1, WalkAssumption
    <3>3. Contents[e] \cap met = {}
      BY <1>1, <1>2, <2>1 DEF OnlyFound
    <3> HIDE DEF met
    <3>4. QED
      BY <1>2, <2>1, <3>1, <3>2, <3>3, FoundDirectories
  <2>2. CASE ~(e \in Dir /\ e \notin refused)
    <3>1. new = {}
      BY <2>2
    <3>2. QED
      BY <3>1
  <2>3. QED
    BY <2>1, <2>2
<1>5. h = (holds[w] \ {e}) \cup new /\ h \in SUBSET Entry
  BY <1>1, <1>4
<1>6. ASSUME NEW d \in Dir \ done2 PROVE Contents[d] \cap (met \cup new) = {}
  <2>1. Contents[d] \cap met = {}
    BY <1>1, <1>6 DEF OnlyFound
  <2>2. e \in Dir => Contents[d] \cap Contents[e] = {}
    BY <1>6, WalkAssumption
  <2>3. QED
    BY <2>1, <2>2
<1> HIDE DEF new
<1>7. /\ holds2 \in [Walker -> SUBSET Entry] /\ holds2[w] = h
      /\ \A v \in Walker : v # w => holds2[v] = holds[v]
      /\ Together(holds2) \subseteq Together(holds) \cup h
      /\ h \subseteq Together(holds2)
      /\ Together(holds) \subseteq Together(holds2) \cup holds[w]
  <2>1. /\ holds2 \in [Walker -> SUBSET Entry] /\ holds2[w] = h
        /\ \A v \in Walker : v # w => holds2[v] = holds[v]
    BY <1>1, <1>5
  <2>2. /\ Together(holds2) \subseteq Together(holds) \cup h
        /\ h \subseteq Together(holds2)
        /\ Together(holds) \subseteq Together(holds2) \cup holds[w]
    BY <1>1, <1>5, OneHandChanges
  <2> HIDE DEF holds2
  <2>3. QED
    BY <2>1, <2>2
<1>8. /\ own2 \in [Walker -> SUBSET Entry] /\ own2[w] = own[w] \cup {e}
      /\ \A v \in Walker : v # w => own2[v] = own[v]
      /\ Together(own2) \subseteq Together(own) \cup (own[w] \cup {e})
      /\ own[w] \cup {e} \subseteq Together(own2)
      /\ Together(own) \subseteq Together(own2) \cup own[w]
  <2> DEFINE sum == own[w] \cup {e}
  <2>1. sum \in SUBSET Entry /\ own \in [Walker -> SUBSET Entry]
    BY <1>1, <1>2
  <2> HIDE DEF sum
  <2>2. /\ [own EXCEPT ![w] = sum] \in [Walker -> SUBSET Entry]
        /\ [own EXCEPT ![w] = sum][w] = sum
        /\ \A v \in Walker : v # w => [own EXCEPT ![w] = sum][v] = own[v]
    BY <2>1
  <2>3. /\ Together([own EXCEPT ![w] = sum]) \subseteq Together(own) \cup sum
        /\ sum \subseteq Together([own EXCEPT ![w] = sum])
        /\ Together(own) \subseteq Together([own EXCEPT ![w] = sum]) \cup own[w]
    BY <2>1, OneHandChanges
  <2>4. QED
    BY <2>2, <2>3 DEF sum
<1> HIDE DEF holds2, own2
<1>9. met2 = met \cup new
  <2>1. met2 \subseteq met \cup new
    <3>1. Together(holds2) \subseteq Together(holds) \cup (holds[w] \cup new)
      BY <1>5, <1>7
    <3>2. met = (done \cup waiting) \cup Together(holds)
      BY DEF Met
    <3>3. met2 = ((done \cup {e}) \cup waiting) \cup Together(holds2)
      BY DEF Met
    <3> HIDE DEF met, met2
    <3>4. QED
      BY <1>2, <3>1, <3>2, <3>3
  <2>2. met \cup new \subseteq met2
    <3>1. Together(holds) \subseteq Together(holds2) \cup {e}
      BY <1>5, <1>7
    <3>2. new \subseteq Together(holds2)
      BY <1>5, <1>7
    <3>3. met = (done \cup waiting) \cup Together(holds)
      BY DEF Met
    <3>4. met2 = ((done \cup {e}) \cup waiting) \cup Together(holds2)
      BY DEF Met
    <3> HIDE DEF met, met2
    <3>5. QED
      BY <3>1, <3>2, <3>3, <3>4
  <2>3. QED
    BY <2>1, <2>2
<1> HIDE DEF met, met2
<1>10. NothingTwice(done2, flushed, own2, waiting, holds2)
  <2>1. done2 \cap waiting = {} /\ flushed \subseteq done2
    BY <1>1, <1>2 DEF NothingTwice
  <2>2. \A v \in Walker : holds2[v] \cap (done2 \cup waiting) = {}
    BY <1>1, <1>2, <1>4, <1>5, <1>7 DEF NothingTwice
  <2>3. \A v \in Walker : v # w => h \cap holds[v] = {}
    BY <1>1, <1>2, <1>4, <1>5 DEF NothingTwice
  <2>4. \A u, v \in Walker : u # v => holds2[u] \cap holds2[v] = {}
    BY <1>1, <1>7, <2>3 DEF NothingTwice
  <2>5. \A v \in Walker : own2[v] \subseteq done2 \ flushed
    BY <1>1, <1>2, <1>8 DEF NothingTwice
  <2>6. \A u, v \in Walker : u # v => own2[u] \cap own2[v] = {}
    BY <1>1, <1>3, <1>8 DEF NothingTwice
  <2>7. QED
    BY <2>1, <2>2, <2>4, <2>5, <2>6 DEF NothingTwice
<1>11. OnlyFound(done2, met2)
  BY <1>1, <1>4, <1>6, <1>9 DEF OnlyFound
<1>12. ASSUME NothingDropped(done, flushed, own, met)
       PROVE  NothingDropped(done2, flushed, own2, met2)
  <2>1. NothingDropped(done, flushed, own, met)
    BY <1>12
  <2>2. Root \in met2
    BY <1>9, <2>1 DEF NothingDropped
  <2>3. \A d \in (done2 \cap Dir) \ refused : Contents[d] \subseteq met2
    <3>1. e \in Dir /\ e \notin refused => Contents[e] \subseteq new
      BY DEF new
    <3>2. QED
      BY <1>9, <2>1, <3>1 DEF NothingDropped
  <2>4. done2 = flushed \cup Together(own2)
    <3>1. done = flushed \cup Together(own) /\ own[w] \subseteq Together(own)
      BY <2>1 DEF NothingDropped, Together
    <3>2. QED
      BY <1>8, <3>1
  <2>5. QED
    BY <2>2, <2>3, <2>4 DEF NothingDropped
<1>13. Books(done2, flushed, own2, waiting, holds2)
  BY <1>1, <1>2, <1>7, <1>8, <1>10, <1>11 DEF Books, met2
<1>14. QED
  BY <1>12, <1>13 DEF Complete, met, met2, own2, holds2

\* An entry goes from one place to another, or is dropped; only in a walk that
\* is over may one be dropped.
LEMMA BookMove ==
    ASSUME NEW done, NEW flushed, NEW own, NEW waiting, NEW holds,
           Books(done, flushed, own, waiting, holds), NEW w \in Walker,
           NEW waiting2 \in SUBSET Dir, NEW h,
           waiting2 \cup h \subseteq waiting \cup holds[w], waiting2 \cap h = {}
    PROVE  /\ Books(done, flushed, own, waiting2, [holds EXCEPT ![w] = h])
           /\ waiting2 \cup h = waiting \cup holds[w]
                /\ Complete(done, flushed, own, waiting, holds)
              => Complete(done, flushed, own, waiting2, [holds EXCEPT ![w] = h])
<1> DEFINE met == Met(done, waiting, holds)
           holds2 == [holds EXCEPT ![w] = h]
           met2 == Met(done, waiting2, holds2)
<1>1. /\ done \in SUBSET Entry /\ flushed \in SUBSET Entry /\ waiting \in SUBSET Dir
      /\ own \in [Walker -> SUBSET Entry] /\ holds \in [Walker -> SUBSET Entry]
      /\ NothingTwice(done, flushed, own, waiting, holds) /\ OnlyFound(done, met)
  BY DEF Books
<1>2. h \in SUBSET Entry
  BY <1>1 DEF Entry
<1>3. /\ holds2 \in [Walker -> SUBSET Entry] /\ holds2[w] = h
      /\ \A v \in Walker : v # w => holds2[v] = holds[v]
      /\ Together(holds2) \subseteq Together(holds) \cup h
      /\ h \subseteq Together(holds2)
      /\ Together(holds) \subseteq Together(holds2) \cup holds[w]
  <2>1. /\ holds2 \in [Walker -> SUBSET Entry] /\ holds2[w] = h
        /\ \A v \in Walker : v # w => holds2[v] = holds[v]
    BY <1>1, <1>2
  <2>2. /\ Together(holds2) \subseteq Together(holds) \cup h
        /\ h \subseteq Together(holds2)
        /\ Together(holds) \subseteq Together(holds2) \cup holds[w]
    BY <1>1, <1>2, OneHandChanges
  <2> HIDE DEF holds2
  <2>3. QED
    BY <2>1, <2>2
<1> HIDE DEF holds2
<1>4. holds[w] \subseteq Together(holds)
  BY DEF Together
<1>5. /\ met = (done \cup waiting) \cup Together(holds)
      /\ met2 = (done \cup waiting2) \cup Together(holds2)
  BY DEF Met
<1> HIDE DEF met, met2
<1>6. met2 \subseteq met
  BY <1>3, <1>4, <1>5
<1>7. ASSUME waiting2 \cup h = waiting \cup holds[w] PROVE met2 = met
  <2>1. met \subseteq met2
    BY <1>3, <1>5, <1>7
  <2>2. QED
    BY <1>6, <2>1
<1>8. NothingTwice(done, flushed, own, waiting2, holds2)
  <2>1. /\ done \cap waiting = {} /\ flushed \subseteq done
        /\ \A v \in Walker : holds[v] \cap (done \cup waiting) = {}
        /\ \A u, v \in Walker : u # v => holds[u] \cap holds[v] = {}
        /\ \A v \in Walker : own[v] \subseteq done \ flushed
        /\ \A u, v \in Walker : u # v => own[u] \cap own[v] = {}
    BY <1>1 DEF NothingTwice
  <2>2. done \cap waiting2 = {} /\ h \cap (done \cup waiting2) = {}
    BY <2>1
  <2>3. \A v \in Walker : v # w => /\ holds[v] \cap h = {}
                                   /\ holds[v] \cap (done \cup waiting2) = {}
    BY <2>1
  <2>4. \A v \in Walker : holds2[v] \cap (done \cup waiting2) = {}
    BY <1>3, <2>2, <2>3
  <2>5. \A u, v \in Walker : u # v => holds2[u] \cap holds2[v] = {}
    BY <1>3, <2>1, <2>3
  <2>6. QED
    BY <2>1, <2>2, <2>4, <2>5 DEF NothingTwice
<1>9. OnlyFound(done, met2)
  BY <1>1, <1>6 DEF OnlyFound
<1>10. Books(done, flushed, own, waiting2, holds2)
  BY <1>1, <1>3, <1>8, <1>9 DEF Books, met2
<1>11. QED
  BY <1>7, <1>10 DEF Complete, holds2, met, met2

\* A walker adds its own sum to the shared one.
LEMMA BookFlush ==
    ASSUME NEW done, NEW flushed, NEW own, NEW waiting, NEW holds,
           Books(done, flushed, own, waiting, holds), NEW w \in Walker
    PROVE  /\ Books(done, flushed \cup own[w], [own EXCEPT ![w] = {}], waiting, holds)
           /\ Complete(done, flushed, own, waiting, holds) =>
                Complete(done, flushed \cup own[w], [own EXCEPT ![w] = {}], waiting, holds)
           /\ flushed \cap own[w] = {} /\ flushed \cup own[w] \subseteq Found
           /\ flushed \in SUBSET Entry /\ own[w] \in SUBSET Entry
<1> DEFINE own2 == [own EXCEPT ![w] = {}]
           flushed2 == flushed \cup own[w]
           met == Met(done, waiting, holds)
<1>1. /\ done \in SUBSET Entry /\ flushed \in SUBSET Entry /\ waiting \in SUBSET Dir
      /\ own \in [Walker -> SUBSET Entry] /\ holds \in [Walker -> SUBSET Entry]
      /\ NothingTwice(done, flushed, own, waiting, holds) /\ OnlyFound(done, met)
  BY DEF Books
<1>2. /\ own2 \in [Walker -> SUBSET Entry] /\ own2[w] = {}
      /\ \A v \in Walker : v # w => own2[v] = own[v]
      /\ Together(own2) \subseteq Together(own) \cup {}
      /\ Together(own) \subseteq Together(own2) \cup own[w]
  <2>1. /\ own2 \in [Walker -> SUBSET Entry] /\ own2[w] = {}
        /\ \A v \in Walker : v # w => own2[v] = own[v]
    BY <1>1
  <2>2. /\ Together(own2) \subseteq Together(own) \cup {}
        /\ Together(own) \subseteq Together(own2) \cup own[w]
    <3>1. {} \in SUBSET Entry /\ own \in [Walker -> SUBSET Entry]
      BY <1>1
    <3>2. QED
      BY <3>1, OneHandChanges
  <2> HIDE DEF own2
  <2>3. QED
    BY <2>1, <2>2
<1> HIDE DEF own2
<1>3. flushed \cup own[w] \subseteq done /\ flushed \cap own[w] = {}
  BY <1>1 DEF NothingTwice
<1>4. done \subseteq Found
  BY <1>1 DEF OnlyFound, Met
<1> HIDE DEF met
<1>5. NothingTwice(done, flushed2, own2, waiting, holds)
  <2>1. \A v \in Walker : own2[v] \subseteq done \ flushed2
    <3>1. \A v \in Walker : v # w => own[v] \cap own[w] = {} /\ own[v] \subseteq done \ flushed
      BY <1>1 DEF NothingTwice
    <3>2. QED
      BY <1>2, <3>1
  <2>2. \A u, v \in Walker : u # v => own2[u] \cap own2[v] = {}
    BY <1>1, <1>2 DEF NothingTwice
  <2>3. QED
    BY <1>1, <1>3, <2>1, <2>2 DEF NothingTwice
<1>6. ASSUME NothingDropped(done, flushed, own, met)
      PROVE  NothingDropped(done, flushed2, own2, met)
  <2>1. NothingDropped(done, flushed, own, met)
    BY <1>6
  <2>2. own[w] \subseteq Together(own)
    BY DEF Together
  <2>3. done = flushed2 \cup Together(own2)
    BY <1>2, <2>1, <2>2 DEF NothingDropped
  <2>4. QED
    BY <2>1, <2>3 DEF NothingDropped
<1>7. flushed2 \in SUBSET Entry
  BY <1>1, <1>3
<1>8. QED
  BY <1>1, <1>2, <1>3, <1>4, <1>5, <1>6, <1>7 DEF Books, Complete, own2, met

\* A walker fails: what it held and what it had summed up is lost.
LEMMA BookLose ==
    ASSUME NEW done, NEW flushed, NEW own, NEW waiting, NEW holds,
           Books(done, flushed, own, waiting, holds), NEW w \in Walker
    PROVE  Books(done, flushed, [own EXCEPT ![w] = {}], waiting,
                 [holds EXCEPT ![w] = {}])
<1> DEFINE own2 == [own EXCEPT ![w] = {}]
           holds2 == [holds EXCEPT ![w] = {}]
<1>1. Books(done, flushed, own, waiting, holds2)
  <2>1. /\ waiting \in SUBSET Dir
        /\ waiting \cup {} \subseteq waiting \cup holds[w] /\ waiting \cap {} = {}
    BY DEF Books
  <2>2. QED
    BY <2>1, BookMove
<1> HIDE DEF holds2
<1>2. /\ own2 \in [Walker -> SUBSET Entry] /\ own2[w] = {}
      /\ \A v \in Walker : v # w => own2[v] = own[v]
  BY <1>1 DEF Books
<1> HIDE DEF own2
<1>3. NothingTwice(done, flushed, own2, waiting, holds2)
  BY <1>1, <1>2 DEF Books, NothingTwice
<1>4. QED
  BY <1>1, <1>2, <1>3 DEF Books, own2, holds2

\* The walk is over: the directories that wait may be dropped.
LEMMA BookStop ==
    ASSUME NEW done, NEW flushed, NEW own, NEW waiting, NEW holds,
           Books(done, flushed, own, waiting, holds),
           NEW waiting2 \in SUBSET waiting
    PROVE  Books(done, flushed, own, waiting2, holds)
<1>1. Met(done, waiting2, holds) \subseteq Met(done, waiting, holds)
  BY DEF Met
<1>2. OnlyFound(done, Met(done, waiting2, holds))
  BY <1>1 DEF Books, OnlyFound
<1>3. NothingTwice(done, flushed, own, waiting2, holds)
  BY DEF Books, NothingTwice
<1>4. QED
  BY <1>2, <1>3 DEF Books

-----------------------------------------------------------------------------
(* The stack of directories and the open readers of a walker. *)

Elements(s) == {s[i] : i \in DOMAIN s}
Different(s) == \A i, j \in DOMAIN s : s[i] = s[j] => i = j

Unread(readers) == UNION Elements(readers)
Apart(readers) ==
    \A i, j \in DOMAIN readers : i # j => readers[i] \cap readers[j] = {}

\* The last element is taken off the stack.
LEMMA Popped ==
    ASSUME NEW T, NEW s \in Seq(T), s # <<>>, Different(s), NEW r,
           r = SubSeq(s, 1, Len(s) - 1)
    PROVE  /\ Elements(r) = Elements(s) \ {s[Len(s)]} /\ Different(r)
           /\ s[Len(s)] \in Elements(s)
<1>1. /\ Len(s) \in Nat \ {0} /\ DOMAIN s = 1 .. Len(s)
      /\ DOMAIN r = 1 .. Len(s) - 1 /\ \A i \in 1 .. Len(s) - 1 : r[i] = s[i]
  OBVIOUS
<1>2. Different(r)
  BY <1>1 DEF Different
<1>3. s[Len(s)] \in Elements(s)
  BY <1>1 DEF Elements
<1>4. Elements(r) \subseteq Elements(s) \ {s[Len(s)]}
  BY <1>1 DEF Elements, Different
<1>5. Elements(s) \ {s[Len(s)]} \subseteq Elements(r)
  <2>1. ASSUME NEW i \in DOMAIN s, s[i] # s[Len(s)] PROVE s[i] \in Elements(r)
    <3>1. i # Len(s) /\ i \in 1 .. Len(s)
      BY <1>1, <2>1
    <3>2. i \in 1 .. Len(s) - 1
      BY <1>1, <3>1
    <3>3. i \in DOMAIN r /\ r[i] = s[i]
      BY <1>1, <3>2
    <3>4. QED
      BY <3>3 DEF Elements
  <2>2. QED
    BY <2>1 DEF Elements
<1>6. QED
  BY <1>2, <1>3, <1>4, <1>5

\* An element is put on the stack.
LEMMA Pushed ==
    ASSUME NEW T, NEW s \in Seq(T), NEW e \in T, Different(s), e \notin Elements(s),
           NEW r, r = Append(s, e)
    PROVE  Elements(r) = Elements(s) \cup {e} /\ Different(r)
<1>1. /\ Len(s) \in Nat /\ DOMAIN s = 1 .. Len(s)
      /\ DOMAIN r = 1 .. Len(s) + 1 /\ \A i \in 1 .. Len(s) : r[i] = s[i]
      /\ r[Len(s) + 1] = e
  OBVIOUS
<1>2. Different(r)
  BY <1>1 DEF Different, Elements
<1>3. Elements(r) \subseteq Elements(s) \cup {e}
  BY <1>1 DEF Elements
<1>4. Elements(s) \cup {e} \subseteq Elements(r)
  BY <1>1 DEF Elements
<1>5. QED
  BY <1>2, <1>3, <1>4

\* The first reader and the others.
LEMMA FirstReader ==
    ASSUME NEW T, NEW s \in Seq(SUBSET T), s # <<>>, Apart(s)
    PROVE  /\ Unread(s) = Head(s) \cup Unread(Tail(s))
           /\ Head(s) \cap Unread(Tail(s)) = {}
           /\ Apart(Tail(s)) /\ Tail(s) \in Seq(SUBSET T) /\ Head(s) \in SUBSET T
<1>1. /\ Len(s) \in Nat \ {0} /\ DOMAIN s = 1 .. Len(s) /\ Head(s) = s[1]
      /\ Tail(s) \in Seq(SUBSET T) /\ Head(s) \in SUBSET T
      /\ DOMAIN Tail(s) = 1 .. Len(s) - 1
      /\ \A i \in 1 .. Len(s) - 1 : Tail(s)[i] = s[i + 1]
  OBVIOUS
<1>2. Apart(Tail(s))
  BY <1>1 DEF Apart
<1>3. Head(s) \cap Unread(Tail(s)) = {}
  BY <1>1 DEF Unread, Elements, Apart
<1>4. Unread(s) \subseteq Head(s) \cup Unread(Tail(s))
  <2>1. ASSUME NEW i \in DOMAIN s PROVE s[i] \subseteq Head(s) \cup Unread(Tail(s))
    <3>1. CASE i = 1
      BY <1>1, <3>1
    <3>2. CASE i # 1
      <4>1. i - 1 \in 1 .. Len(s) - 1 /\ Tail(s)[i - 1] = s[i]
        BY <1>1, <3>2
      <4>2. QED
        BY <1>1, <4>1 DEF Unread, Elements
    <3>3. QED
      BY <3>1, <3>2
  <2>2. QED
    BY <2>1 DEF Unread, Elements
<1>5. Head(s) \cup Unread(Tail(s)) \subseteq Unread(s)
  <2>1. Head(s) \subseteq Unread(s)
    BY <1>1 DEF Unread, Elements
  <2>2. ASSUME NEW i \in DOMAIN Tail(s) PROVE Tail(s)[i] \subseteq Unread(s)
    <3>1. i + 1 \in DOMAIN s /\ Tail(s)[i] = s[i + 1]
      BY <1>1
    <3>2. QED
      BY <3>1 DEF Unread, Elements
  <2>3. Unread(Tail(s)) \subseteq Unread(s)
    BY <2>2 DEF Unread, Elements
  <2>4. QED
    BY <2>1, <2>3
<1>6. QED
  BY <1>1, <1>2, <1>3, <1>4, <1>5

\* One more reader in front.
LEMMA NewReader ==
    ASSUME NEW T, NEW s \in Seq(SUBSET T), NEW S \in SUBSET T, Apart(s),
           S \cap Unread(s) = {}, NEW r, r = <<S>> \o s
    PROVE  Unread(r) = S \cup Unread(s) /\ Apart(r)
<1>1. /\ Len(s) \in Nat /\ DOMAIN s = 1 .. Len(s)
      /\ DOMAIN r = 1 .. Len(s) + 1 /\ r[1] = S
      /\ \A i \in 1 .. Len(s) : r[i + 1] = s[i]
  OBVIOUS
<1>2. \A i \in DOMAIN r : i # 1 => i - 1 \in DOMAIN s /\ r[i] = s[i - 1]
  <2>1. ASSUME NEW i \in DOMAIN r, i # 1 PROVE i - 1 \in DOMAIN s /\ r[i] = s[i - 1]
    <3>1. i - 1 \in 1 .. Len(s) /\ (i - 1) + 1 = i
      BY <1>1, <2>1
    <3>2. r[(i - 1) + 1] = s[i - 1]
      BY <1>1, <3>1
    <3>3. QED
      BY <1>1, <3>1, <3>2
  <2>2. QED
    BY <2>1
<1>3. \A i \in DOMAIN s : S \cap s[i] = {}
  BY DEF Unread, Elements
<1>4. Apart(r)
  <2>1. ASSUME NEW i \in DOMAIN r, NEW j \in DOMAIN r, i # j PROVE r[i] \cap r[j] = {}
    <3>1. CASE i = 1
      BY <1>1, <1>2, <1>3, <2>1, <3>1
    <3>2. CASE j = 1
      BY <1>1, <1>2, <1>3, <2>1, <3>2
    <3>3. CASE i # 1 /\ j # 1
      <4>1. i \in Int /\ j \in Int /\ i - 1 # j - 1
        BY <1>1, <2>1
      <4>2. QED
        BY <1>2, <3>3, <4>1 DEF Apart
    <3>4. QED
      BY <3>1, <3>2, <3>3
  <2>2. QED
    BY <2>1 DEF Apart
<1>5. Unread(r) \subseteq S \cup Unread(s)
  <2>1. ASSUME NEW i \in DOMAIN r PROVE r[i] \subseteq S \cup Unread(s)
    BY <1>1, <1>2 DEF Unread, Elements
  <2>2. QED
    BY <2>1 DEF Unread, Elements
<1>6. S \cup Unread(s) \subseteq Unread(r)
  <2>1. S \subseteq Unread(r)
    BY <1>1 DEF Unread, Elements
  <2>2. ASSUME NEW i \in DOMAIN s PROVE s[i] \subseteq Unread(r)
    <3>1. i + 1 \in DOMAIN r /\ r[i + 1] = s[i]
      BY <1>1
    <3>2. QED
      BY <3>1 DEF Unread, Elements
  <2>3. Unread(s) \subseteq Unread(r)
    BY <2>2 DEF Unread, Elements
  <2>4. QED
    BY <2>1, <2>3
<1>7. QED
  BY <1>4, <1>5, <1>6

\* No reader and one reader.
LEMMA FewReaders ==
    /\ Unread(<<>>) = {} /\ Apart(<<>>)
    /\ \A S : Unread(<<S>>) = S /\ Apart(<<S>>)
<1>1. Unread(<<>>) = {} /\ Apart(<<>>)
  BY DEF Unread, Elements, Apart
<1>2. ASSUME NEW S PROVE Unread(<<S>>) = S /\ Apart(<<S>>)
  <2>1. DOMAIN <<S>> = {1} /\ <<S>>[1] = S
    OBVIOUS
  <2>2. Elements(<<S>>) = {S}
    BY <2>1 DEF Elements
  <2>3. QED
    BY <2>1, <2>2 DEF Unread, Apart
<1>3. QED
  BY <1>1, <1>2

-----------------------------------------------------------------------------
(* The invariant: the books that the state of the walk stands for.         *)

Waiting == Elements(pending)

(* The entries in the hands of a walker. *)
InHand(s) ==
    CASE s.pc = "open" -> {s.path}
      [] s.pc \in {"look", "flush"} -> Unread(s.readers)
      [] s.pc = "entry" -> Unread(s.readers) \cup {s.entry}
      [] OTHER -> {}
Hands == [w \in Walker |-> InHand(walker[w])]

Summing == {"look", "entry", "flush", "final"}
Sums(s, S) == IF s.pc \in Summing THEN s.counts = Measure(S) ELSE S = {}

(* The request is current and nothing has failed. *)
Clean == ~superseded /\ ~failed /\ \A w \in Walker : walker[w].error = "none"

Tidy(s) ==
    /\ s.pc \in {"look", "entry", "flush"} => Apart(s.readers)
    /\ s.pc = "entry" => s.entry \notin Unread(s.readers)
    /\ s.error # "none" => s.pc = "return"

BooksAre(done, flushed, own) ==
    /\ Books(done, flushed, own, Waiting, Hands)
    /\ Clean => Complete(done, flushed, own, Waiting, Hands)
    /\ counts = Measure(flushed)
    /\ \A w \in Walker : Sums(walker[w], own[w])

BooksAreKept ==
    \E done, flushed \in SUBSET Entry, own \in [Walker -> SUBSET Entry] :
        BooksAre(done, flushed, own)

TooLarge == Total.bytes > MaxSize

ErrorsAreReal ==
    /\ failed => error # "none"
    /\ error = "overflow" => TooLarge
    /\ \A w \in Walker : walker[w].error = "overflow" => TooLarge

WInv ==
    /\ IInv
    /\ refused \in SUBSET Dir
    /\ Different(pending)
    /\ \A w \in Walker : Tidy(walker[w])
    /\ ErrorsAreReal
    /\ BooksAreKept
    /\ result # "none" => AllGone
    /\ ResultIsTrue

\* What the tree holds does not change during the walk.
LEMMA TreeStays ==
    ASSUME refused' = refused
    PROVE  /\ Found' = Found /\ \A S : Measure(S)' = Measure(S)
           /\ TooLarge' = TooLarge /\ Total' = Total
<1>1. Reached' = Reached
  BY DEF Reached, Closed
<1>2. Found' = Found
  BY <1>1 DEF Found, Listed
<1>3. \A S : Measure(S)' = Measure(S)
  BY DEF Measure
<1>4. Total' = Total
  BY <1>2 DEF Total, Measure
<1>5. QED
  BY <1>2, <1>3, <1>4 DEF TooLarge

\* The books read the same after a step.
LEMMA BooksStay ==
    ASSUME refused' = refused, NEW done, NEW flushed, NEW own,
           Books(done, flushed, own, Waiting', Hands')
    PROVE  /\ Books(done, flushed, own, Waiting, Hands)'
           /\ Complete(done, flushed, own, Waiting', Hands') =>
                Complete(done, flushed, own, Waiting, Hands)'
<1>1. Books(done, flushed, own, Waiting, Hands)'
  BY TreeStays DEF Books, OnlyFound, NothingTwice, Met, Together
<1>2. ASSUME Complete(done, flushed, own, Waiting', Hands')
      PROVE  Complete(done, flushed, own, Waiting, Hands)'
  BY <1>2 DEF Complete, NothingDropped, Met, Together
<1>3. QED
  BY <1>1, <1>2

\* One walker moves: what the walkers have in hand, and whether the walk is clean.
LEMMA HandsMove ==
    ASSUME NEW w \in Walker, NEW s \in Slot, walker \in [Walker -> Slot],
           walker' = [walker EXCEPT ![w] = s]
    PROVE  /\ Hands' = [Hands EXCEPT ![w] = InHand(s)]
           /\ \A v \in Walker : v # w => walker'[v] = walker[v]
           /\ walker'[w] = s
<1>1. \A v \in Walker : walker'[v] = IF v = w THEN s ELSE walker[v]
  BY OneMoves
<1>2. Hands' = [v \in Walker |-> InHand(walker'[v])]
  BY DEF Hands, InHand
<1>3. Hands' = [Hands EXCEPT ![w] = InHand(s)]
  BY <1>1, <1>2 DEF Hands
<1>4. QED
  BY <1>1, <1>3 DEF Hands

\* A step of a walker: its new slot and the new books keep the invariant.
LEMMA WalkerStep ==
    ASSUME WInv, IInv', NEW w \in Walker, NEW s, ~At(w, "gone"),
           walker' = [walker EXCEPT ![w] = s],
           UNCHANGED <<superseded, watching, progress, result, refused>>,
           Different(pending)', Tidy(s),
           failed' => error' # "none",
           error' = "overflow" => TooLarge, s.error = "overflow" => TooLarge,
           NEW done, NEW flushed, NEW own,
           NEW flushed2, NEW own2, NEW done2,
           BooksAre(done, flushed, own),
           Books(done2, flushed2, own2, Waiting', [Hands EXCEPT ![w] = InHand(s)]),
           Clean' => Complete(done2, flushed2, own2, Waiting',
                              [Hands EXCEPT ![w] = InHand(s)]),
           counts' = Measure(flushed2),
           \A v \in Walker : v # w => own2[v] = own[v],
           Sums(s, own2[w])
    PROVE  WInv'
<1>0. walker \in [Walker -> Slot] /\ s \in Slot
  <2>1. walker \in [Walker -> Slot] /\ walker' \in [Walker -> Slot]
    BY DEF WInv, IInv, TypeOK
  <2>2. walker'[w] = s
    BY <2>1
  <2>3. QED
    BY <2>1, <2>2
<1>1. /\ Hands' = [Hands EXCEPT ![w] = InHand(s)]
      /\ \A v \in Walker : v # w => walker'[v] = walker[v]
      /\ walker'[w] = s
  BY <1>0, HandsMove
<1>2. /\ Books(done2, flushed2, own2, Waiting, Hands)'
      /\ Clean' => Complete(done2, flushed2, own2, Waiting, Hands)'
  <2>1. /\ Books(done2, flushed2, own2, Waiting', Hands')
        /\ Clean' => Complete(done2, flushed2, own2, Waiting', Hands')
    BY <1>1
  <2>2. QED
    BY <2>1, BooksStay
<1>3. \A v \in Walker : Sums(walker[v], own2[v])'
  <2>1. ASSUME NEW v \in Walker PROVE Sums(walker'[v], own2[v])
    <3>1. CASE v = w
      BY <1>1, <3>1
    <3>2. CASE v # w
      <4>1. Sums(walker[v], own[v])
        BY DEF BooksAre
      <4>2. QED
        BY <1>1, <3>2, <4>1
    <3>3. QED
      BY <3>1, <3>2
  <2>2. \A v \in Walker : Sums(walker[v], own2[v])' = Sums(walker'[v], own2[v])
    BY TreeStays DEF Sums
  <2>3. QED
    BY <2>1, <2>2
<1>4. BooksAreKept'
  <2>1. (counts = Measure(flushed2))'
    BY TreeStays
  <2>2. BooksAre(done2, flushed2, own2)'
    BY <1>2, <1>3, <2>1 DEF BooksAre
  <2>3. /\ done2 \in SUBSET Entry /\ flushed2 \in SUBSET Entry
        /\ own2 \in [Walker -> SUBSET Entry]
    BY <1>2 DEF Books
  <2>4. QED
    BY <2>2, <2>3 DEF BooksAreKept
<1>5. \A v \in Walker : Tidy(walker[v])'
  <2>1. \A v \in Walker : Tidy(walker[v])' = Tidy(walker'[v])
    BY DEF Tidy
  <2>2. QED
    BY <1>1, <2>1 DEF WInv
<1>6. ErrorsAreReal'
  BY <1>1, TreeStays DEF WInv, ErrorsAreReal
<1>7. result = "none" /\ result' = "none"
  BY DEF WInv, AllGone
<1>8. ResultIsTrue'
  BY <1>7 DEF ResultIsTrue, MeasuredIsExact, OverflowIsReal
<1>9. QED
  BY <1>4, <1>5, <1>6, <1>7, <1>8 DEF WInv

\* One more file is counted.
LEMMA OneMoreFile ==
    ASSUME NEW S \in SUBSET Entry, NEW e \in File, e \notin S, refused \in SUBSET Dir
    PROVE  Measure(S \cup {e})
             = [Measure(S) EXCEPT !.files = @ + 1, !.bytes = @ + Size[e]]
<1> DEFINE c == Measure(S)
<1>1. Measure(S \cup {e}) = Plus(c, Measure({e}))
  <2>1. {e} \in SUBSET Entry /\ S \cap {e} = {}
    BY DEF Entry
  <2>2. QED
    BY <2>1, MeasureAdds
<1>2. c \in [bytes : Nat, files : Nat, directories : Nat, skipped : Nat]
  BY MeasureType
<1> HIDE DEF c
<1>3. PICK b, f, d, k \in Nat :
        c = [bytes |-> b, files |-> f, directories |-> d, skipped |-> k]
  BY <1>2
<1>4. Measure({e}) = [bytes |-> Size[e], files |-> 1, directories |-> 0, skipped |-> 0]
  BY MeasureOfFile
<1>5. Measure(S \cup {e})
        = [bytes |-> b + Size[e], files |-> f + 1, directories |-> d, skipped |-> k]
  <2>1. Size[e] \in Nat
    BY WalkAssumption
  <2>2. QED
    BY <1>1, <1>3, <1>4, <2>1 DEF Plus
<1>6. [c EXCEPT !.files = @ + 1, !.bytes = @ + Size[e]]
        = [bytes |-> b + Size[e], files |-> f + 1, directories |-> d, skipped |-> k]
  <2> DEFINE c1 == [c EXCEPT !.files = @ + 1]
  <2>1. c1 = [bytes |-> b, files |-> f + 1, directories |-> d, skipped |-> k]
    BY <1>3
  <2>2. [c EXCEPT !.files = @ + 1, !.bytes = @ + Size[e]] = [c1 EXCEPT !.bytes = b + Size[e]]
    BY <1>3
  <2> HIDE DEF c1
  <2>3. [c1 EXCEPT !.bytes = b + Size[e]]
          = [bytes |-> b + Size[e], files |-> f + 1, directories |-> d, skipped |-> k]
    BY <2>1
  <2>4. QED
    BY <2>2, <2>3
<1>7. QED
  BY <1>5, <1>6 DEF c

\* One more entry that is neither a file nor a directory is skipped.
LEMMA OneMoreOdd ==
    ASSUME NEW S \in SUBSET Entry, NEW e \in Odd, e \notin S, refused \in SUBSET Dir
    PROVE  Measure(S \cup {e}) = [Measure(S) EXCEPT !.skipped = @ + 1]
<1> DEFINE c == Measure(S)
<1>1. Measure(S \cup {e}) = Plus(c, Measure({e}))
  <2>1. {e} \in SUBSET Entry /\ S \cap {e} = {}
    BY DEF Entry
  <2>2. QED
    BY <2>1, MeasureAdds
<1>2. c \in [bytes : Nat, files : Nat, directories : Nat, skipped : Nat]
  BY MeasureType
<1> HIDE DEF c
<1>3. PICK b, f, d, k \in Nat :
        c = [bytes |-> b, files |-> f, directories |-> d, skipped |-> k]
  BY <1>2
<1>4. Measure({e}) = [bytes |-> 0, files |-> 0, directories |-> 0, skipped |-> 1]
  BY MeasureOfOdd
<1>5. Measure(S \cup {e})
        = [bytes |-> b, files |-> f, directories |-> d, skipped |-> k + 1]
  BY <1>1, <1>3, <1>4 DEF Plus
<1>6. [c EXCEPT !.skipped = @ + 1]
        = [bytes |-> b, files |-> f, directories |-> d, skipped |-> k + 1]
  BY <1>3
<1>7. QED
  BY <1>5, <1>6 DEF c

\* One more directory is counted, its contents still to be read.
LEMMA OneMoreDirectory ==
    ASSUME NEW S \in SUBSET Entry, NEW e \in Dir, e \notin S, refused \in SUBSET Dir,
           e \notin refused
    PROVE  Measure(S \cup {e}) = [Measure(S) EXCEPT !.directories = @ + 1]
<1> DEFINE c == Measure(S)
<1>1. Measure(S \cup {e}) = Plus(c, Measure({e}))
  <2>1. {e} \in SUBSET Entry /\ S \cap {e} = {}
    BY DEF Entry
  <2>2. QED
    BY <2>1, MeasureAdds
<1>2. c \in [bytes : Nat, files : Nat, directories : Nat, skipped : Nat]
  BY MeasureType
<1> HIDE DEF c
<1>3. PICK b, f, d, k \in Nat :
        c = [bytes |-> b, files |-> f, directories |-> d, skipped |-> k]
  BY <1>2
<1>4. Measure({e}) = [bytes |-> 0, files |-> 0, directories |-> 1, skipped |-> 0]
  BY MeasureOfDirectory
<1>5. Measure(S \cup {e})
        = [bytes |-> b, files |-> f, directories |-> d + 1, skipped |-> k]
  BY <1>1, <1>3, <1>4 DEF Plus
<1>6. [c EXCEPT !.directories = @ + 1]
        = [bytes |-> b, files |-> f, directories |-> d + 1, skipped |-> k]
  BY <1>3
<1>7. QED
  BY <1>5, <1>6 DEF c

\* One more directory that refused to be read is counted and skipped.
LEMMA OneMoreRefusal ==
    ASSUME NEW S \in SUBSET Entry, NEW e \in Dir, e \notin S, refused \in SUBSET Dir,
           e \in refused
    PROVE  Measure(S \cup {e})
             = [Measure(S) EXCEPT !.directories = @ + 1, !.skipped = @ + 1]
<1> DEFINE c == Measure(S)
<1>1. Measure(S \cup {e}) = Plus(c, Measure({e}))
  <2>1. {e} \in SUBSET Entry /\ S \cap {e} = {}
    BY DEF Entry
  <2>2. QED
    BY <2>1, MeasureAdds
<1>2. c \in [bytes : Nat, files : Nat, directories : Nat, skipped : Nat]
  BY MeasureType
<1> HIDE DEF c
<1>3. PICK b, f, d, k \in Nat :
        c = [bytes |-> b, files |-> f, directories |-> d, skipped |-> k]
  BY <1>2
<1>4. Measure({e}) = [bytes |-> 0, files |-> 0, directories |-> 1, skipped |-> 1]
  BY MeasureOfDirectory
<1>5. Measure(S \cup {e})
        = [bytes |-> b, files |-> f, directories |-> d + 1, skipped |-> k + 1]
  BY <1>1, <1>3, <1>4 DEF Plus
<1>6. [c EXCEPT !.directories = @ + 1, !.skipped = @ + 1]
        = [bytes |-> b, files |-> f, directories |-> d + 1, skipped |-> k + 1]
  <2> DEFINE c1 == [c EXCEPT !.directories = @ + 1]
  <2>1. c1 = [bytes |-> b, files |-> f, directories |-> d + 1, skipped |-> k]
    BY <1>3
  <2>2. [c EXCEPT !.directories = @ + 1, !.skipped = @ + 1] = [c1 EXCEPT !.skipped = k + 1]
    BY <1>3
  <2> HIDE DEF c1
  <2>3. [c1 EXCEPT !.skipped = k + 1]
          = [bytes |-> b, files |-> f, directories |-> d + 1, skipped |-> k + 1]
    BY <2>1
  <2>4. QED
    BY <2>2, <2>3
<1>7. QED
  BY <1>5, <1>6 DEF c

\* After a step that hides no failure a clean walk was clean before.
LEMMA CleanBefore ==
    ASSUME NEW w \in Walker, NEW s, walker \in [Walker -> Slot],
           walker' = [walker EXCEPT ![w] = s], superseded' = superseded,
           failed => failed', walker[w].error = "none" \/ failed'
    PROVE  /\ Clean' => Clean
           /\ s.error # "none" => ~Clean'
<1>1. walker'[w] = s /\ \A v \in Walker : v # w => walker'[v] = walker[v]
  OBVIOUS
<1>2. QED
  BY <1>1 DEF Clean

\* What is known of a walker before it moves.
LEMMA BeforeTheStep ==
    ASSUME WInv, NEW w \in Walker
    PROVE  /\ walker \in [Walker -> Slot] /\ walker[w] \in Slot /\ Tidy(walker[w])
           /\ walker[w].pc # "return" => walker[w].error = "none"
           /\ Hands[w] = InHand(walker[w])
           /\ failed => error # "none"
           /\ error = "overflow" => TooLarge
           /\ walker[w].error = "overflow" => TooLarge
           /\ Different(pending) /\ refused \in SUBSET Dir
           /\ pending \in Seq(Dir) /\ Waiting \in SUBSET Dir
           /\ walker[w].path \in Dir /\ walker[w].entry \in Entry
           /\ walker[w].readers \in Seq(SUBSET Entry)
<1>1. /\ walker \in [Walker -> Slot] /\ walker[w] \in Slot /\ Tidy(walker[w])
      /\ pending \in Seq(Dir) /\ Different(pending) /\ refused \in SUBSET Dir
  BY DEF WInv, IInv, TypeOK
<1>2. Waiting \in SUBSET Dir
  BY <1>1 DEF Waiting, Elements
<1>3. /\ walker[w].path \in Dir /\ walker[w].entry \in Entry
      /\ walker[w].readers \in Seq(SUBSET Entry)
  BY <1>1 DEF Slot
<1>4. QED
  BY <1>1, <1>2, <1>3 DEF WInv, Tidy, Hands, ErrorsAreReal

\* An entry changes hands, or is dropped at the end of the walk: nothing is summed up.
LEMMA MoveKeeps ==
    ASSUME WInv, IInv', NEW w \in Walker, NEW s,
           walker' = [walker EXCEPT ![w] = s], walker[w].pc \notin {"return", "gone"},
           UNCHANGED <<superseded, watching, progress, result, refused, failed, error, counts>>,
           Different(pending)', Tidy(s), s.error = "none",
           Waiting' \cup InHand(s) \subseteq Waiting \cup InHand(walker[w]),
           Waiting' \cap InHand(s) = {},
           Clean' => Waiting' \cup InHand(s) = Waiting \cup InHand(walker[w]),
           \A S : Sums(walker[w], S) => Sums(s, S)
    PROVE  WInv'
<1>1. PICK done, flushed \in SUBSET Entry, own \in [Walker -> SUBSET Entry] :
        BooksAre(done, flushed, own)
  BY DEF WInv, BooksAreKept
<1>2. /\ walker \in [Walker -> Slot] /\ walker[w].error = "none"
      /\ Hands[w] = InHand(walker[w])
  BY BeforeTheStep
<1>3. Clean' => Clean
  BY <1>2, CleanBefore
<1>4. Waiting' \in SUBSET Dir
  BY DEF Waiting, Elements, IInv, TypeOK
<1>5. /\ Books(done, flushed, own, Waiting', [Hands EXCEPT ![w] = InHand(s)])
      /\ Clean' => Complete(done, flushed, own, Waiting', [Hands EXCEPT ![w] = InHand(s)])
  <2> DEFINE waiting2 == Waiting'
             h == InHand(s)
  <2>1. /\ Books(done, flushed, own, Waiting, Hands)
        /\ Clean => Complete(done, flushed, own, Waiting, Hands)
        /\ waiting2 \in SUBSET Dir
        /\ waiting2 \cup h \subseteq Waiting \cup Hands[w] /\ waiting2 \cap h = {}
        /\ Clean' => waiting2 \cup h = Waiting \cup Hands[w]
    BY <1>1, <1>2, <1>4 DEF BooksAre
  <2> HIDE DEF waiting2, h
  <2>2. /\ Books(done, flushed, own, waiting2, [Hands EXCEPT ![w] = h])
        /\ waiting2 \cup h = Waiting \cup Hands[w]
             /\ Complete(done, flushed, own, Waiting, Hands)
           => Complete(done, flushed, own, waiting2, [Hands EXCEPT ![w] = h])
    BY <2>1, BookMove
  <2>3. QED
    BY <1>3, <2>1, <2>2 DEF waiting2, h
<1>6. Sums(s, own[w]) /\ counts' = Measure(flushed)
  BY <1>1 DEF BooksAre
<1>7. ~At(w, "gone") /\ (failed' => error' # "none") /\ (error' = "overflow" => TooLarge)
       /\ (s.error = "overflow" => TooLarge)
  BY BeforeTheStep DEF At
<1>8. QED
  BY <1>1, <1>5, <1>6, <1>7, WalkerStep

\* What the walkers have in hand is in no other place, and what they find in a
\* directory is new.
LEMMA PlacesApart ==
    ASSUME WInv, NEW w \in Walker
    PROVE  /\ InHand(walker[w]) \cap Waiting = {}
           /\ \A d \in InHand(walker[w]) \cap Dir : Contents[d] \cap InHand(walker[w]) = {}
<1>1. PICK done, flushed \in SUBSET Entry, own \in [Walker -> SUBSET Entry] :
        BooksAre(done, flushed, own)
  BY DEF WInv, BooksAreKept
<1>2. Hands[w] = InHand(walker[w])
  BY DEF Hands
<1>3. InHand(walker[w]) \cap (done \cup Waiting) = {}
  BY <1>1, <1>2 DEF BooksAre, Books, NothingTwice
<1>4. InHand(walker[w]) \subseteq Met(done, Waiting, Hands)
  BY <1>2 DEF Met, Together
<1>5. \A d \in Dir \ done : Contents[d] \cap Met(done, Waiting, Hands) = {}
  BY <1>1 DEF BooksAre, Books, OnlyFound
<1>6. QED
  BY <1>3, <1>4, <1>5

\* A directory goes from the stack into the hands of the walker.
LEMMA TakeKeeps ==
    ASSUME WInv, IInv', NEW w \in Walker, TakeDirectory(w)
    PROVE  WInv'
<1> DEFINE me == walker[w]
           d == pending[Len(pending)]
           s == [me EXCEPT !.path = d, !.pc = "open"]
<1>2. /\ walker \in [Walker -> Slot] /\ me \in Slot /\ me.error = "none" /\ me.pc = "take"
      /\ InHand(me) = {}
  BY BeforeTheStep DEF TakeDirectory, At, InHand
<1>3. s.pc = "open" /\ s.path = d /\ s.error = "none"
  BY <1>2 DEF Slot
<1>4. walker' = [walker EXCEPT ![w] = s]
  BY <1>2 DEF TakeDirectory
<1>5. Waiting' = Waiting \ {d} /\ Different(pending)' /\ d \in Waiting
  <2>1. /\ Elements(pending') = Elements(pending) \ {d} /\ Different(pending')
        /\ d \in Elements(pending)
    BY BeforeTheStep, Popped DEF TakeDirectory
  <2>2. QED
    BY <2>1 DEF Waiting, Elements, Different
<1> HIDE DEF s, d
<1>6. InHand(s) = {d} /\ Tidy(s) /\ \A S : Sums(me, S) => Sums(s, S)
  BY <1>2, <1>3 DEF InHand, Tidy, Sums, Summing
<1>7. UNCHANGED <<superseded, watching, progress, result, refused, failed, error, counts>>
  BY DEF TakeDirectory
<1>8. QED
  BY <1>2, <1>3, <1>4, <1>5, <1>6, <1>7, MoveKeeps

\* A walker that goes has nothing in hand.
LEMMA LeaveKeeps ==
    ASSUME WInv, IInv', NEW w \in Walker, Leave(w)
    PROVE  WInv'
<1> DEFINE me == walker[w]
           s == [me EXCEPT !.pc = "gone"]
<1>2. /\ walker \in [Walker -> Slot] /\ me \in Slot /\ me.error = "none" /\ me.pc = "take"
      /\ InHand(me) = {}
  BY BeforeTheStep DEF Leave, At, InHand
<1>3. s.pc = "gone" /\ s.error = "none"
  BY <1>2 DEF Slot
<1>4. walker' = [walker EXCEPT ![w] = s]
  BY <1>2 DEF Leave, Goes
<1>5. UNCHANGED <<superseded, watching, progress, result, refused, failed, error, counts,
                  pending>>
  BY DEF Leave, shared
<1>6. Waiting' = Waiting /\ Different(pending)'
  BY <1>5, BeforeTheStep DEF Waiting, Elements, Different
<1> HIDE DEF s
<1>7. InHand(s) = {} /\ Tidy(s) /\ \A S : Sums(me, S) => Sums(s, S)
  BY <1>2, <1>3 DEF InHand, Tidy, Sums, Summing
<1>8. QED
  BY <1>2, <1>3, <1>4, <1>5, <1>6, <1>7, MoveKeeps

\* The steps through the open directories.
LEMMA ReadersKeep ==
    ASSUME WInv, IInv', NEW w \in Walker,
           (\E e \in Entry : NextEntry(w, e)) \/ EndOfDirectory(w) \/ EndOfSubtree(w)
    PROVE  WInv'
<1> DEFINE me == walker[w]
           all == Unread(me.readers)
<1>1. /\ walker \in [Walker -> Slot] /\ me \in Slot /\ me.error = "none" /\ me.pc = "look"
      /\ InHand(me) = all /\ me.readers \in Seq(SUBSET Entry) /\ Apart(me.readers)
  BY BeforeTheStep DEF NextEntry, EndOfDirectory, EndOfSubtree, At, InHand, Tidy
<1>2. UNCHANGED <<superseded, watching, progress, result, refused, failed, error, counts,
                  pending>>
  BY DEF NextEntry, EndOfDirectory, EndOfSubtree, shared
<1>3. Waiting' = Waiting /\ Different(pending)' /\ Waiting \cap all = {}
  BY <1>1, <1>2, BeforeTheStep, PlacesApart DEF Waiting, Elements, Different
<1>4. ASSUME NEW e \in Entry, NextEntry(w, e) PROVE WInv'
  <2> DEFINE s == [me EXCEPT !.readers = Rest(w, e), !.entry = e, !.pc = "entry"]
  <2>1. s.pc = "entry" /\ s.error = "none" /\ s.entry = e /\ s.readers = Rest(w, e)
        /\ s.counts = me.counts
    BY <1>1 DEF Slot
  <2>2. walker' = [walker EXCEPT ![w] = s]
    BY <1>1, <1>4 DEF NextEntry
  <2> HIDE DEF s
  <2>3. all = {e} \cup Unread(Rest(w, e)) /\ Apart(Rest(w, e)) /\ e \notin Unread(Rest(w, e))
    <3> DEFINE first == Head(me.readers)
               others == Tail(me.readers)
    <3>1. me.readers # <<>> /\ e \in first
      BY <1>4 DEF NextEntry, Readers, Reader
    <3>2. /\ all = first \cup Unread(others) /\ first \cap Unread(others) = {}
          /\ Apart(others) /\ others \in Seq(SUBSET Entry) /\ first \in SUBSET Entry
      <4> DEFINE rs == me.readers
      <4>1. rs \in Seq(SUBSET Entry) /\ rs # <<>> /\ Apart(rs)
        BY <1>1, <3>1
      <4> HIDE DEF rs
      <4>2. /\ Unread(rs) = Head(rs) \cup Unread(Tail(rs)) /\ Head(rs) \cap Unread(Tail(rs)) = {}
            /\ Apart(Tail(rs)) /\ Tail(rs) \in Seq(SUBSET Entry) /\ Head(rs) \in SUBSET Entry
        BY <4>1, FirstReader
      <4>3. QED
        BY <4>2 DEF rs
    <3>3. Rest(w, e) = <<first \ {e}>> \o others
      BY DEF Rest, Reader, Readers
    <3> HIDE DEF first, others, all
    <3>4. first \ {e} \in SUBSET Entry /\ (first \ {e}) \cap Unread(others) = {}
      BY <3>2
    <3>5. Unread(Rest(w, e)) = (first \ {e}) \cup Unread(others) /\ Apart(Rest(w, e))
      BY <3>2, <3>3, <3>4, NewReader
    <3>6. QED
      BY <3>1, <3>2, <3>5
  <2>4. InHand(s) = all /\ Tidy(s) /\ \A S : Sums(me, S) => Sums(s, S)
    BY <1>1, <2>1, <2>3 DEF InHand, Tidy, Sums, Summing
  <2> HIDE DEF all
  <2>5. QED
    BY <1>1, <1>2, <1>3, <2>1, <2>2, <2>4, MoveKeeps
<1>5. CASE EndOfDirectory(w)
  <2> DEFINE s == [me EXCEPT !.readers = Tail(@)]
  <2>1. s.pc = "look" /\ s.error = "none" /\ s.readers = Tail(me.readers)
        /\ s.counts = me.counts
    BY <1>1 DEF Slot
  <2>2. walker' = [walker EXCEPT ![w] = s]
    BY <1>1, <1>5 DEF EndOfDirectory
  <2> HIDE DEF s
  <2>3. all = Unread(Tail(me.readers)) /\ Apart(Tail(me.readers))
    <3>1. me.readers # <<>> /\ Head(me.readers) = {}
      BY <1>5 DEF EndOfDirectory, Readers, Reader
    <3>2. all = Head(me.readers) \cup Unread(Tail(me.readers)) /\ Apart(Tail(me.readers))
      BY <1>1, <3>1, FirstReader
    <3>3. QED
      BY <3>1, <3>2
  <2>4. InHand(s) = all /\ Tidy(s) /\ \A S : Sums(me, S) => Sums(s, S)
    BY <1>1, <2>1, <2>3 DEF InHand, Tidy, Sums, Summing
  <2> HIDE DEF all
  <2>5. QED
    BY <1>1, <1>2, <1>3, <2>1, <2>2, <2>4, MoveKeeps
<1>6. CASE EndOfSubtree(w)
  <2> DEFINE s == [me EXCEPT !.pc = "final"]
  <2>1. s.pc = "final" /\ s.error = "none" /\ s.counts = me.counts
    BY <1>1 DEF Slot
  <2>2. walker' = [walker EXCEPT ![w] = s]
    BY <1>1, <1>6 DEF EndOfSubtree, Goes
  <2> HIDE DEF s
  <2>3. Clean' => all = {}
    <3>1. CASE IsCancelled
      BY <1>2, <3>1 DEF IsCancelled, Clean
    <3>2. CASE me.readers = <<>>
      BY <3>2, FewReaders
    <3>3. QED
      BY <1>6, <3>1, <3>2 DEF EndOfSubtree, Readers
  <2>4. InHand(s) = {} /\ Tidy(s) /\ \A S : Sums(me, S) => Sums(s, S)
    BY <1>1, <2>1 DEF InHand, Tidy, Sums, Summing
  <2> HIDE DEF all
  <2>5. /\ Waiting' \cup InHand(s) \subseteq Waiting \cup InHand(me)
        /\ Waiting' \cap InHand(s) = {}
        /\ Clean' => Waiting' \cup InHand(s) = Waiting \cup InHand(me)
    BY <1>1, <1>3, <2>3, <2>4
  <2>6. QED
    BY <1>1, <1>2, <1>3, <2>1, <2>2, <2>4, <2>5, MoveKeeps
<1>7. QED
  BY <1>4, <1>5, <1>6

\* A directory goes from the hands of the walker onto the stack.
LEMMA ShareKeeps ==
    ASSUME WInv, IInv', NEW w \in Walker, ShareDirectory(w)
    PROVE  WInv'
<1> DEFINE me == walker[w]
           e == me.entry
           s == Counted(w)
<1>1. /\ walker \in [Walker -> Slot] /\ me \in Slot /\ me.error = "none" /\ me.pc = "entry"
      /\ InHand(me) = Unread(me.readers) \cup {e} /\ e \in Dir
      /\ Apart(me.readers) /\ e \notin Unread(me.readers)
      /\ TypeOK /\ BatchBelow
  BY BeforeTheStep DEF ShareDirectory, EntryIs, At, InHand, Tidy, WInv, IInv
<1>2. /\ s.pc \in {"look", "flush"} /\ s.counts = me.counts /\ s.readers = me.readers
      /\ s.error = "none"
  BY <1>1, CountedType DEF At
<1>3. walker' = [walker EXCEPT ![w] = s]
  BY DEF ShareDirectory
<1>4. UNCHANGED <<superseded, watching, progress, result, refused, failed, error, counts>>
  BY DEF ShareDirectory
<1>5. Waiting \cap InHand(me) = {}
  BY PlacesApart
<1>6. Waiting' = Waiting \cup {e} /\ Different(pending)'
  <2>1. e \notin Elements(pending)
    BY <1>1, <1>5 DEF Waiting
  <2>2. Elements(pending') = Elements(pending) \cup {e} /\ Different(pending')
    <3> DEFINE r == pending'
    <3>1. pending \in Seq(Dir) /\ Different(pending) /\ r = Append(pending, e) /\ e \in Dir
      BY <1>1, BeforeTheStep DEF ShareDirectory
    <3> HIDE DEF e, r
    <3>2. Elements(r) = Elements(pending) \cup {e} /\ Different(r)
      BY <2>1, <3>1, Pushed
    <3>3. QED
      BY <3>2 DEF r
  <2>3. QED
    BY <2>2 DEF Waiting, Elements, Different
<1> HIDE DEF s
<1>7. InHand(s) = Unread(me.readers) /\ Tidy(s) /\ \A S : Sums(me, S) => Sums(s, S)
  BY <1>1, <1>2 DEF InHand, Tidy, Sums, Summing
<1>8. /\ Waiting' \cup InHand(s) = Waiting \cup InHand(me)
      /\ Waiting' \cap InHand(s) = {}
  BY <1>1, <1>5, <1>6, <1>7
<1>9. QED
  BY <1>1, <1>2, <1>3, <1>4, <1>6, <1>7, <1>8, MoveKeeps

(* The slot of a walker that has counted an entry in its hands. *)
HasCounted(w, e, s) ==
    /\ walker[w].pc \notin {"return", "gone"} /\ e \in InHand(walker[w])
    /\ Tidy(s) /\ s.error = "none" /\ s.pc \in Summing
    /\ InHand(s) = (InHand(walker[w]) \ {e}) \cup
                     (IF e \in Dir /\ e \notin refused THEN Contents[e] ELSE {})
    /\ \A S \in SUBSET Entry :
           e \notin S /\ Sums(walker[w], S) => s.counts = Measure(S \cup {e})

\* An entry in hand is counted by the walker.
LEMMA CountKeeps ==
    ASSUME WInv, IInv', NEW w \in Walker, NEW e, NEW s, HasCounted(w, e, s),
           walker' = [walker EXCEPT ![w] = s],
           UNCHANGED <<superseded, watching, progress, result, refused, failed, error, counts,
                       pending>>
    PROVE  WInv'
<1>0. /\ walker[w].pc \notin {"return", "gone"} /\ e \in InHand(walker[w])
      /\ Tidy(s) /\ s.error = "none" /\ s.pc \in Summing
      /\ InHand(s) = (InHand(walker[w]) \ {e}) \cup
                       (IF e \in Dir /\ e \notin refused THEN Contents[e] ELSE {})
      /\ \A S \in SUBSET Entry :
             e \notin S /\ Sums(walker[w], S) => s.counts = Measure(S \cup {e})
  BY DEF HasCounted
<1>1. PICK done, flushed \in SUBSET Entry, own \in [Walker -> SUBSET Entry] :
        BooksAre(done, flushed, own)
  BY DEF WInv, BooksAreKept
<1>2. /\ walker \in [Walker -> Slot] /\ walker[w].error = "none"
      /\ Hands[w] = InHand(walker[w]) /\ refused \in SUBSET Dir
  BY <1>0, BeforeTheStep
<1>3. Clean' => Clean
  BY <1>2, CleanBefore
<1>4. Waiting' = Waiting /\ Different(pending)'
  BY BeforeTheStep DEF Waiting, Elements, Different
<1> DEFINE done2 == done \cup {e}
           own2 == [own EXCEPT ![w] = @ \cup {e}]
           h == InHand(s)
           hands2 == [Hands EXCEPT ![w] = h]
<1>5. /\ Books(done2, flushed, own2, Waiting, hands2)
      /\ Complete(done, flushed, own, Waiting, Hands) =>
           Complete(done2, flushed, own2, Waiting, hands2)
  <2>1. /\ Books(done, flushed, own, Waiting, Hands) /\ e \in Hands[w]
        /\ h = (Hands[w] \ {e}) \cup
                 (IF e \in Dir /\ e \notin refused THEN Contents[e] ELSE {})
    BY <1>0, <1>1, <1>2 DEF BooksAre
  <2> HIDE DEF h
  <2>2. Books(done2, flushed, own2, Waiting, hands2)
    BY <1>2, <2>1, BookCount
  <2>3. Complete(done, flushed, own, Waiting, Hands) =>
          Complete(done2, flushed, own2, Waiting, hands2)
    BY <1>2, <2>1, BookCount
  <2>4. QED
    BY <2>2, <2>3
<1>6. own2[w] = own[w] \cup {e} /\ \A v \in Walker : v # w => own2[v] = own[v]
  OBVIOUS
<1>7. Sums(s, own2[w])
  <2>1. Sums(walker[w], own[w]) /\ own[w] \in SUBSET Entry
    BY <1>1 DEF BooksAre
  <2>2. e \notin own[w]
    BY <1>0, <1>1, <1>2 DEF BooksAre, Books, NothingTwice
  <2>3. s.counts = Measure(own[w] \cup {e})
    BY <1>0, <2>1, <2>2
  <2>4. QED
    BY <1>0, <1>6, <2>3 DEF Sums
<1>8. counts' = Measure(flushed)
  BY <1>1 DEF BooksAre
<1>9. ~At(w, "gone") /\ (failed' => error' # "none") /\ (error' = "overflow" => TooLarge)
       /\ (s.error = "overflow" => TooLarge)
  BY <1>0, BeforeTheStep DEF At
<1>10. /\ Books(done2, flushed, own2, Waiting', [Hands EXCEPT ![w] = InHand(s)])
       /\ Clean' => Complete(done2, flushed, own2, Waiting', [Hands EXCEPT ![w] = InHand(s)])
  BY <1>1, <1>3, <1>4, <1>5 DEF BooksAre
<1> HIDE DEF own2, done2, hands2, h
<1>11. QED
  BY <1>0, <1>1, <1>4, <1>6, <1>7, <1>8, <1>9, <1>10, WalkerStep

\* A walker fails: what it had in hand and in its sum is lost, and the walk is
\* not clean any more.
LEMMA LoseKeeps ==
    ASSUME WInv, IInv', NEW w \in Walker, NEW s,
           walker' = [walker EXCEPT ![w] = s], walker[w].pc \notin {"return", "gone"},
           UNCHANGED <<superseded, watching, progress, result, refused, failed, error, counts,
                       pending>>,
           s.pc = "return", s.error # "none", s.error = "overflow" => TooLarge
    PROVE  WInv'
<1>1. PICK done, flushed \in SUBSET Entry, own \in [Walker -> SUBSET Entry] :
        BooksAre(done, flushed, own)
  BY DEF WInv, BooksAreKept
<1>2. walker \in [Walker -> Slot] /\ walker[w].error = "none"
  BY BeforeTheStep
<1>3. ~Clean'
  BY <1>2, CleanBefore
<1>4. Waiting' = Waiting /\ Different(pending)'
  BY BeforeTheStep DEF Waiting, Elements, Different
<1> DEFINE own2 == [own EXCEPT ![w] = {}]
<1>5. InHand(s) = {} /\ Tidy(s)
  BY DEF InHand, Tidy
<1>6. Books(done, flushed, own2, Waiting', [Hands EXCEPT ![w] = InHand(s)])
  BY <1>1, <1>4, <1>5, BookLose DEF BooksAre
<1>7. own2[w] = {} /\ \A v \in Walker : v # w => own2[v] = own[v]
  OBVIOUS
<1>8. Sums(s, own2[w])
  BY <1>7 DEF Sums, Summing
<1>9. counts' = Measure(flushed)
  BY <1>1 DEF BooksAre
<1>10. ~At(w, "gone") /\ (failed' => error' # "none") /\ (error' = "overflow" => TooLarge)
  BY BeforeTheStep DEF At
<1> HIDE DEF own2
<1>11. QED
  BY <1>1, <1>3, <1>4, <1>5, <1>6, <1>7, <1>8, <1>9, <1>10, WalkerStep

\* What a walker has summed up, with the entry in its hands, can be found.
LEMMA SumIsFound ==
    ASSUME WInv, NEW w \in Walker, NEW e \in InHand(walker[w])
    PROVE  \E S \in SUBSET Entry :
               Sums(walker[w], S) /\ e \notin S /\ S \cup {e} \in SUBSET Found
<1>1. PICK done, flushed \in SUBSET Entry, own \in [Walker -> SUBSET Entry] :
        BooksAre(done, flushed, own)
  BY DEF WInv, BooksAreKept
<1>2. Hands[w] = InHand(walker[w])
  BY BeforeTheStep
<1>3. Books(done, flushed, own, Waiting, Hands)
  BY <1>1 DEF BooksAre
<1>4. e \notin own[w] /\ own[w] \cup {e} \subseteq Found
  BY <1>2, <1>3 DEF Books, NothingTwice, OnlyFound, Met, Together
<1>5. Sums(walker[w], own[w]) /\ own[w] \in SUBSET Entry
  BY <1>1 DEF BooksAre
<1>6. QED
  BY <1>4, <1>5

\* A directory is opened: it is counted, and its entries are in hand.
LEMMA OpenKeeps ==
    ASSUME WInv, IInv', NEW w \in Walker, OpenDirectory(w)
    PROVE  WInv'
<1> DEFINE me == walker[w]
           d == me.path
<1>1. /\ walker \in [Walker -> Slot] /\ me \in Slot /\ me.error = "none" /\ me.pc = "open"
      /\ InHand(me) = {d} /\ d \in Dir /\ refused \in SUBSET Dir
  BY BeforeTheStep DEF OpenDirectory, At, InHand
<1>2. UNCHANGED <<superseded, watching, progress, result, refused, failed, error, counts,
                  pending>>
  BY DEF OpenDirectory, shared
<1>3. /\ Measure({d}) = [bytes |-> 0, files |-> 0, directories |-> 1,
                         skipped |-> IF d \in refused THEN 1 ELSE 0]
      /\ Begun = [bytes |-> 0, files |-> 0, directories |-> 1, skipped |-> 0]
  BY <1>1, MeasureOfDirectory DEF Begun, NoCounts
<1>4. \A S : Sums(me, S) => S \cup {d} = {d}
  BY <1>1 DEF Sums, Summing
<1>5. CASE d \notin refused
  <2> DEFINE s == [me EXCEPT !.counts = Begun, !.pc = "look", !.readers = <<Contents[d]>>]
  <2>1. walker' = [walker EXCEPT ![w] = s]
    BY <1>1, <1>5 DEF OpenDirectory
  <2>2. /\ s.counts = Begun /\ s.pc = "look" /\ s.readers = <<Contents[d]>>
        /\ s.error = "none"
    BY <1>1 DEF Slot
  <2> HIDE DEF s
  <2>3. InHand(s) = Contents[d] /\ Tidy(s) /\ s.pc \in Summing
    BY <2>2, FewReaders DEF InHand, Tidy, Summing
  <2>4. Measure({d}) = Begun
    BY <1>3, <1>5
  <2>5. InHand(s) = (InHand(me) \ {d}) \cup
                      (IF d \in Dir /\ d \notin refused THEN Contents[d] ELSE {})
    BY <1>1, <1>5, <2>3
  <2>6. \A S \in SUBSET Entry : d \notin S /\ Sums(me, S) => s.counts = Measure(S \cup {d})
    BY <1>4, <2>2, <2>4
  <2>7. d \in InHand(me)
    BY <1>1
  <2>8. HasCounted(w, d, s)
    BY <1>1, <1>2, <2>1, <2>2, <2>3, <2>5, <2>6, <2>7 DEF HasCounted
  <2> HIDE DEF d
  <2>9. QED
    BY <1>2, <2>1, <2>8, CountKeeps
<1>6. CASE d \in refused /\ d = Root
  <2> DEFINE s == [me EXCEPT !.error = "unreadable", !.pc = "return"]
  <2>1. walker' = [walker EXCEPT ![w] = s]
    BY <1>1, <1>6 DEF OpenDirectory
  <2>2. s.pc = "return" /\ s.error = "unreadable"
    BY <1>1 DEF Slot
  <2> HIDE DEF s
  <2>3. QED
    BY <1>1, <1>2, <2>1, <2>2, LoseKeeps
<1>7. CASE d \in refused /\ d # Root
  <2> DEFINE s == [me EXCEPT !.counts = [Begun EXCEPT !.skipped = 1], !.pc = "final"]
  <2>1. walker' = [walker EXCEPT ![w] = s]
    BY <1>1, <1>7 DEF OpenDirectory
  <2>2. /\ s.counts = [Begun EXCEPT !.skipped = 1] /\ s.pc = "final" /\ s.error = "none"
    BY <1>1 DEF Slot
  <2> HIDE DEF s
  <2>3. InHand(s) = {} /\ Tidy(s) /\ s.pc \in Summing
    BY <2>2 DEF InHand, Tidy, Summing
  <2>4. Measure({d}) = [Begun EXCEPT !.skipped = 1]
    BY <1>3, <1>7
  <2>5. InHand(s) = (InHand(me) \ {d}) \cup
                      (IF d \in Dir /\ d \notin refused THEN Contents[d] ELSE {})
    BY <1>1, <1>7, <2>3
  <2>6. \A S \in SUBSET Entry : d \notin S /\ Sums(me, S) => s.counts = Measure(S \cup {d})
    BY <1>4, <2>2, <2>4
  <2>7. d \in InHand(me)
    BY <1>1
  <2>8. HasCounted(w, d, s)
    BY <1>1, <1>2, <2>1, <2>2, <2>3, <2>5, <2>6, <2>7 DEF HasCounted
  <2> HIDE DEF d
  <2>9. QED
    BY <1>2, <2>1, <2>8, CountKeeps
<1>8. QED
  BY <1>5, <1>6, <1>7

\* The entry that was taken from a reader, before it is counted.
LEMMA AtEntry ==
    ASSUME WInv, NEW w \in Walker, At(w, "entry")
    PROVE  /\ walker[w] \in Slot /\ walker[w].error = "none" /\ walker[w].pc = "entry"
           /\ InHand(walker[w]) = Unread(walker[w].readers) \cup {walker[w].entry}
           /\ walker[w].entry \in Entry /\ walker[w].entry \notin Unread(walker[w].readers)
           /\ Apart(walker[w].readers) /\ walker[w].readers \in Seq(SUBSET Entry)
           /\ refused \in SUBSET Dir
           /\ Counted(w) \in Slot /\ Counted(w).pc \in {"look", "flush"}
           /\ Counted(w).counts = walker[w].counts
           /\ Counted(w).readers = walker[w].readers /\ Counted(w).error = "none"
           /\ \A S : Sums(walker[w], S) => walker[w].counts = Measure(S)
<1>1. /\ walker[w] \in Slot /\ walker[w].error = "none" /\ walker[w].pc = "entry"
      /\ walker[w].entry \in Entry /\ walker[w].readers \in Seq(SUBSET Entry)
      /\ refused \in SUBSET Dir /\ Tidy(walker[w])
  BY BeforeTheStep DEF At
<1>2. /\ InHand(walker[w]) = Unread(walker[w].readers) \cup {walker[w].entry}
      /\ Apart(walker[w].readers) /\ walker[w].entry \notin Unread(walker[w].readers)
  BY <1>1 DEF InHand, Tidy
<1>3. /\ Counted(w) \in Slot /\ Counted(w).pc \in {"look", "flush"}
      /\ Counted(w).counts = walker[w].counts
      /\ Counted(w).readers = walker[w].readers /\ Counted(w).error = walker[w].error
  BY CountedType DEF WInv, IInv
<1>4. \A S : Sums(walker[w], S) => walker[w].counts = Measure(S)
  BY <1>1 DEF Sums, Summing
<1>5. QED
  BY <1>1, <1>2, <1>3, <1>4

\* A directory is read by the walker itself while the backlog is full.
LEMMA DescendKeeps ==
    ASSUME WInv, IInv', NEW w \in Walker, DescendLocally(w)
    PROVE  WInv'
<1> DEFINE me == walker[w]
           e == me.entry
           k == Counted(w)
           here == Unread(me.readers)
<1>1. At(w, "entry") /\ e \in Dir
  BY DEF DescendLocally, EntryIs
<1>2. /\ me \in Slot /\ me.error = "none" /\ me.pc = "entry"
      /\ InHand(me) = here \cup {e} /\ e \in Entry /\ e \notin here
      /\ Apart(me.readers) /\ me.readers \in Seq(SUBSET Entry) /\ refused \in SUBSET Dir
      /\ k \in Slot /\ k.pc \in {"look", "flush"} /\ k.counts = me.counts
      /\ k.readers = me.readers /\ k.error = "none"
      /\ \A S : Sums(me, S) => me.counts = Measure(S)
  BY <1>1, AtEntry
<1>3. UNCHANGED <<superseded, watching, progress, result, refused, failed, error, counts,
                  pending>>
  BY DEF DescendLocally, shared
<1>4. Contents[e] \in SUBSET Entry /\ Contents[e] \cap here = {} /\ e \notin Contents[e]
  <2>1. Contents[e] \cap InHand(me) = {}
    BY <1>1, <1>2, PlacesApart
  <2>2. Contents[e] \in SUBSET Entry
    BY <1>1, WalkAssumption
  <2>3. QED
    BY <1>2, <2>1, <2>2
<1>5. me.counts \in Counts
  BY <1>2 DEF Slot
<1>6. CASE e \in refused
  <2> DEFINE c == [k.counts EXCEPT !.directories = @ + 1, !.skipped = @ + 1]
             s == [k EXCEPT !.counts = c]
  <2>1. walker' = [walker EXCEPT ![w] = s]
    <3>1. s = [k EXCEPT !.counts.directories = @ + 1, !.counts.skipped = @ + 1]
      BY <1>2 DEF Slot, Counts
    <3> HIDE DEF s, k
    <3>2. QED
      BY <1>6, <3>1 DEF DescendLocally, k
  <2>2. /\ s.counts = [me.counts EXCEPT !.directories = @ + 1, !.skipped = @ + 1]
        /\ s.pc \in {"look", "flush"} /\ s.readers = me.readers /\ s.error = "none"
    BY <1>2 DEF Slot
  <2> HIDE DEF s
  <2>3. InHand(s) = here /\ Tidy(s) /\ s.pc \in Summing
    BY <1>2, <2>2 DEF InHand, Tidy, Summing
  <2>4. InHand(s) = (InHand(me) \ {e}) \cup
                      (IF e \in Dir /\ e \notin refused THEN Contents[e] ELSE {})
    BY <1>2, <1>6, <2>3
  <2>5. ASSUME NEW S \in SUBSET Entry, e \notin S, Sums(me, S)
        PROVE  s.counts = Measure(S \cup {e})
    <3>1. me.counts = Measure(S)
      BY <1>2, <2>5
    <3> HIDE DEF e, me
    <3>2. Measure(S \cup {e}) = [Measure(S) EXCEPT !.directories = @ + 1, !.skipped = @ + 1]
      BY <1>1, <1>2, <1>6, <2>5, OneMoreRefusal
    <3>3. QED
      BY <2>2, <3>1, <3>2 DEF me
  <2>6. e \in InHand(me)
    BY <1>2
  <2>7. HasCounted(w, e, s)
    BY <1>2, <1>3, <2>1, <2>2, <2>3, <2>4, <2>5, <2>6 DEF HasCounted
  <2> HIDE DEF e
  <2>8. QED
    BY <1>3, <2>1, <2>7, CountKeeps
<1>7. CASE e \notin refused
  <2> DEFINE c == [k.counts EXCEPT !.directories = @ + 1]
             s == [k EXCEPT !.counts = c, !.readers = ReadHere(w)]
  <2>1. walker' = [walker EXCEPT ![w] = s]
    <3>1. s = [k EXCEPT !.counts.directories = @ + 1, !.readers = ReadHere(w)]
      BY <1>2 DEF Slot, Counts
    <3> HIDE DEF s, k
    <3>2. QED
      BY <1>7, <3>1 DEF DescendLocally, k
  <2>2. /\ s.counts = [me.counts EXCEPT !.directories = @ + 1]
        /\ s.pc \in {"look", "flush"} /\ s.readers = ReadHere(w) /\ s.error = "none"
    BY <1>2 DEF Slot
  <2> HIDE DEF s
  <2>3. Unread(ReadHere(w)) = Contents[e] \cup here /\ Apart(ReadHere(w))
    <3> DEFINE rs == me.readers
               S == Contents[e]
               r == ReadHere(w)
    <3>1. r = <<S>> \o rs /\ rs \in Seq(SUBSET Entry) /\ Apart(rs) /\ S \in SUBSET Entry
          /\ S \cap Unread(rs) = {}
      BY <1>2, <1>4 DEF ReadHere, Readers
    <3> HIDE DEF r, rs, S
    <3>2. Unread(r) = S \cup Unread(rs) /\ Apart(r)
      BY <3>1, NewReader
    <3>3. QED
      BY <3>2 DEF r, rs, S
  <2>4. InHand(s) = Contents[e] \cup here /\ Tidy(s) /\ s.pc \in Summing
    BY <2>2, <2>3 DEF InHand, Tidy, Summing
  <2>5. InHand(s) = (InHand(me) \ {e}) \cup
                      (IF e \in Dir /\ e \notin refused THEN Contents[e] ELSE {})
    BY <1>1, <1>2, <1>7, <2>4
  <2>6. ASSUME NEW S \in SUBSET Entry, e \notin S, Sums(me, S)
        PROVE  s.counts = Measure(S \cup {e})
    <3>1. me.counts = Measure(S)
      BY <1>2, <2>6
    <3> HIDE DEF e, me
    <3>2. Measure(S \cup {e}) = [Measure(S) EXCEPT !.directories = @ + 1]
      BY <1>1, <1>2, <1>7, <2>6, OneMoreDirectory
    <3>3. QED
      BY <2>2, <3>1, <3>2 DEF me
  <2>7. e \in InHand(me)
    BY <1>2
  <2>8. HasCounted(w, e, s)
    BY <1>2, <1>3, <2>1, <2>2, <2>4, <2>5, <2>6, <2>7 DEF HasCounted
  <2> HIDE DEF e
  <2>9. QED
    BY <1>3, <2>1, <2>8, CountKeeps
<1>8. QED
  BY <1>6, <1>7

\* A file is counted, or its size does not fit any more.
LEMMA FileKeeps ==
    ASSUME WInv, IInv', NEW w \in Walker, CountFile(w)
    PROVE  WInv'
<1> DEFINE me == walker[w]
           e == me.entry
           k == Counted(w)
           here == Unread(me.readers)
<1>1. At(w, "entry") /\ e \in File /\ SizeOf(w) = Size[e] /\ Bytes(w) = me.counts.bytes
  BY DEF CountFile, EntryIs, SizeOf, Bytes
<1>2. /\ me \in Slot /\ me.error = "none" /\ me.pc = "entry"
      /\ InHand(me) = here \cup {e} /\ e \in Entry /\ e \notin here
      /\ Apart(me.readers) /\ me.readers \in Seq(SUBSET Entry) /\ refused \in SUBSET Dir
      /\ k \in Slot /\ k.pc \in {"look", "flush"} /\ k.counts = me.counts
      /\ k.readers = me.readers /\ k.error = "none"
      /\ \A S : Sums(me, S) => me.counts = Measure(S)
  BY <1>1, AtEntry
<1>3. UNCHANGED <<superseded, watching, progress, result, refused, failed, error, counts,
                  pending>>
  BY DEF CountFile, shared
<1>4. ASSUME NEW S \in SUBSET Entry, e \notin S, Sums(me, S)
      PROVE  Measure(S \cup {e})
               = [me.counts EXCEPT !.files = @ + 1, !.bytes = @ + Size[e]]
  <2>1. me.counts = Measure(S)
    BY <1>2, <1>4
  <2> HIDE DEF e, me
  <2>2. Measure(S \cup {e})
          = [Measure(S) EXCEPT !.files = @ + 1, !.bytes = @ + Size[e]]
    BY <1>1, <1>2, <1>4, OneMoreFile
  <2>3. QED
    BY <2>1, <2>2
<1>5. me.counts \in Counts /\ Size[e] \in Nat
  BY <1>1, <1>2, WalkAssumption DEF Slot
<1>6. CASE Bytes(w) + SizeOf(w) <= MaxSize
  <2> DEFINE c == [k.counts EXCEPT !.files = @ + 1, !.bytes = @ + SizeOf(w)]
             s == [k EXCEPT !.counts = c]
  <2>1. walker' = [walker EXCEPT ![w] = s]
    <3>1. s = [k EXCEPT !.counts.files = @ + 1, !.counts.bytes = @ + SizeOf(w)]
      BY <1>2 DEF Slot, Counts
    <3> HIDE DEF s, k
    <3>2. QED
      BY <1>6, <3>1 DEF CountFile, k
  <2>2. /\ s.counts = [me.counts EXCEPT !.files = @ + 1, !.bytes = @ + Size[e]]
        /\ s.pc \in {"look", "flush"} /\ s.readers = me.readers /\ s.error = "none"
    BY <1>1, <1>2 DEF Slot
  <2> HIDE DEF s
  <2>3. InHand(s) = here /\ Tidy(s) /\ s.pc \in Summing
    BY <1>2, <2>2 DEF InHand, Tidy, Summing
  <2>4. InHand(s) = (InHand(me) \ {e}) \cup
                      (IF e \in Dir /\ e \notin refused THEN Contents[e] ELSE {})
    <3>1. e \notin Dir
      BY <1>1, WalkAssumption
    <3>2. QED
      BY <1>2, <2>3, <3>1
  <2>5. \A S \in SUBSET Entry : e \notin S /\ Sums(me, S) => s.counts = Measure(S \cup {e})
    BY <1>4, <2>2
  <2>6. e \in InHand(me)
    BY <1>2
  <2>7. HasCounted(w, e, s)
    BY <1>2, <1>3, <2>1, <2>2, <2>3, <2>4, <2>5, <2>6 DEF HasCounted
  <2> HIDE DEF e
  <2>8. QED
    BY <1>3, <2>1, <2>7, CountKeeps
<1>7. CASE ~(Bytes(w) + SizeOf(w) <= MaxSize)
  <2> DEFINE s == [me EXCEPT !.error = "overflow", !.pc = "return"]
  <2>1. walker' = [walker EXCEPT ![w] = s]
    BY <1>7 DEF CountFile
  <2>2. s.pc = "return" /\ s.error = "overflow"
    BY <1>2 DEF Slot
  <2> HIDE DEF s
  <2>3. TooLarge
    <3>1. PICK S \in SUBSET Entry : Sums(me, S) /\ e \notin S /\ S \cup {e} \in SUBSET Found
      BY <1>2, SumIsFound
    <3>2. Measure(S \cup {e}).bytes = Bytes(w) + SizeOf(w)
      <4>1. Measure(S \cup {e})
              = [me.counts EXCEPT !.files = @ + 1, !.bytes = @ + Size[e]]
        BY <1>4, <3>1
      <4>2. QED
        BY <1>1, <1>5, <4>1 DEF Counts
    <3>3. Found \in SUBSET Entry
      BY <1>2, FoundDirectories
    <3>4. Measure(S \cup {e}).bytes <= Total.bytes
      BY <3>1, <3>3, MeasureGrows DEF Total
    <3>5. Total.bytes \in Nat
      BY <3>3, MeasureType DEF Total
    <3>6. Bytes(w) + SizeOf(w) \in Nat
      BY <1>1, <1>5, WalkAssumption DEF Counts
    <3>7. QED
      BY <1>7, <3>2, <3>4, <3>5, <3>6, WalkAssumption DEF TooLarge
  <2>4. QED
    BY <1>2, <1>3, <2>1, <2>2, <2>3, LoseKeeps
<1>8. QED
  BY <1>6, <1>7

\* An entry that is skipped is counted as such.
LEMMA SkippedKeeps ==
    ASSUME WInv, IInv', NEW w \in Walker, CountSkipped(w)
    PROVE  WInv'
<1> DEFINE me == walker[w]
           e == me.entry
           k == Counted(w)
           here == Unread(me.readers)
           s == [k EXCEPT !.counts.skipped = @ + 1]
<1>1. At(w, "entry") /\ e \in Odd
  BY DEF CountSkipped, EntryIs
<1>2. /\ me \in Slot /\ me.error = "none" /\ me.pc = "entry"
      /\ InHand(me) = here \cup {e} /\ e \in Entry /\ e \notin here
      /\ Apart(me.readers) /\ refused \in SUBSET Dir
      /\ k \in Slot /\ k.pc \in {"look", "flush"} /\ k.counts = me.counts
      /\ k.readers = me.readers /\ k.error = "none"
      /\ \A S : Sums(me, S) => me.counts = Measure(S)
  BY <1>1, AtEntry
<1>3. UNCHANGED <<superseded, watching, progress, result, refused, failed, error, counts,
                  pending>>
  BY DEF CountSkipped, shared
<1>4. walker' = [walker EXCEPT ![w] = s]
  BY DEF CountSkipped
<1>5. /\ s.counts = [me.counts EXCEPT !.skipped = @ + 1]
      /\ s.pc \in {"look", "flush"} /\ s.readers = me.readers /\ s.error = "none"
  BY <1>2 DEF Slot
<1> HIDE DEF s
<1>6. InHand(s) = here /\ Tidy(s) /\ s.pc \in Summing
  BY <1>2, <1>5 DEF InHand, Tidy, Summing
<1>7. InHand(s) = (InHand(me) \ {e}) \cup
                    (IF e \in Dir /\ e \notin refused THEN Contents[e] ELSE {})
  <2>1. e \notin Dir
    BY <1>1, WalkAssumption
  <2>2. QED
    BY <1>2, <1>6, <2>1
<1>8. ASSUME NEW S \in SUBSET Entry, e \notin S, Sums(me, S)
      PROVE  s.counts = Measure(S \cup {e})
  <2>1. me.counts = Measure(S)
    BY <1>2, <1>8
  <2> HIDE DEF e, me
  <2>2. Measure(S \cup {e}) = [Measure(S) EXCEPT !.skipped = @ + 1]
    BY <1>1, <1>2, <1>8, OneMoreOdd
  <2>3. QED
    BY <1>5, <2>1, <2>2 DEF me
<1>9. e \in InHand(me)
  BY <1>2
<1>10. HasCounted(w, e, s)
  BY <1>2, <1>3, <1>4, <1>5, <1>6, <1>7, <1>8, <1>9 DEF HasCounted
<1> HIDE DEF e
<1>11. QED
  BY <1>3, <1>4, <1>10, CountKeeps

\* The sum of a walker goes into the shared one, or does not fit any more.
LEMMA FlushKeeps ==
    ASSUME WInv, IInv', NEW w \in Walker, FlushCounts(w)
    PROVE  WInv'
<1> DEFINE me == walker[w]
<1>1. PICK done, flushed \in SUBSET Entry, own \in [Walker -> SUBSET Entry] :
        BooksAre(done, flushed, own)
  BY DEF WInv, BooksAreKept
<1>2. /\ walker \in [Walker -> Slot] /\ me \in Slot /\ Tidy(me) /\ me.error = "none"
      /\ me.pc \in {"flush", "final"} /\ Hands[w] = InHand(me) /\ refused \in SUBSET Dir
      /\ me.counts \in Counts /\ counts \in Counts
  BY BeforeTheStep DEF FlushCounts, At, Slot, WInv, IInv, TypeOK
<1>3. UNCHANGED <<superseded, watching, progress, result, refused, failed, error, pending>>
  BY DEF FlushCounts
<1>4. /\ counts = Measure(flushed) /\ me.counts = Measure(own[w])
      /\ Books(done, flushed, own, Waiting, Hands)
      /\ Clean => Complete(done, flushed, own, Waiting, Hands)
  BY <1>1, <1>2 DEF BooksAre, Sums, Summing
<1> DEFINE both == flushed \cup own[w]
           own2 == [own EXCEPT ![w] = {}]
<1>5. Books(done, both, own2, Waiting, Hands)
  BY <1>4, BookFlush
<1>6. Complete(done, flushed, own, Waiting, Hands) =>
        Complete(done, both, own2, Waiting, Hands)
  BY <1>4, BookFlush
<1>7. flushed \cap own[w] = {} /\ both \subseteq Found /\ own[w] \in SUBSET Entry
  BY <1>4 DEF Books, NothingTwice, OnlyFound, Met
<1>8. Measure(both) = Plus(counts, me.counts)
  BY <1>4, <1>7, MeasureAdds
<1>9. own2[w] = {} /\ \A v \in Walker : v # w => own2[v] = own[v]
  OBVIOUS
<1>10. CASE counts.bytes + Bytes(w) <= MaxSize
  <2> DEFINE s == AfterFlush(w)
  <2>1. walker' = [walker EXCEPT ![w] = s] /\ counts' = Measure(both)
    BY <1>8, <1>10 DEF FlushCounts
  <2>2. /\ s.counts = NoCounts /\ s.error = "none" /\ s.readers = me.readers
        /\ s.pc = IF me.pc = "flush" THEN "look" ELSE "return"
    BY <1>2 DEF AfterFlush, Slot
  <2> HIDE DEF s, own2, both
  <2>3. InHand(s) = InHand(me) /\ Tidy(s)
    BY <1>2, <2>2 DEF InHand, Tidy
  <2>4. [Hands EXCEPT ![w] = InHand(s)] = Hands
    BY <1>2, <2>3 DEF Hands
  <2>5. Sums(s, own2[w])
    BY <1>9, <2>2, MeasureNothing DEF Sums
  <2>6. Clean' => Clean
    BY <1>2, <1>3, <2>1, CleanBefore
  <2>7. Waiting' = Waiting /\ Different(pending)'
    BY <1>3, BeforeTheStep DEF Waiting, Elements, Different
  <2>8. ~At(w, "gone") /\ (failed' => error' # "none") /\ (error' = "overflow" => TooLarge)
         /\ (s.error = "overflow" => TooLarge)
    BY <1>2, <1>3, <2>2, BeforeTheStep DEF At
  <2>9. /\ Books(done, both, own2, Waiting', [Hands EXCEPT ![w] = InHand(s)])
        /\ Clean' => Complete(done, both, own2, Waiting', [Hands EXCEPT ![w] = InHand(s)])
    BY <1>4, <1>5, <1>6, <2>4, <2>6, <2>7
  <2>10. QED
    BY <1>1, <1>3, <1>9, <2>1, <2>3, <2>5, <2>7, <2>8, <2>9, WalkerStep
<1>11. CASE ~(counts.bytes + Bytes(w) <= MaxSize)
  <2> DEFINE s == [me EXCEPT !.error = "overflow", !.pc = "return"]
  <2>1. walker' = [walker EXCEPT ![w] = s] /\ counts' = counts
    BY <1>11 DEF FlushCounts
  <2>2. s.pc = "return" /\ s.error = "overflow"
    BY <1>2 DEF Slot
  <2> HIDE DEF s
  <2>3. TooLarge
    <3>1. Measure(both).bytes = counts.bytes + Bytes(w)
      BY <1>2, <1>8 DEF Plus, Counts, Bytes
    <3>2. Found \in SUBSET Entry
      BY <1>2, FoundDirectories
    <3> HIDE DEF both
    <3>3. Measure(both).bytes <= Total.bytes
      BY <1>7, <3>2, MeasureGrows DEF Total
    <3>4. Total.bytes \in Nat
      BY <3>2, MeasureType DEF Total
    <3>5. counts.bytes + Bytes(w) \in Nat
      BY <1>2, WalkAssumption DEF Counts, Bytes
    <3>6. QED
      BY <1>11, <3>1, <3>3, <3>4, <3>5, WalkAssumption DEF TooLarge
  <2>4. QED
    BY <1>2, <1>3, <2>1, <2>2, <2>3, LoseKeeps
<1>12. QED
  BY <1>10, <1>11

\* A subtree is finished, or its failure ends the walk of all.
LEMMA FinishKeeps ==
    ASSUME WInv, IInv', NEW w \in Walker, FinishSubtree(w)
    PROVE  WInv'
<1> DEFINE me == walker[w]
           s == AtRest
<1>1. PICK done, flushed \in SUBSET Entry, own \in [Walker -> SUBSET Entry] :
        BooksAre(done, flushed, own)
  BY DEF WInv, BooksAreKept
<1>2. /\ walker \in [Walker -> Slot] /\ me \in Slot /\ me.pc = "return"
      /\ Hands[w] = InHand(me) /\ InHand(me) = {}
      /\ me.error = "overflow" => TooLarge
      /\ failed => error # "none"
      /\ error = "overflow" => TooLarge
  BY BeforeTheStep DEF FinishSubtree, At, InHand
<1>3. UNCHANGED <<superseded, watching, progress, result, refused, counts>>
      /\ walker' = [walker EXCEPT ![w] = s] /\ ~At(w, "gone")
  BY DEF FinishSubtree, At
<1>4. s.pc = "take" /\ s.error = "none"
  BY DEF AtRest
<1> HIDE DEF s
<1>5. InHand(s) = {} /\ Tidy(s) /\ [Hands EXCEPT ![w] = InHand(s)] = Hands
  BY <1>2, <1>4 DEF InHand, Tidy, Hands
<1>6. own[w] = {} /\ Sums(s, own[w])
  <2>1. Sums(me, own[w])
    BY <1>1 DEF BooksAre
  <2>2. QED
    BY <1>2, <1>4, <2>1 DEF Sums, Summing
<1>7. counts' = Measure(flushed)
  BY <1>1, <1>3 DEF BooksAre
<1>8. CASE me.error = "none"
  <2>1. UNCHANGED <<error, pending, failed>>
    BY <1>8 DEF FinishSubtree, Failure
  <2>2. Waiting' = Waiting /\ Different(pending)'
    BY <2>1, BeforeTheStep DEF Waiting, Elements, Different
  <2>3. Clean' => Clean
    BY <1>2, <1>3, <1>8, <2>1, CleanBefore
  <2>4. /\ Books(done, flushed, own, Waiting', [Hands EXCEPT ![w] = InHand(s)])
        /\ Clean' => Complete(done, flushed, own, Waiting', [Hands EXCEPT ![w] = InHand(s)])
    BY <1>1, <1>5, <2>2, <2>3 DEF BooksAre
  <2>5. QED
    BY <1>1, <1>2, <1>3, <1>4, <1>5, <1>6, <1>7, <2>1, <2>2, <2>4, WalkerStep
<1>9. CASE me.error # "none"
  <2>1. /\ error' = IF error = "none" THEN me.error ELSE error
        /\ pending' = <<>> /\ failed' = TRUE
    BY <1>9 DEF FinishSubtree, Failure
  <2>2. Waiting' = {} /\ Different(pending)'
    BY <2>1 DEF Waiting, Elements, Different
  <2>3. ~Clean'
    BY <2>1 DEF Clean
  <2>4. Books(done, flushed, own, Waiting', [Hands EXCEPT ![w] = InHand(s)])
    <3>1. Waiting' \in SUBSET Waiting
      BY <2>2
    <3>2. Books(done, flushed, own, Waiting', Hands)
      BY <1>1, <3>1, BookStop DEF BooksAre
    <3>3. QED
      BY <1>5, <3>2
  <2>5. (failed' => error' # "none") /\ (error' = "overflow" => TooLarge)
    BY <1>2, <1>9, <2>1
  <2>6. QED
    BY <1>1, <1>3, <1>4, <1>5, <1>6, <1>7, <2>2, <2>3, <2>4, <2>5, WalkerStep
<1>10. QED
  BY <1>8, <1>9

\* What is said of the walk does not depend on the measuring thread.
LEMMA WatchedBooks ==
    ASSUME WInv, walker' = walker, shared' = shared, refused' = refused,
           Clean' => Clean
    PROVE  /\ (refused \in SUBSET Dir)' /\ Different(pending)' /\ BooksAreKept'
           /\ ErrorsAreReal' /\ (\A w \in Walker : Tidy(walker[w]))' /\ (AllGone <=> AllGone')
<1>1. PICK done, flushed \in SUBSET Entry, own \in [Walker -> SUBSET Entry] :
        BooksAre(done, flushed, own)
  BY DEF WInv, BooksAreKept
<1>2. Waiting' = Waiting /\ Hands' = Hands
  BY DEF Waiting, Elements, Hands, InHand, Unread, shared
<1>3. /\ Books(done, flushed, own, Waiting, Hands)'
      /\ Clean' => Complete(done, flushed, own, Waiting, Hands)'
  <2>1. /\ Books(done, flushed, own, Waiting', Hands')
        /\ Clean' => Complete(done, flushed, own, Waiting', Hands')
    BY <1>1, <1>2 DEF BooksAre
  <2>2. QED
    BY <2>1, BooksStay
<1>4. (counts = Measure(flushed))'
  BY <1>1, TreeStays DEF BooksAre, shared
<1>5. \A v \in Walker : Sums(walker[v], own[v])'
  <2>1. \A v \in Walker : Sums(walker[v], own[v])
    BY <1>1 DEF BooksAre
  <2>2. QED
    BY <2>1, TreeStays DEF Sums
<1>6. BooksAre(done, flushed, own)'
  BY <1>3, <1>4, <1>5 DEF BooksAre
<1>7. BooksAreKept'
  BY <1>6 DEF BooksAreKept
<1>8. ErrorsAreReal'
  BY TreeStays DEF WInv, ErrorsAreReal, shared
<1>9. (\A w \in Walker : Tidy(walker[w]))'
  BY DEF WInv, Tidy, Apart, Unread, Elements
<1>10. (refused \in SUBSET Dir)' /\ Different(pending)' /\ (AllGone <=> AllGone')
  BY DEF WInv, Different, shared, AllGone, At
<1>11. QED
  BY <1>7, <1>8, <1>9, <1>10

\* What is returned when all walkers are gone is true of the tree.
LEMMA ReturnIsTrue ==
    ASSUME WInv, Return
    PROVE  ResultIsTrue'
<1>1. PICK done, flushed \in SUBSET Entry, own \in [Walker -> SUBSET Entry] :
        BooksAre(done, flushed, own)
  BY DEF WInv, BooksAreKept
<1>2. /\ refused \in SUBSET Dir /\ counts \in Counts /\ refused' = refused
      /\ \A w \in Walker : Tidy(walker[w]) /\ walker[w].pc = "gone"
  BY DEF WInv, IInv, TypeOK, Return, AllGone, At
<1>3. counts' = counts /\ Total' = Total
  BY <1>2, TreeStays DEF Return, shared
<1>4. result' = "overflow" => TooLarge
  BY DEF WInv, ErrorsAreReal, Return
<1>5. ASSUME result' = "measured" PROVE counts = Total
  <2>1. ~superseded /\ error = "none"
    BY <1>5 DEF Return, WInv, IInv, TypeOK, Errors
  <2>2. Clean
    BY <1>2, <2>1 DEF Clean, Tidy, WInv, ErrorsAreReal
  <2>3. pending = <<>>
    BY <2>2 DEF WInv, IInv, NobodyLeavesWorkBehind, Return, Clean
  <2>4. Waiting = {}
    BY <2>3 DEF Waiting, Elements
  <2>5. Together(Hands) = {} /\ Together(own) = {}
    <3>1. \A w \in Walker : Hands[w] = {}
      BY <1>2 DEF Hands, InHand
    <3>2. \A w \in Walker : own[w] = {}
      BY <1>1, <1>2 DEF BooksAre, Sums, Summing
    <3>3. QED
      BY <3>1, <3>2 DEF Together
  <2>6. flushed = Found
    BY <1>1, <1>2, <2>2, <2>4, <2>5, AllIsCounted DEF BooksAre
  <2>7. QED
    BY <1>1, <2>6 DEF BooksAre, Total
<1>6. result' = "measured" => counts' = Total' /\ Total'.bytes <= MaxSize
  BY <1>2, <1>3, <1>5, WalkAssumption DEF Counts
<1>7. QED
  BY <1>3, <1>4, <1>6 DEF ResultIsTrue, MeasuredIsExact, OverflowIsReal, TooLarge

\* The measuring thread and its owner.
LEMMA WatcherKeeps ==
    ASSUME WInv, IInv', Report \/ StopWatching \/ Return \/ Supersede
    PROVE  WInv'
<1>1. walker' = walker /\ shared' = shared /\ refused' = refused /\ (Clean' => Clean)
  BY DEF Report, StopWatching, Return, Supersede, Clean, shared
<1>2. /\ (refused \in SUBSET Dir)' /\ Different(pending)' /\ BooksAreKept'
      /\ ErrorsAreReal' /\ (\A w \in Walker : Tidy(walker[w]))' /\ (AllGone <=> AllGone')
  BY <1>1, WatchedBooks
<1>3. (result # "none" => AllGone)'
  BY <1>2 DEF WInv, Report, StopWatching, Return, Supersede
<1>4. ResultIsTrue'
  <2>1. CASE Return
    BY <2>1, ReturnIsTrue
  <2>2. CASE Report \/ StopWatching \/ Supersede
    <3>1. result' = result /\ counts' = counts /\ Total' = Total
      BY <1>1, <2>2, TreeStays DEF Report, StopWatching, Supersede, shared
    <3>2. QED
      BY <3>1 DEF WInv, ResultIsTrue, MeasuredIsExact, OverflowIsReal
  <2>3. QED
    BY <2>1, <2>2
<1>5. QED
  BY <1>2, <1>3, <1>4 DEF WInv

\* The books are empty at first: only the root is known.
LEMMA BooksOpen == Init => WInv
<1> SUFFICES ASSUME Init PROVE WInv
  OBVIOUS
<1>1. /\ pending = <<Root>> /\ counts = NoCounts /\ error = "none" /\ failed = FALSE
      /\ walker = [w \in Walker |-> AtRest] /\ result = "none"
      /\ refused \in SUBSET Dir
  BY WalkAssumption DEF Init
<1>2. \A w \in Walker : walker[w].pc = "take" /\ walker[w].error = "none"
  BY <1>1 DEF AtRest
<1>3. Waiting = {Root} /\ Different(pending)
  <2>1. DOMAIN pending = {1} /\ pending[1] = Root
    BY <1>1
  <2>2. QED
    BY <2>1 DEF Waiting, Elements, Different
<1>4. \A w \in Walker : Tidy(walker[w]) /\ Hands[w] = {}
  BY <1>2 DEF Tidy, Hands, InHand
<1>5. ErrorsAreReal /\ ResultIsTrue /\ (result # "none" => AllGone)
  BY <1>1, <1>2 DEF ErrorsAreReal, ResultIsTrue, MeasuredIsExact, OverflowIsReal
<1> DEFINE own == [w \in Walker |-> {}]
<1>6. own \in [Walker -> SUBSET Entry] /\ \A w \in Walker : own[w] = {}
  OBVIOUS
<1>7. Hands \in [Walker -> SUBSET Entry]
  BY <1>4 DEF Hands
<1> HIDE DEF own
<1>8. Met({}, Waiting, Hands) = {Root} /\ Together(own) = {}
  BY <1>3, <1>4, <1>6 DEF Met, Together
<1>9. Books({}, {}, own, Waiting, Hands)
  <2>1. NothingTwice({}, {}, own, Waiting, Hands)
    BY <1>4, <1>6 DEF NothingTwice
  <2>2. OnlyFound({}, {Root})
    BY <1>1, FoundDirectories, WalkAssumption DEF OnlyFound
  <2>3. Waiting \in SUBSET Dir /\ {} \in SUBSET Entry
    BY <1>3, WalkAssumption
  <2>4. QED
    BY <1>6, <1>7, <1>8, <2>1, <2>2, <2>3 DEF Books
<1>10. Complete({}, {}, own, Waiting, Hands)
  BY <1>8 DEF Complete, NothingDropped
<1>11. BooksAreKept
  <2>1. counts = Measure({})
    BY <1>1, MeasureNothing
  <2>2. \A w \in Walker : Sums(walker[w], own[w])
    BY <1>2, <1>6 DEF Sums, Summing
  <2>3. BooksAre({}, {}, own)
    BY <1>9, <1>10, <2>1, <2>2 DEF BooksAre
  <2>4. QED
    BY <1>6, <2>3 DEF BooksAreKept
<1>12. QED
  BY <1>1, <1>3, <1>4, <1>5, <1>11, InitOK DEF WInv

\* Every step keeps the books.
LEMMA BooksStep == WInv /\ [Next]_vars => WInv'
<1> SUFFICES ASSUME WInv, [Next]_vars PROVE WInv'
  OBVIOUS
<1>1. IInv'
  BY StepOK DEF WInv
<1>2. ASSUME NEW w \in Walker, Walk(w) PROVE WInv'
  <2>1. CASE TakeDirectory(w)
    BY <1>1, <2>1, TakeKeeps
  <2>2. CASE Leave(w)
    BY <1>1, <2>2, LeaveKeeps
  <2>3. CASE OpenDirectory(w)
    BY <1>1, <2>3, OpenKeeps
  <2>4. CASE (\E e \in Entry : NextEntry(w, e)) \/ EndOfDirectory(w) \/ EndOfSubtree(w)
    BY <1>1, <2>4, ReadersKeep
  <2>5. CASE ShareDirectory(w)
    BY <1>1, <2>5, ShareKeeps
  <2>6. CASE DescendLocally(w)
    BY <1>1, <2>6, DescendKeeps
  <2>7. CASE CountFile(w)
    BY <1>1, <2>7, FileKeeps
  <2>8. CASE CountSkipped(w)
    BY <1>1, <2>8, SkippedKeeps
  <2>9. CASE FlushCounts(w)
    BY <1>1, <2>9, FlushKeeps
  <2>10. CASE FinishSubtree(w)
    BY <1>1, <2>10, FinishKeeps
  <2>11. QED
    BY <1>2, <2>1, <2>2, <2>3, <2>4, <2>5, <2>6, <2>7, <2>8, <2>9, <2>10 DEF Walk
<1>3. CASE Report \/ StopWatching \/ Return \/ Supersede
  BY <1>1, <1>3, WatcherKeeps
<1>4. CASE UNCHANGED vars
  <2>1. walker' = walker /\ shared' = shared /\ refused' = refused /\ (Clean' => Clean)
        /\ result' = result /\ counts' = counts
    BY <1>4 DEF vars, Clean, shared
  <2>2. /\ (refused \in SUBSET Dir)' /\ Different(pending)' /\ BooksAreKept'
        /\ ErrorsAreReal' /\ (\A w \in Walker : Tidy(walker[w]))' /\ (AllGone <=> AllGone')
    BY <2>1, WatchedBooks
  <2>3. ResultIsTrue' /\ (result # "none" => AllGone)'
    BY <2>1, <2>2, TreeStays DEF WInv, ResultIsTrue, MeasuredIsExact, OverflowIsReal
  <2>4. QED
    BY <1>1, <2>2, <2>3 DEF WInv
<1>5. QED
  BY <1>2, <1>3, <1>4 DEF Next, Finished

-----------------------------------------------------------------------------
(* The theorems. *)

\* Every state of the walk has its type: the stack never exceeds its bound and
\* no sum of sizes exceeds the integer that holds it (checked_add).
THEOREM WalkTypeCorrect == Spec => []TypeOK
<1>1. IInv => TypeOK
  BY DEF IInv
<1>2. QED
  BY InitOK, StepOK, <1>1, PTL DEF Spec

\* A walker that returns, or the measuring thread that leaves its loop, while
\* the request is current and nothing failed, leaves nothing unread: an empty
\* stack alone never ends the walk, whoever is still inside a directory.
THEOREM NoWorkLeft == Spec => []NobodyLeavesWorkBehind
<1>1. IInv => NobodyLeavesWorkBehind
  BY DEF IInv
<1>2. QED
  BY InitOK, StepOK, <1>1, PTL DEF Spec

\* What measure_folder returns is true of the tree: a measured size counts each
\* entry that can be reached once and nothing else, and fits the counter; the
\* error says that it does not fit only when it does not.
THEOREM MeasuredResultIsTrue == Spec => []ResultIsTrue
<1>1. WInv => ResultIsTrue
  BY DEF WInv
<1>2. QED
  BY BooksOpen, BooksStep, <1>1, PTL DEF Spec
=============================================================================
