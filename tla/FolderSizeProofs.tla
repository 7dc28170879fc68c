-------------------------- MODULE FolderSizeProofs --------------------------
(***************************************************************************)
(* Proofs about FolderSize: for any folders, number of key presses and     *)
(* capacities, no request is lost, the screen shows the size of what is    *)
(* focused, and the size inspector implements LatestWins.                  *)
(***************************************************************************)
EXTENDS FolderSize, FiniteSetTheorems, SequenceTheorems, TLAPS

Views == [state : {"Idle", "Loading", "Ready", "Failed"}, id : Nat,
          key : Key \cup {Nothing}, measured : Key \cup {Nothing}]
Steps == {"take", "lookup", "settled", "measure", "send Ready", "send Failed", "stopped"}
Workers == [step : Steps, id : Nat, key : Key \cup {Nothing},
            measured : Key \cup {Nothing}]
Events == [id : Nat, key : Key, update : {"Loading", "Ready", "Failed"},
           measured : Key \cup {Nothing}]
Sizes == [id : Nat, key : Key, measured : Key]

\* The screen's two-step call into the scanner is under way.
InCall(step) == step \in {"clear", "fill", "drop"}

\* A number was given out, and the call under way holds a newer one.
Given(id, last, step) ==
    id \in Nat /\ IF InCall(step) THEN id < last ELSE id <= last

\* One number is one request.
SameRequest(id, key, view) == view.state # "Idle" /\ view.id = id => view.key = key

Fits(id, key, last, step, view) == Given(id, last, step) /\ SameRequest(id, key, view)

HasRequest == worker.step \notin {"take", "stopped"}

KeysAreBounded == \A p \in Pane : generation[p] + keys <= Keys

RequestsFit ==
    /\ next = current + 1
    /\ slot # Nothing => Fits(slot.id, slot.key, current, ui, folderSize)
    /\ HasRequest => Fits(worker.id, worker.key, current, ui, folderSize)
    /\ \A i \in 1 .. Len(results) :
          Fits(results[i].id, results[i].key, current, ui, folderSize)

ViewFits ==
    /\ folderSize.state # "Idle" =>
          folderSize.key \in Key /\ Given(folderSize.id, current, ui)
    /\ folderSize.state = "Loading" =>
          /\ folderSize.measured = Nothing
          /\ ~InCall(ui) => folderSize.id = current
    /\ ui = "fill" => ~NoFocus

WorkerIsHonest ==
    HasRequest =>
        /\ worker.key \in Key /\ worker.measured \in {Nothing, worker.key}
        /\ worker.step = "measure" => worker.measured = worker.key

AnswersAreHonest ==
    /\ \A i \in 1 .. Len(results) :
          /\ results[i].measured \in {Nothing, results[i].key}
          /\ results[i].update = "Loading" => results[i].measured = Nothing
    /\ \A cached \in cache : cached.measured = cached.key

Coherence ==
    /\ TypeOK /\ KeysAreBounded /\ RequestsFit /\ ViewFits
    /\ WorkerIsHonest /\ AnswersAreHonest
    /\ NoRequestIsLost /\ OldWorkIsReplaced

-----------------------------------------------------------------------------
(* The types, with the record sets by their names. *)

Types ==
    /\ active \in Pane /\ generation \in [Pane -> 0 .. Keys]
    /\ focus \in [Pane -> Path \cup {NoPath}] /\ covered \in BOOLEAN
    /\ folderSize \in Views
    /\ ui \in {"drain", "sync", "clear", "fill", "key", "drop", "gone"}
    /\ slot \in Request \cup {Nothing}
    /\ current \in Nat /\ next \in Nat /\ shutdown \in BOOLEAN
    /\ results \in Seq(Events) /\ Len(results) <= Capacity
    /\ worker \in Workers
    /\ cache \subseteq Sizes /\ IsFiniteSet(cache) /\ Cardinality(cache) <= CacheSize
    /\ keys \in 0 .. Keys

LEMMA Typed == TypeOK <=> Types
  BY DEF TypeOK, Types, Views, Workers, Events, Sizes, Steps

LEMMA TypedNext == TypeOK' <=> Types'
  BY DEF TypeOK, Types, Views, Workers, Events, Sizes, Steps

(* The first event and the others. *)
LEMMA Drained ==
    ASSUME Types, results # <<>>
    PROVE  /\ Head(results) = results[1] /\ 1 \in 1 .. Len(results)
           /\ Head(results) \in Events
           /\ Tail(results) \in Seq(Events) /\ Len(Tail(results)) <= Capacity
           /\ \A i \in 1 .. Len(Tail(results)) :
                 i + 1 \in 1 .. Len(results) /\ Tail(results)[i] = results[i + 1]
           /\ \A i \in 2 .. Len(results) :
                 i - 1 \in 1 .. Len(Tail(results)) /\ Tail(results)[i - 1] = results[i]
  BY HeadTailProperties, FolderSizeAssumption DEF Types

(* A set of numbered sizes has an oldest one. *)
LEMMA OldestExists ==
    ASSUME NEW all \in SUBSET Sizes, all # {}
    PROVE  \E old \in all : \A other \in all : old.id <= other.id
<1> DEFINE ids == {cached.id : cached \in all}
<1>1. ids \subseteq Nat /\ ids # {}
  BY DEF Sizes
<1>2. PICK n \in ids : \A m \in ids : <<m, n>> \notin OpToRel(<, Nat)
  BY <1>1, WFMin, NatLessThanWellFounded
<1>3. ASSUME NEW m \in ids PROVE n <= m
  <2>1. m \in Nat /\ n \in Nat /\ <<m, n>> \in Nat \X Nat
    BY <1>1, <1>2
  <2>2. OpToRel(<, Nat) = {pair \in Nat \X Nat : pair[1] < pair[2]}
    BY DEF OpToRel
  <2>3. ~ (m < n)
    BY <1>2, <2>1, <2>2
  <2> QED
    BY <2>1, <2>3
<1>4. PICK old \in all : old.id = n
  BY <1>2
<1> QED
  BY <1>3, <1>4

(* Remembering keeps the cache within its bound. *)
LEMMA CacheIsBounded ==
    ASSUME Types, worker.key \in Key, worker.measured = worker.key,
           \A cached \in cache : cached.measured = cached.key
    PROVE  /\ Remembered \subseteq Sizes /\ IsFiniteSet(Remembered)
           /\ Cardinality(Remembered) <= CacheSize
           /\ \A cached \in Remembered : cached.measured = cached.key
<1> DEFINE rest == {cached \in cache : cached.key # worker.key}
           new == [id |-> worker.id, key |-> worker.key, measured |-> worker.measured]
           all == rest \cup {new}
           old == CHOOSE old \in all : \A other \in all : old.id <= other.id
<1>1. /\ rest \subseteq cache /\ IsFiniteSet(cache)
      /\ Cardinality(cache) <= CacheSize /\ CacheSize \in Nat
  BY FolderSizeAssumption DEF Types
<1>2. /\ IsFiniteSet(rest) /\ Cardinality(rest) \in Nat /\ Cardinality(rest) <= CacheSize
  <2>1. IsFiniteSet(rest) /\ Cardinality(rest) <= Cardinality(cache)
    BY <1>1, FS_Subset
  <2> QED
    BY <1>1, <2>1, FS_CardinalityType
<1>3. new \in Sizes /\ new.measured = new.key
  BY DEF Types, Workers, Sizes
<1>4. all \subseteq Sizes /\ \A cached \in all : cached.measured = cached.key
  BY <1>1, <1>3 DEF Types
<1> HIDE DEF rest, new
<1>5. IsFiniteSet(all) /\ Cardinality(all) \in Nat /\ Cardinality(all) <= CacheSize + 1
  <2>1. /\ IsFiniteSet(all)
        /\ Cardinality(all) = IF new \in rest THEN Cardinality(rest) ELSE Cardinality(rest) + 1
    BY <1>2, FS_AddElement
  <2> HIDE DEF all
  <2> QED
    BY <1>1, <1>2, <2>1
<1>6. old \in all
  BY <1>4, OldestExists
<1>7. IsFiniteSet(all \ {old}) /\ Cardinality(all \ {old}) = Cardinality(all) - 1
  BY <1>5, <1>6, FS_RemoveElement
<1>8. Remembered = IF Cardinality(all) <= CacheSize THEN all ELSE all \ {old}
  BY DEF Remembered, Newest, rest, new
<1> HIDE DEF all, old
<1> QED
  BY <1>1, <1>4, <1>5, <1>7, <1>8

-----------------------------------------------------------------------------
LEMMA InitCoheres == Init => Coherence
<1> SUFFICES ASSUME Init PROVE Coherence
  OBVIOUS
<1> USE FolderSizeAssumption
<1>1. Types
  <2>1. cache \subseteq Sizes /\ IsFiniteSet(cache) /\ Cardinality(cache) <= CacheSize
    BY FS_EmptySet DEF Init
  <2>2. folderSize \in Views /\ worker \in Workers
    BY DEF Init, Idle, Resting, Views, Workers, Steps
  <2>3. covered \in BOOLEAN /\ shutdown \in BOOLEAN
    BY DEF Init
  <2>4. results \in Seq(Events) /\ Len(results) <= Capacity
    BY DEF Init
  <2> QED
    BY <2>1, <2>2, <2>3, <2>4 DEF Init, Types
<1>2. KeysAreBounded /\ RequestsFit /\ ViewFits
  BY DEF Init, KeysAreBounded, RequestsFit, ViewFits, Resting, Idle, HasRequest, InCall
<1>3. WorkerIsHonest /\ AnswersAreHonest
  BY DEF Init, WorkerIsHonest, AnswersAreHonest, HasRequest, Resting
<1>4. NoRequestIsLost /\ OldWorkIsReplaced
  BY DEF Init, NoRequestIsLost, OldWorkIsReplaced, Idle
<1> QED
  BY <1>1, <1>2, <1>3, <1>4, Typed DEF Coherence

-----------------------------------------------------------------------------
(* Steps of the foreground loop. *)

\* What every such step keeps, but the step of the loop.
LEMMA TurnCoheres ==
    ASSUME Coherence, EndDrain \/ SyncNothing \/ NoKey
    PROVE  Coherence'
<1>1. /\ ~InCall(ui) /\ ~InCall(ui')
      /\ ui' \in {"sync", "key", "drain"}
      /\ UNCHANGED <<screen, folderSize, scanner, results, worker, cache, keys>>
  BY DEF EndDrain, SyncNothing, NoKey, InCall
<1>2. Types'
  BY <1>1, Typed DEF Coherence, Types, screen, scanner
<1>3. KeysAreBounded' /\ RequestsFit' /\ ViewFits'
  BY <1>1 DEF Coherence, KeysAreBounded, RequestsFit, ViewFits, Fits, Given, HasRequest,
              screen, scanner
<1>4. WorkerIsHonest' /\ AnswersAreHonest'
  BY <1>1 DEF Coherence, WorkerIsHonest, AnswersAreHonest, HasRequest
<1>5. NoRequestIsLost' /\ OldWorkIsReplaced'
  BY <1>1 DEF Coherence, NoRequestIsLost, OldWorkIsReplaced, OnItsWay, InCall, scanner
<1> QED
  BY <1>2, <1>3, <1>4, <1>5, TypedNext DEF Coherence

LEMMA NewIdCoheres ==
    ASSUME Coherence, SyncCancel \/ SyncRequest \/ Quit
    PROVE  Coherence'
<1>1. /\ ~InCall(ui) /\ InCall(ui') /\ ui' \in {"clear", "fill", "drop"}
      /\ current' = next /\ next' = next + 1 /\ shutdown' \in {shutdown, TRUE}
      /\ UNCHANGED <<screen, folderSize, slot, results, worker, cache, keys>>
      /\ ui' = "fill" => ~NoFocus
  BY DEF SyncCancel, SyncRequest, Quit, InCall, NewId, ShutDown
<1>2. current' = current + 1 /\ next' = current' + 1 /\ current \in Nat
  BY <1>1 DEF Coherence, RequestsFit, TypeOK
<1>3. Types'
  <2>1. current' \in Nat /\ next' \in Nat
    BY <1>2
  <2>2. shutdown' \in BOOLEAN
    BY <1>1, Typed DEF Coherence, Types
  <2> QED
    BY <1>1, <2>1, <2>2, Typed DEF Coherence, Types, screen
<1>4. \A id : Given(id, current, ui) => Given(id, current', ui')
  BY <1>1, <1>2 DEF Given
<1>5. KeysAreBounded' /\ RequestsFit'
  BY <1>1, <1>2, <1>4 DEF Coherence, KeysAreBounded, RequestsFit, Fits, HasRequest, screen
<1>6. ViewFits'
  BY <1>1, <1>4 DEF Coherence, ViewFits, NoFocus, screen
<1>7. WorkerIsHonest' /\ AnswersAreHonest'
  BY <1>1 DEF Coherence, WorkerIsHonest, AnswersAreHonest, HasRequest
<1>8. NoRequestIsLost' /\ OldWorkIsReplaced'
  BY <1>1 DEF NoRequestIsLost, OldWorkIsReplaced, InCall
<1> QED
  BY <1>3, <1>5, <1>6, <1>7, <1>8, TypedNext DEF Coherence

LEMMA ClearSlotCoheres ==
    ASSUME Coherence, ClearSlot
    PROVE  Coherence'
<1>1. /\ InCall(ui) /\ ~InCall(ui') /\ ui' \in {"key", "gone"}
      /\ slot' = Nothing /\ folderSize' = Idle /\ folderSize'.state = "Idle"
      /\ UNCHANGED <<screen, current, next, shutdown, results, worker, cache, keys>>
  BY DEF ClearSlot, InCall, Cleared, Idle
<1>2. Types'
  <2>1. folderSize' \in Views
    BY <1>1 DEF Views, Idle
  <2> QED
    BY <1>1, <2>1, Typed DEF Coherence, Types, screen
<1>3. current \in Nat
  BY DEF Coherence, TypeOK
<1>4. \A id : Given(id, current, ui) => Given(id, current', ui')
  BY <1>1, <1>3 DEF Given
<1>5. KeysAreBounded' /\ RequestsFit'
  BY <1>1, <1>4 DEF Coherence, KeysAreBounded, RequestsFit, Fits, SameRequest, HasRequest, screen
<1>6. ViewFits' /\ WorkerIsHonest' /\ AnswersAreHonest'
  BY <1>1 DEF Coherence, ViewFits, WorkerIsHonest, AnswersAreHonest, HasRequest
<1>7. NoRequestIsLost' /\ OldWorkIsReplaced'
  BY <1>1 DEF NoRequestIsLost, OldWorkIsReplaced
<1> QED
  BY <1>2, <1>5, <1>6, <1>7, TypedNext DEF Coherence

\* What is requested is a folder of a pane.
LEMMA FocusIsAKey == Coherence /\ ui = "fill" => FocusKey \in Key
<1> SUFFICES ASSUME Coherence, ui = "fill" PROVE FocusKey \in Key
  OBVIOUS
<1>1. Types
  BY Typed DEF Coherence
<1>2. focus[active] \in Path
  BY <1>1 DEF Coherence, ViewFits, NoFocus, Types
<1> QED
  BY <1>1, <1>2 DEF FocusKey, Key, Types

LEMMA FillSlotCoheres ==
    ASSUME Coherence, FillSlot
    PROVE  Coherence'
<1>0. Types /\ current \in Nat
  BY Typed DEF Coherence, TypeOK
<1>1. FocusKey \in Key
  BY FocusIsAKey DEF FillSlot
<1>2. /\ InCall(ui) /\ ~InCall(ui') /\ ui' = "key"
      /\ slot' = [id |-> current, key |-> FocusKey]
      /\ folderSize' = [state |-> "Loading", id |-> current, key |-> FocusKey,
                        measured |-> Nothing]
      /\ UNCHANGED <<screen, current, next, shutdown, results, worker, cache, keys>>
  BY DEF FillSlot, InCall
<1> HIDE DEF FocusKey
<1>3. Types'
  <2>1. slot' \in Request /\ folderSize' \in Views
    BY <1>0, <1>1, <1>2 DEF Request, Views
  <2> QED
    BY <1>0, <1>2, <2>1 DEF Types, screen
<1>4. slot' # Nothing
  BY <1>0, <1>1, <1>2, FolderSizeAssumption DEF Request
<1>5. \A id, key : Fits(id, key, current, ui, folderSize)
                    => Fits(id, key, current', ui', folderSize')
  BY <1>0, <1>2 DEF Fits, Given, SameRequest
<1>6. Fits(slot'.id, slot'.key, current', ui', folderSize')
  BY <1>0, <1>2 DEF Fits, Given, SameRequest
<1>7. KeysAreBounded' /\ RequestsFit'
  BY <1>2, <1>5, <1>6 DEF Coherence, KeysAreBounded, RequestsFit, HasRequest, screen
<1>8. ViewFits'
  BY <1>0, <1>1, <1>2 DEF ViewFits, Given
<1>9. WorkerIsHonest' /\ AnswersAreHonest'
  BY <1>2 DEF Coherence, WorkerIsHonest, AnswersAreHonest, HasRequest
<1>10. NoRequestIsLost' /\ OldWorkIsReplaced'
  BY <1>2, <1>4 DEF NoRequestIsLost, OldWorkIsReplaced, OnItsWay
<1> QED
  BY <1>3, <1>7, <1>8, <1>9, <1>10, TypedNext DEF Coherence

LEMMA PressCoheres ==
    ASSUME Coherence, Press, ~Quit
    PROVE  Coherence'
<1>0. Types
  BY Typed DEF Coherence
<1>1. /\ ui = "key" /\ ui' = "drain" /\ keys > 0 /\ keys' = keys - 1
      /\ UNCHANGED <<folderSize, scanner, results, worker, cache>>
  BY DEF Press, MoveFocus, SwitchPane, Reload, Cover, Pressed
<1>2. /\ active' \in Pane /\ covered' \in BOOLEAN
      /\ focus' \in [Pane -> Path \cup {NoPath}]
      /\ generation' \in [Pane -> 0 .. Keys] /\ KeysAreBounded'
  <2>0. keys \in 0 .. Keys /\ Keys \in Nat /\ \A p \in Pane : generation[p] + keys <= Keys
    BY <1>0, FolderSizeAssumption DEF Types, Coherence, KeysAreBounded
  <2>1. ASSUME NEW path \in Path \cup {NoPath}, MoveFocus(path) PROVE <1>2
    BY <1>0, <1>1, <2>0, <2>1 DEF MoveFocus, Types, KeysAreBounded
  <2>2. ASSUME NEW pane \in Pane, SwitchPane(pane) PROVE <1>2
    BY <1>0, <1>1, <2>0, <2>2 DEF SwitchPane, Types, KeysAreBounded
  <2>3. ASSUME NEW pane \in Pane, NEW path \in Path \cup {NoPath}, Reload(pane, path)
        PROVE <1>2
    BY <1>0, <1>1, <2>0, <2>3 DEF Reload, Types, KeysAreBounded
  <2>4. ASSUME Cover PROVE <1>2
    BY <1>0, <1>1, <2>0, <2>4 DEF Cover, Types, KeysAreBounded
  <2> QED
    BY <2>1, <2>2, <2>3, <2>4 DEF Press
<1>3. keys' \in 0 .. Keys
  BY <1>0, <1>1, FolderSizeAssumption DEF Types
<1>4. Types'
  BY <1>0, <1>1, <1>2, <1>3 DEF Types, scanner
<1>5. ~InCall(ui) /\ ~InCall(ui')
  BY <1>1 DEF InCall
<1>6. RequestsFit' /\ ViewFits'
  BY <1>1, <1>5 DEF Coherence, RequestsFit, ViewFits, Fits, Given, HasRequest, scanner
<1>7. WorkerIsHonest' /\ AnswersAreHonest'
  BY <1>1 DEF Coherence, WorkerIsHonest, AnswersAreHonest, HasRequest
<1>8. NoRequestIsLost' /\ OldWorkIsReplaced'
  BY <1>1 DEF Coherence, NoRequestIsLost, OldWorkIsReplaced, OnItsWay, scanner
<1> QED
  BY <1>2, <1>4, <1>6, <1>7, <1>8, TypedNext DEF Coherence

(* Draining shows an answer to what is waited for, and passes by the others. *)
LEMMA DrainEventCoheres ==
    ASSUME Coherence, DrainEvent
    PROVE  /\ Coherence'
           /\ folderSize'.key = folderSize.key
           /\ folderSize'.measured \in {folderSize.measured, folderSize.key}
           /\ folderSize'.measured # folderSize.measured => folderSize.key \in Key
<1> DEFINE event == Head(results)
<1>0. Types
  BY Typed DEF Coherence
<1>1. /\ ui = "drain" /\ results # <<>> /\ results' = Tail(results)
      /\ UNCHANGED <<screen, ui, scanner, worker, cache, keys>>
  BY DEF DrainEvent
<1>2. /\ event = results[1] /\ 1 \in 1 .. Len(results) /\ event \in Events
      /\ results' \in Seq(Events) /\ Len(results') <= Capacity
      /\ \A i \in 1 .. Len(results') :
            i + 1 \in 1 .. Len(results) /\ results'[i] = results[i + 1]
      /\ \A i \in 2 .. Len(results) :
            i - 1 \in 1 .. Len(results') /\ results'[i - 1] = results[i]
  BY <1>0, <1>1, Drained
<1>3. /\ Fits(event.id, event.key, current, ui, folderSize)
      /\ event.measured \in {Nothing, event.key}
  BY <1>2 DEF Coherence, RequestsFit, AnswersAreHonest
<1>4. folderSize' = IF IsCurrent(event)
                    THEN [folderSize EXCEPT !.state = event.update,
                                            !.measured = event.measured]
                    ELSE folderSize
  BY DEF DrainEvent
<1> HIDE DEF event
<1>5. CASE ~IsCurrent(event)
  <2>1. folderSize' = folderSize
    BY <1>4, <1>5
  <2>2. Types'
    BY <1>0, <1>1, <1>2, <2>1 DEF Types, screen, scanner
  <2>3. KeysAreBounded' /\ RequestsFit' /\ ViewFits'
    BY <1>1, <1>2, <2>1 DEF Coherence, KeysAreBounded, RequestsFit, ViewFits, HasRequest,
                            NoFocus, screen, scanner
  <2>4. WorkerIsHonest' /\ AnswersAreHonest'
    BY <1>1, <1>2 DEF Coherence, WorkerIsHonest, AnswersAreHonest, HasRequest
  <2>5. OldWorkIsReplaced'
    BY <1>1 DEF Coherence, OldWorkIsReplaced, scanner
  <2>6. NoRequestIsLost'
    <3> SUFFICES ASSUME folderSize.state = "Loading"
                 PROVE  OnItsWay(folderSize.id)'
      BY <2>1 DEF NoRequestIsLost
    <3>1. OnItsWay(folderSize.id)
      BY <1>1 DEF Coherence, NoRequestIsLost
    <3>2. event.id # folderSize.id
      BY <1>3, <1>5 DEF IsCurrent, Fits, SameRequest
    <3>3. CASE \E i \in DOMAIN results : results[i].id = folderSize.id
                                         /\ results[i].update # "Loading"
      <4>1. PICK i \in 1 .. Len(results) : results[i].id = folderSize.id
                                            /\ results[i].update # "Loading"
        BY <1>0, <3>3 DEF Types
      <4>2. i \in 2 .. Len(results)
        BY <1>0, <1>2, <3>2, <4>1 DEF Types
      <4>3. i - 1 \in DOMAIN results' /\ results'[i - 1] = results[i]
        BY <1>2, <4>2
      <4> QED
        BY <2>1, <4>1, <4>3 DEF OnItsWay
    <3> QED
      BY <1>1, <2>1, <3>1, <3>3 DEF OnItsWay, scanner
  <2> QED
    BY <2>1, <2>2, <2>3, <2>4, <2>5, <2>6, TypedNext DEF Coherence
<1>6. CASE IsCurrent(event)
  <2>1. /\ folderSize.state = "Loading" /\ folderSize.measured = Nothing
        /\ folderSize.id = event.id /\ folderSize.key = event.key
        /\ folderSize.key \in Key
    BY <1>6 DEF IsCurrent, Coherence, ViewFits
  <2>2. /\ folderSize' \in Views
        /\ folderSize'.state = event.update /\ folderSize'.measured = event.measured
        /\ folderSize'.id = folderSize.id /\ folderSize'.key = folderSize.key
        /\ event.update \in {"Loading", "Ready", "Failed"}
    BY <1>0, <1>2, <1>4, <1>6 DEF Types, Views, Events
  <2>3. Types'
    BY <1>0, <1>1, <1>2, <2>2 DEF Types, screen, scanner
  <2>4. \A id, key : Fits(id, key, current, ui, folderSize)
                    => Fits(id, key, current', ui', folderSize')
    BY <1>1, <2>1, <2>2 DEF Fits, SameRequest, scanner
  <2>5. KeysAreBounded' /\ RequestsFit'
    BY <1>1, <1>2, <2>4 DEF Coherence, KeysAreBounded, RequestsFit, HasRequest, screen, scanner
  <2>6. event.update = "Loading" => event.measured = Nothing
    BY <1>2 DEF Coherence, AnswersAreHonest
  <2>7. ViewFits'
    BY <1>1, <2>1, <2>2, <2>6 DEF Coherence, ViewFits, Given, scanner
  <2>8. WorkerIsHonest' /\ AnswersAreHonest'
    BY <1>1, <1>2 DEF Coherence, WorkerIsHonest, AnswersAreHonest, HasRequest
  <2>9. OldWorkIsReplaced'
    BY <1>1 DEF Coherence, OldWorkIsReplaced, scanner
  <2>10. NoRequestIsLost'
    <3> SUFFICES ASSUME folderSize'.state = "Loading"
                 PROVE  OnItsWay(folderSize.id)'
      BY <2>2 DEF NoRequestIsLost
    <3>1. OnItsWay(folderSize.id) /\ event.update = "Loading"
      BY <1>1, <2>1, <2>2 DEF Coherence, NoRequestIsLost
    <3>3. CASE \E i \in DOMAIN results : results[i].id = folderSize.id
                                         /\ results[i].update # "Loading"
      <4>1. PICK i \in 1 .. Len(results) : results[i].id = folderSize.id
                                            /\ results[i].update # "Loading"
        BY <1>0, <3>3 DEF Types
      <4>2. i \in 2 .. Len(results)
        BY <1>0, <1>2, <3>1, <4>1 DEF Types
      <4>3. i - 1 \in DOMAIN results' /\ results'[i - 1] = results[i]
        BY <1>2, <4>2
      <4> QED
        BY <2>2, <4>1, <4>3 DEF OnItsWay
    <3> QED
      BY <1>1, <2>2, <3>1, <3>3 DEF OnItsWay, scanner
  <2>11. Coherence'
    BY <2>3, <2>5, <2>7, <2>8, <2>9, <2>10, TypedNext DEF Coherence
  <2> QED
    BY <1>3, <2>1, <2>2, <2>11
<1> QED
  BY <1>5, <1>6

-----------------------------------------------------------------------------
(* Steps of the thread. *)

\* The thread keeps its request, or drops one that is not in force.
LEMMA WorkerCoheres ==
    ASSUME Coherence,
           UNCHANGED <<screen, folderSize, ui, scanner, results, keys>>,
           worker' \in Workers,
           HasRequest' => HasRequest /\ worker'.id = worker.id /\ worker'.key = worker.key,
           WorkerIsHonest',
           worker.step = "take" \/ worker.id # current
              \/ (worker'.step # "take" /\ worker'.id = worker.id),
           /\ cache' \subseteq Sizes /\ IsFiniteSet(cache')
           /\ Cardinality(cache') <= CacheSize
           /\ \A cached \in cache' : cached.measured = cached.key
    PROVE  Coherence'
<1>1. Types'
  BY Typed DEF Coherence, Types, screen, scanner
<1>2. KeysAreBounded' /\ ViewFits' /\ OldWorkIsReplaced'
  BY DEF Coherence, KeysAreBounded, ViewFits, NoFocus, OldWorkIsReplaced, screen, scanner
<1>3. RequestsFit'
  BY DEF Coherence, RequestsFit, scanner
<1>4. AnswersAreHonest'
  BY DEF Coherence, AnswersAreHonest
<1>5. NoRequestIsLost'
  <2> SUFFICES ASSUME folderSize.state = "Loading", ~InCall(ui)
               PROVE  OnItsWay(folderSize.id)'
    BY DEF NoRequestIsLost, InCall
  <2>1. OnItsWay(folderSize.id) /\ folderSize.id = current
    BY DEF Coherence, NoRequestIsLost, ViewFits, InCall
  <2> QED
    BY <2>1 DEF OnItsWay, scanner
<1> QED
  BY <1>1, <1>2, <1>3, <1>4, <1>5, TypedNext DEF Coherence

LEMMA CacheCoheres ==
    Coherence => /\ cache \subseteq Sizes /\ IsFiniteSet(cache)
                 /\ Cardinality(cache) <= CacheSize
                 /\ \A cached \in cache : cached.measured = cached.key
  BY Typed DEF Coherence, Types, AnswersAreHonest

LEMMA StepsCohere ==
    ASSUME Coherence,
           Stop \/ CacheHit \/ CacheMiss \/ BeginMeasure \/ Superseded \/ Measured
           \/ MeasureFails \/ SendToNobody
    PROVE  Coherence'
<1>0. worker \in Workers
  BY Typed DEF Coherence, Types
<1> USE DEF Doing, Goes, HasRequest, WorkerIsHonest, Workers, Steps
<1>1. CASE Stop
  BY <1>0, <1>1, WorkerCoheres, CacheCoheres DEF Stop
<1>2. CASE CacheHit
  <2>1. PICK cached \in cache :
          /\ cached.key = worker.key
          /\ worker' = [worker EXCEPT !.step = "send Ready", !.measured = cached.measured]
    BY <1>2 DEF CacheHit, SameKey
  <2>2. cached.measured = worker.key /\ worker.key \in Key
    BY <1>0, <1>2, <2>1, CacheCoheres DEF CacheHit, Coherence
  <2> QED
    BY <1>0, <1>2, <2>1, <2>2, WorkerCoheres, CacheCoheres DEF CacheHit
<1>3. CASE CacheMiss \/ BeginMeasure
  BY <1>0, <1>3, WorkerCoheres, CacheCoheres DEF CacheMiss, BeginMeasure, Coherence
<1>4. CASE Superseded
  BY <1>0, <1>4, WorkerCoheres, CacheCoheres DEF Superseded, Resting, InForce
<1>5. CASE Measured
  <2>1. worker.key \in Key /\ worker.measured = worker.key
    BY <1>5 DEF Measured, Coherence
  <2>2. /\ cache' \subseteq Sizes /\ IsFiniteSet(cache')
        /\ Cardinality(cache') <= CacheSize
        /\ \A cached \in cache' : cached.measured = cached.key
    BY <1>5, <2>1, CacheIsBounded, CacheCoheres, Typed DEF Measured, Coherence
  <2> QED
    BY <1>0, <1>5, <2>1, <2>2, WorkerCoheres DEF Measured
<1>6. CASE MeasureFails \/ SendToNobody
  BY <1>0, <1>6, WorkerCoheres, CacheCoheres DEF MeasureFails, SendToNobody, Sending, Coherence
<1> QED
  BY <1>1, <1>2, <1>3, <1>4, <1>5, <1>6

LEMMA TakeCoheres ==
    ASSUME Coherence, Take
    PROVE  Coherence'
<1>0. Types
  BY Typed DEF Coherence
<1>1. /\ worker.step = "take" /\ slot # Nothing /\ slot \in Request
      /\ worker' = [step |-> "lookup", id |-> slot.id, key |-> slot.key,
                    measured |-> Nothing]
      /\ slot' = Nothing
      /\ UNCHANGED <<screen, folderSize, ui, current, next, shutdown, results, cache, keys>>
  BY <1>0 DEF Take, Doing, Types
<1>2. Types'
  <2>1. worker' \in Workers
    BY <1>1 DEF Workers, Steps, Request
  <2> QED
    BY <1>0, <1>1, <2>1 DEF Types, screen
<1>3. KeysAreBounded' /\ ViewFits' /\ OldWorkIsReplaced' /\ AnswersAreHonest'
  BY <1>1 DEF Coherence, KeysAreBounded, ViewFits, NoFocus, OldWorkIsReplaced,
              AnswersAreHonest, screen
<1>4. RequestsFit' /\ WorkerIsHonest'
  BY <1>1 DEF Coherence, RequestsFit, WorkerIsHonest, Request
<1>5. NoRequestIsLost'
  BY <1>1 DEF Coherence, NoRequestIsLost, OnItsWay
<1> QED
  BY <1>2, <1>3, <1>4, <1>5, TypedNext DEF Coherence

(* An event is appended; the thread goes on, or has answered. *)
LEMMA SendCoheres ==
    ASSUME Coherence, Progress \/ SendResult
    PROVE  Coherence'
<1>0. Types /\ worker \in Workers
  BY Typed DEF Coherence, Types
<1>1. PICK update \in {"Loading", "Ready", "Failed"} :
        /\ results' = Append(results, Event(update))
        /\ update = "Loading" => worker' = worker
        /\ update # "Loading" => worker' = Resting
  BY DEF Progress, SendResult
<1>2. /\ HasRequest /\ Len(results) < Capacity /\ worker' \in {worker, Resting}
      /\ UNCHANGED <<screen, folderSize, ui, scanner, cache, keys>>
  BY DEF Progress, SendResult, Sending, Doing, HasRequest
<1>3. worker.key \in Key /\ worker.measured \in {Nothing, worker.key}
  BY <1>2 DEF Coherence, WorkerIsHonest
<1> DEFINE event == Event(update)
<1>4. /\ event \in Events /\ event.id = worker.id /\ event.key = worker.key
      /\ event.update = update /\ event.measured \in {Nothing, event.key}
      /\ event.update = "Loading" => event.measured = Nothing
  BY <1>0, <1>3 DEF Event, Events, Workers
<1> HIDE DEF event
<1>5. /\ results' \in Seq(Events) /\ Len(results') = Len(results) + 1
      /\ Len(results') <= Capacity
      /\ \A i \in 1 .. Len(results) : i \in 1 .. Len(results') /\ results'[i] = results[i]
      /\ results'[Len(results) + 1] = event /\ Len(results) + 1 \in 1 .. Len(results')
      /\ \A i \in 1 .. Len(results') : i \in 1 .. Len(results) \/ i = Len(results) + 1
  BY <1>0, <1>1, <1>2, <1>4, AppendProperties, FolderSizeAssumption DEF Types, event
<1>6. Types'
  <2>1. worker' \in Workers
    <3>1. Resting \in Workers
      BY DEF Resting, Workers, Steps
    <3> QED
      BY <1>0, <1>2, <3>1
  <2> QED
    BY <1>0, <1>2, <1>5, <2>1 DEF Types, screen, scanner
<1>7. KeysAreBounded' /\ ViewFits' /\ OldWorkIsReplaced'
  BY <1>2 DEF Coherence, KeysAreBounded, ViewFits, NoFocus, OldWorkIsReplaced, screen, scanner
<1>8. RequestsFit'
  <2>1. Fits(event.id, event.key, current, ui, folderSize)
    BY <1>2, <1>4 DEF Coherence, RequestsFit
  <2>2. HasRequest' => worker' = worker
    BY <1>2 DEF HasRequest, Resting
  <2> QED
    BY <1>2, <1>5, <2>1, <2>2 DEF Coherence, RequestsFit, scanner
<1>9. WorkerIsHonest'
  BY <1>2 DEF Coherence, WorkerIsHonest, HasRequest, Resting
<1>10. AnswersAreHonest'
  BY <1>2, <1>4, <1>5 DEF Coherence, AnswersAreHonest
<1>11. NoRequestIsLost'
  <2> SUFFICES ASSUME folderSize.state = "Loading", ~InCall(ui)
               PROVE  OnItsWay(folderSize.id)'
    BY <1>2 DEF NoRequestIsLost, InCall
  <2>1. OnItsWay(folderSize.id)
    BY DEF Coherence, NoRequestIsLost, InCall
  <2>2. DOMAIN results = 1 .. Len(results) /\ DOMAIN results' = 1 .. Len(results')
    BY <1>0, <1>5 DEF Types
  <2>3. CASE slot # Nothing /\ slot.id = folderSize.id
    BY <1>2, <2>3 DEF OnItsWay, scanner
  <2>4. CASE \E i \in DOMAIN results : results[i].id = folderSize.id
                                       /\ results[i].update # "Loading"
    BY <1>2, <1>5, <2>2, <2>4 DEF OnItsWay
  <2>5. CASE worker.id = folderSize.id /\ worker.step # "take"
    <3>1. CASE worker' = worker
      BY <1>2, <2>5, <3>1 DEF OnItsWay
    <3>2. CASE update # "Loading"
      BY <1>2, <1>4, <1>5, <2>2, <2>5, <3>2 DEF OnItsWay
    <3> QED
      BY <1>1, <3>1, <3>2
  <2> QED
    BY <2>1, <2>3, <2>4, <2>5 DEF OnItsWay
<1> QED
  BY <1>6, <1>7, <1>8, <1>9, <1>10, <1>11, TypedNext DEF Coherence

-----------------------------------------------------------------------------
LEMMA NextCoheres == Coherence /\ [Next]_vars => Coherence'
<1> SUFFICES ASSUME Coherence, [Next]_vars PROVE Coherence'
  OBVIOUS
<1>1. CASE Loop
  BY <1>1, TurnCoheres, NewIdCoheres, ClearSlotCoheres, FillSlotCoheres, DrainEventCoheres
     DEF Loop
<1>2. CASE Press
  BY <1>2, PressCoheres, NewIdCoheres
<1>3. CASE Work
  BY <1>3, TakeCoheres, StepsCohere, SendCoheres DEF Work
<1>4. CASE Progress
  BY <1>4, SendCoheres
<1>5. CASE UNCHANGED vars
  <2>1. Types'
    BY <1>5, Typed DEF Coherence, Types, vars, screen, scanner
  <2>2. KeysAreBounded' /\ RequestsFit' /\ ViewFits'
    BY <1>5 DEF Coherence, KeysAreBounded, RequestsFit, ViewFits, NoFocus, HasRequest,
                vars, screen, scanner
  <2>3. WorkerIsHonest' /\ AnswersAreHonest'
    BY <1>5 DEF Coherence, WorkerIsHonest, AnswersAreHonest, HasRequest, vars
  <2>4. NoRequestIsLost' /\ OldWorkIsReplaced'
    BY <1>5 DEF Coherence, NoRequestIsLost, OldWorkIsReplaced, OnItsWay, vars, scanner
  <2> QED
    BY <2>1, <2>2, <2>3, <2>4, TypedNext DEF Coherence
<1> QED
  BY <1>1, <1>2, <1>3, <1>4, <1>5 DEF Next, Ended

LEMMA AlwaysCoheres == Spec => []Coherence
<1> QED
  BY InitCoheres, NextCoheres, PTL DEF Spec

(* Slot, channel, thread and screen agree about what has been asked for, in
   the two steps of request and cancel too: a size that is waited for is on
   its way, and an old request never waits behind a newer one. *)
THEOREM SizesAgree == Spec => []SizeInvariant
<1>1. Coherence => SizeInvariant
  BY DEF Coherence, SizeInvariant
<1> QED
  BY <1>1, AlwaysCoheres, PTL

(* The size that is shown was read for the folder that is focused, in the
   present listing of its pane. *)
THEOREM SizesAreOfTheFocus == Spec => ImplementsLatestWins
<1>1. Init => W!Init
  BY DEF Init, Idle, W!Init
<1>2. Coherence /\ [Next]_vars => [W!Next]_(W!vars)
  <2> SUFFICES ASSUME Coherence, [Next]_vars PROVE [W!Next]_(W!vars)
    OBVIOUS
  <2>1. CASE DrainEvent
    <3>1. /\ folderSize'.key = folderSize.key
          /\ folderSize'.measured \in {folderSize.measured, folderSize.key}
          /\ folderSize'.measured # folderSize.measured => folderSize.key \in Key
      BY <2>1, DrainEventCoheres
    <3> QED
      BY <3>1, FolderSizeAssumption DEF W!Next, W!Answer, W!vars
  <2>2. CASE ClearSlot
    <3>1. folderSize'.key = Nothing /\ folderSize'.measured = Nothing
      BY <2>2 DEF ClearSlot, Idle
    <3> QED
      BY <3>1 DEF W!Next, W!Want
  <2>3. CASE FillSlot
    <3>1. FocusKey \in Key
      BY <2>3, FocusIsAKey DEF FillSlot
    <3>2. folderSize'.key = FocusKey /\ folderSize'.measured = Nothing
      BY <2>3 DEF FillSlot
    <3> QED
      BY <3>1, <3>2 DEF W!Next, W!Want
  <2>4. CASE UNCHANGED folderSize
    BY <2>4 DEF W!vars
  <2>5. CASE EndDrain \/ SyncNothing \/ SyncCancel \/ SyncRequest \/ NoKey
    BY <2>4, <2>5 DEF EndDrain, SyncNothing, SyncCancel, SyncRequest, NoKey
  <2>6. CASE Press
    BY <2>4, <2>6 DEF Press, MoveFocus, SwitchPane, Reload, Cover, Quit
  <2>7. CASE Work \/ Progress
    BY <2>4, <2>7 DEF Work, Progress, Take, Stop, CacheHit, CacheMiss, BeginMeasure,
                      Superseded, Measured, MeasureFails, SendResult, SendToNobody
  <2> QED
    BY <2>1, <2>2, <2>3, <2>4, <2>5, <2>6, <2>7 DEF Next, Loop, Ended, vars
<1> QED
  BY <1>1, <1>2, AlwaysCoheres, PTL DEF Spec, ImplementsLatestWins, W!Spec
=============================================================================
