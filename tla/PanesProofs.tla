----------------------------- MODULE PanesProofs -----------------------------
(***************************************************************************)
(* Proofs about Panes: for any number of panes, loads and channel places,  *)
(* no scan is lost, a pane shows nothing but what it was asked for last,   *)
(* and the expected entry gets the focus back.                             *)
(***************************************************************************)
EXTENDS Panes, SequenceTheorems, TLAPS

Targets == Place \cup AllEntries \cup {Nothing}
States == [generation : 1 .. MaxGeneration, location : Place,
           load : {"Loading", "Ready", "Failed"},
           listing : Wishes \cup {Nothing},
           focus : AllEntries \cup {Nothing},
           restore : Place \cup AllEntries \cup {Nothing}]
Steps == {"take", "scan", "send", "stopped"}
Events == [pane : Pane, request : Requests, ok : BOOLEAN]

\* A request that is on its way to a pane is the pane's own, or an older one.
Addresses(request, state) ==
    /\ request \in Requests
    /\ request.generation <= state.generation
    /\ request.generation = state.generation => request.location = state.location

RestoreIsExpected == \A p \in Pane : expected[p] = pane[p].restore

TokenIsOfThePane ==
    \A p \in Pane : current[p] = IF closed THEN 0 ELSE pane[p].generation

PendingIsOwn ==
    \A p \in Pane : pending[p] # Nothing =>
        pending[p] = [generation |-> pane[p].generation, location |-> pane[p].location]

WorkerIsBehind ==
    \A p \in Pane :
        /\ worker[p].step \in {"scan", "send"} => Addresses(worker[p].request, pane[p])
        /\ worker[p].step = "stopped" => closed

ResultsAreBehind ==
    \A i \in 1 .. Len(results) : Addresses(results[i].request, pane[results[i].pane])

ShowsItsWish == \A p \in Pane : pane[p].listing \in {Nothing, WishOf(p)}

\* The inductive invariant.
Agreement ==
    /\ TypeOK
    /\ RestoreIsExpected
    /\ TokenIsOfThePane
    /\ PendingIsOwn
    /\ WorkerIsBehind
    /\ ResultsAreBehind
    /\ ShowsItsWish
    /\ NoScanIsLost

-----------------------------------------------------------------------------
LEMMA ResultsTyped ==
    ASSUME results \in Seq(Events), Len(results) <= Capacity
    PROVE  \A i \in 1 .. Len(results) :
              /\ results[i].pane \in Pane
              /\ results[i].request \in Requests
              /\ results[i].ok \in BOOLEAN
<1> SUFFICES ASSUME NEW i \in 1 .. Len(results)
             PROVE  /\ results[i].pane \in Pane
                    /\ results[i].request \in Requests
                    /\ results[i].ok \in BOOLEAN
  OBVIOUS
<1>1. results[i] \in Events
  OBVIOUS
<1> QED
  BY <1>1 DEF Events

LEMMA InitAgrees == Init => Agreement
<1> SUFFICES ASSUME Init PROVE Agreement
  OBVIOUS
<1> USE PanesAssumption
<1>1. TypeOK
  <2>1. pane \in [Pane -> [generation : 1 .. MaxGeneration, location : Place,
                            load : {"Loading", "Ready", "Failed"},
                            listing : Wishes \cup {Nothing},
                            focus : AllEntries \cup {Nothing},
                            restore : Targets]]
    BY DEF Init, Loading, Targets
  <2>2. pending \in [Pane -> Requests \cup {Nothing}]
    BY DEF Init, Requests
  <2>3. worker \in [Pane -> [step : Steps, request : Requests \cup {Nothing}, ok : BOOLEAN]]
    BY DEF Init, Resting, Steps
  <2>4. results = <<>> /\ closed = FALSE /\ current \in [Pane -> 0 .. MaxGeneration]
    BY DEF Init
  <2>5. expected \in [Pane -> AllEntries \cup Place \cup {Nothing}]
    BY DEF Init
  <2>6. results \in Seq(Events) /\ Len(results) <= Capacity
    BY <2>4
  <2>7. closed \in BOOLEAN
    BY <2>4
  <2> QED
    BY <2>1, <2>2, <2>3, <2>4, <2>5, <2>6, <2>7 DEF TypeOK, Targets, Steps, Events
<1>2. RestoreIsExpected /\ TokenIsOfThePane /\ PendingIsOwn
  BY DEF Init, Loading, RestoreIsExpected, TokenIsOfThePane, PendingIsOwn
<1>3. WorkerIsBehind /\ ResultsAreBehind /\ ShowsItsWish
  BY DEF Init, Loading, Resting, WorkerIsBehind, ResultsAreBehind, ShowsItsWish
<1>4. NoScanIsLost
  BY DEF Init, Loading, NoScanIsLost
<1> QED
  BY <1>1, <1>2, <1>3, <1>4 DEF Agreement

-----------------------------------------------------------------------------
(* A new load: every request that is on its way becomes an older one. *)

LEMMA LoadAgrees ==
    ASSUME Agreement, NEW p \in Pane, NEW location \in Place, NEW restore \in Targets,
           Load(p, location, restore),
           expected' = [expected EXCEPT ![p] = restore]
    PROVE  Agreement'
<1> USE PanesAssumption
<1>0. TypeOK /\ TokenIsOfThePane
  BY DEF Agreement
<1>1. pane' = [pane EXCEPT ![p] = Loading(pane[p].generation + 1, location, restore)]
  BY DEF Load
<1>2. /\ pane[p].generation + 1 \in 1 .. MaxGeneration
      /\ current[p] = pane[p].generation
  BY <1>0 DEF Load, TypeOK, TokenIsOfThePane
<1>3. /\ pane'[p] = Loading(pane[p].generation + 1, location, restore)
      /\ \A q \in Pane \ {p} : pane'[q] = pane[q]
      /\ pending'[p] = Request(p)
      /\ \A q \in Pane \ {p} : pending'[q] = pending[q]
      /\ current'[p] = current[p] + 1
      /\ \A q \in Pane \ {p} : current'[q] = current[q]
      /\ UNCHANGED <<worker, results, closed>>
  BY <1>0, <1>1 DEF Load, TypeOK
<1>4. Request(p) = [generation |-> pane[p].generation + 1, location |-> location]
  BY <1>3 DEF Request, Loading
<1>5. TypeOK'
  <2>1. pane' \in [Pane -> [generation : 1 .. MaxGeneration, location : Place,
                            load : {"Loading", "Ready", "Failed"},
                            listing : Wishes \cup {Nothing},
                            focus : AllEntries \cup {Nothing},
                            restore : Targets]]
    BY <1>0, <1>1, <1>2 DEF TypeOK, Loading, Targets
  <2>2. pending' \in [Pane -> Requests \cup {Nothing}]
    BY <1>0, <1>2, <1>4 DEF TypeOK, Load, Requests
  <2>3. current' \in [Pane -> 0 .. MaxGeneration]
    BY <1>0, <1>2 DEF TypeOK, Load
  <2>4. expected' \in [Pane -> AllEntries \cup Place \cup {Nothing}]
    BY <1>0 DEF TypeOK, Targets
  <2> QED
    BY <1>0, <1>3, <2>1, <2>2, <2>3, <2>4 DEF TypeOK, Targets
<1>6. RestoreIsExpected'
  BY <1>0, <1>3 DEF Agreement, RestoreIsExpected, Loading, TypeOK
<1>7. TokenIsOfThePane'
  BY <1>0, <1>2, <1>3 DEF Load, Loading, TokenIsOfThePane
<1>8. PendingIsOwn'
  BY <1>3, <1>4 DEF Agreement, PendingIsOwn, Loading
<1>9. \A q \in Pane : \A request :
        Addresses(request, pane[q]) => Addresses(request, pane'[q])
  <2> SUFFICES ASSUME NEW q \in Pane, NEW request, Addresses(request, pane[q])
               PROVE  Addresses(request, pane'[q])
    OBVIOUS
  <2>1. CASE q # p
    BY <1>3, <2>1
  <2>2. CASE q = p
    <3>1. pane[p].generation \in Nat /\ pane'[p].generation = pane[p].generation + 1
      BY <1>0, <1>3 DEF TypeOK, Loading
    <3>2. request.generation \in Nat
      BY DEF Addresses, Requests
    <3> QED
      BY <2>2, <3>1, <3>2 DEF Addresses
  <2> QED
    BY <2>1, <2>2
<1>10. WorkerIsBehind'
  BY <1>3, <1>9 DEF Agreement, WorkerIsBehind
<1>11. ResultsAreBehind'
  <2>1. \A i \in 1 .. Len(results) : results[i].pane \in Pane
    BY <1>0, ResultsTyped DEF TypeOK, Events
  <2> QED
    BY <1>3, <1>9, <2>1 DEF Agreement, ResultsAreBehind
<1>12. ShowsItsWish'
  BY <1>3 DEF Agreement, ShowsItsWish, WishOf, Loading
<1>13. NoScanIsLost'
  <2> SUFFICES ASSUME NEW q \in Pane, pane'[q].load = "Loading", ~closed'
               PROVE  NoScanIsLost!(q)!2'
    BY DEF NoScanIsLost
  <2>1. CASE q = p
    BY <1>3, <1>4, <2>1 DEF Loading
  <2>2. CASE q # p
    BY <1>3, <2>2 DEF Agreement, NoScanIsLost, At, Cancelled
  <2> QED
    BY <2>1, <2>2
<1> QED
  BY <1>5, <1>6, <1>7, <1>8, <1>10, <1>11, <1>12, <1>13 DEF Agreement

(* What leaves the requests alone keeps them behind the pane. *)
LEMMA MoveFocusAgrees ==
    ASSUME Agreement, NEW p \in Pane, NEW entry \in Entries[pane[p].location],
           MoveFocus(p, entry)
    PROVE  Agreement'
<1>0. TypeOK
  BY DEF Agreement
<1>1. entry \in AllEntries
  BY <1>0 DEF TypeOK, AllEntries
<1>2. \A q \in Pane :
        /\ pane'[q].generation = pane[q].generation
        /\ pane'[q].location = pane[q].location
        /\ pane'[q].load = pane[q].load
        /\ pane'[q].listing = pane[q].listing
        /\ pane'[q].restore = pane[q].restore
  BY <1>0 DEF MoveFocus, TypeOK
<1>3. UNCHANGED <<pending, current, worker, results, closed, expected>>
  BY DEF MoveFocus
<1>4. TypeOK'
  <2>1. pane \in [Pane -> States]
    BY <1>0 DEF TypeOK, States
  <2>2. [pane[p] EXCEPT !.focus = entry] \in States
    BY <1>1, <2>1 DEF States
  <2>3. pane' \in [Pane -> States]
    BY <2>1, <2>2 DEF MoveFocus
  <2> QED
    BY <1>0, <1>3, <2>3 DEF TypeOK, States
<1>5. RestoreIsExpected' /\ TokenIsOfThePane' /\ PendingIsOwn'
  BY <1>2, <1>3 DEF Agreement, RestoreIsExpected, TokenIsOfThePane, PendingIsOwn
<1>6. WorkerIsBehind'
  BY <1>2, <1>3 DEF Agreement, WorkerIsBehind, Addresses
<1>7. ResultsAreBehind'
  BY <1>0, <1>2, <1>3, ResultsTyped
     DEF Agreement, ResultsAreBehind, Addresses, TypeOK, Events
<1>8. ShowsItsWish'
  BY <1>2, <1>3 DEF Agreement, ShowsItsWish, WishOf
<1>9. NoScanIsLost'
  BY <1>2, <1>3 DEF Agreement, NoScanIsLost, At, Cancelled
<1> QED
  BY <1>4, <1>5, <1>6, <1>7, <1>8, <1>9 DEF Agreement

LEMMA QuitAgrees ==
    ASSUME Agreement, Quit
    PROVE  Agreement'
<1> USE PanesAssumption
<1>0. TypeOK
  BY DEF Agreement
<1>1. /\ closed' = TRUE
      /\ pending' = [p \in Pane |-> Nothing]
      /\ current' = [p \in Pane |-> 0]
      /\ UNCHANGED <<pane, worker, results, expected>>
  BY DEF Quit
<1>2. TypeOK'
  BY <1>0, <1>1 DEF TypeOK
<1>3. RestoreIsExpected' /\ TokenIsOfThePane' /\ PendingIsOwn'
  BY <1>1 DEF Agreement, RestoreIsExpected, TokenIsOfThePane, PendingIsOwn
<1>4. WorkerIsBehind' /\ ResultsAreBehind' /\ ShowsItsWish'
  BY <1>1 DEF Agreement, WorkerIsBehind, ResultsAreBehind, ShowsItsWish, Addresses, WishOf
<1>5. NoScanIsLost'
  BY <1>1 DEF NoScanIsLost
<1> QED
  BY <1>2, <1>3, <1>4, <1>5 DEF Agreement

-----------------------------------------------------------------------------
(* The threads.  Only the step at which a scan stands is touched. *)

LEMMA TakeAgrees ==
    ASSUME Agreement, NEW p \in Pane, Take(p)
    PROVE  Agreement'
<1> USE PanesAssumption
<1>0. TypeOK /\ TokenIsOfThePane
  BY DEF Agreement
<1>1. /\ ~closed /\ pending[p] # Nothing
      /\ worker' = [worker EXCEPT ![p] = [step |-> "scan", request |-> pending[p], ok |-> FALSE]]
      /\ pending' = [pending EXCEPT ![p] = Nothing]
      /\ UNCHANGED <<pane, current, results, closed, expected>>
  BY DEF Take, Finishes
<1>2. /\ pending[p] \in Requests
      /\ pending[p].generation = pane[p].generation
      /\ pending[p].location = pane[p].location
      /\ current[p] = pane[p].generation
      /\ pane[p].generation \in Nat
  BY <1>0, <1>1 DEF TypeOK, Agreement, PendingIsOwn, TokenIsOfThePane
<1>3. TypeOK'
  <2>1. worker' \in [Pane -> [step : Steps, request : Requests \cup {Nothing}, ok : BOOLEAN]]
    BY <1>0, <1>1, <1>2 DEF TypeOK, Steps
  <2>2. pending' \in [Pane -> Requests \cup {Nothing}]
    BY <1>0, <1>1 DEF TypeOK
  <2> QED
    BY <1>0, <1>1, <2>1, <2>2 DEF TypeOK, Steps
<1>4. RestoreIsExpected' /\ TokenIsOfThePane' /\ PendingIsOwn'
  BY <1>0, <1>1 DEF Agreement, RestoreIsExpected, TokenIsOfThePane, PendingIsOwn, TypeOK
<1>5. WorkerIsBehind'
  BY <1>0, <1>1, <1>2 DEF Agreement, WorkerIsBehind, Addresses, TypeOK
<1>6. ResultsAreBehind' /\ ShowsItsWish'
  BY <1>1 DEF Agreement, ResultsAreBehind, ShowsItsWish, Addresses, WishOf
<1>7. NoScanIsLost'
  BY <1>0, <1>1, <1>2 DEF Agreement, NoScanIsLost, At, Cancelled, TypeOK
<1> QED
  BY <1>3, <1>4, <1>5, <1>6, <1>7 DEF Agreement

\* A thread that loses its request was not at the pane's own, or nobody listens.
LEMMA RestAgrees ==
    ASSUME Agreement, NEW p \in Pane, NEW step \in {"take", "stopped"},
           worker' = [worker EXCEPT ![p] = [step |-> step, request |-> Nothing, ok |-> FALSE]],
           UNCHANGED <<pane, pending, current, results, closed, expected>>,
           closed \/ (step = "take" /\ (At(p, "take") \/ Cancelled(p)))
    PROVE  Agreement'
<1>0. TypeOK
  BY DEF Agreement
<1>1. TypeOK'
  <2>1. worker' \in [Pane -> [step : Steps, request : Requests \cup {Nothing}, ok : BOOLEAN]]
    BY <1>0 DEF TypeOK, Steps
  <2> QED
    BY <1>0, <2>1 DEF TypeOK, Steps
<1>2. RestoreIsExpected' /\ TokenIsOfThePane' /\ PendingIsOwn'
  BY DEF Agreement, RestoreIsExpected, TokenIsOfThePane, PendingIsOwn
<1>3. WorkerIsBehind'
  BY <1>0 DEF Agreement, WorkerIsBehind, Addresses, TypeOK
<1>4. ResultsAreBehind' /\ ShowsItsWish'
  BY DEF Agreement, ResultsAreBehind, ShowsItsWish, Addresses, WishOf
<1>5. NoScanIsLost'
  BY <1>0 DEF Agreement, NoScanIsLost, At, Cancelled, TypeOK
<1> QED
  BY <1>1, <1>2, <1>3, <1>4, <1>5 DEF Agreement

LEMMA ScanAgrees ==
    ASSUME Agreement, NEW p \in Pane, NEW ok \in BOOLEAN, Scan(p, ok)
    PROVE  Agreement'
<1>0. TypeOK
  BY DEF Agreement
<1>1. /\ worker[p].step = "scan"
      /\ worker' = [worker EXCEPT ![p] = [worker[p] EXCEPT !.step = "send", !.ok = ok]]
      /\ UNCHANGED <<pane, pending, current, results, closed, expected>>
  BY DEF Scan, Finishes, At
<1>2. /\ worker'[p].request = worker[p].request
      /\ worker'[p].step = "send"
      /\ \A q \in Pane \ {p} : worker'[q] = worker[q]
  BY <1>0, <1>1 DEF TypeOK
<1>3. TypeOK'
  <2>1. worker' \in [Pane -> [step : Steps, request : Requests \cup {Nothing}, ok : BOOLEAN]]
    BY <1>0, <1>1 DEF TypeOK, Steps
  <2> QED
    BY <1>0, <1>1, <2>1 DEF TypeOK, Steps
<1>4. RestoreIsExpected' /\ TokenIsOfThePane' /\ PendingIsOwn'
  BY <1>1 DEF Agreement, RestoreIsExpected, TokenIsOfThePane, PendingIsOwn
<1>5. WorkerIsBehind'
  BY <1>1, <1>2 DEF Agreement, WorkerIsBehind, Addresses
<1>6. ResultsAreBehind' /\ ShowsItsWish'
  BY <1>1 DEF Agreement, ResultsAreBehind, ShowsItsWish, Addresses, WishOf
<1>7. NoScanIsLost'
  BY <1>1, <1>2 DEF Agreement, NoScanIsLost, At, Cancelled
<1> QED
  BY <1>3, <1>4, <1>5, <1>6, <1>7 DEF Agreement

LEMMA SendAgrees ==
    ASSUME Agreement, NEW p \in Pane, Send(p)
    PROVE  Agreement'
<1>0. TypeOK /\ TokenIsOfThePane
  BY DEF Agreement
<1>1. /\ worker[p].step = "send" /\ Len(results) < Capacity /\ ~closed
      /\ results' = Append(results, Event(p))
      /\ worker' = [worker EXCEPT ![p] = [step |-> "take", request |-> Nothing, ok |-> FALSE]]
      /\ UNCHANGED <<pane, pending, current, closed, expected>>
  BY DEF Send, Finishes, At, Room, Resting
<1>2. /\ Addresses(worker[p].request, pane[p])
      /\ Event(p) \in Events
      /\ results \in Seq(Events)
  <2>1. Addresses(worker[p].request, pane[p])
    BY <1>1 DEF Agreement, WorkerIsBehind
  <2>2. worker[p].ok \in BOOLEAN
    BY <1>0 DEF TypeOK
  <2>3. results \in Seq(Events)
    BY <1>0 DEF TypeOK, Events
  <2> QED
    BY <2>1, <2>2, <2>3 DEF Addresses, Event, Events
<1>3. /\ results' \in Seq(Events)
      /\ Len(results') = Len(results) + 1
      /\ \A i \in 1 .. Len(results) : results'[i] = results[i]
      /\ results'[Len(results) + 1] = Event(p)
  BY <1>1, <1>2, AppendProperties
<1>4. TypeOK'
  <2>1. worker' \in [Pane -> [step : Steps, request : Requests \cup {Nothing}, ok : BOOLEAN]]
    BY <1>0, <1>1 DEF TypeOK, Steps
  <2>2. Len(results') <= Capacity
    BY <1>1, <1>2, <1>3, PanesAssumption
  <2> QED
    BY <1>0, <1>1, <1>3, <2>1, <2>2 DEF TypeOK, Steps, Events
<1>5. RestoreIsExpected' /\ TokenIsOfThePane' /\ PendingIsOwn' /\ ShowsItsWish'
  BY <1>1 DEF Agreement, RestoreIsExpected, TokenIsOfThePane, PendingIsOwn,
              ShowsItsWish, WishOf
<1>6. WorkerIsBehind'
  BY <1>0, <1>1 DEF Agreement, WorkerIsBehind, Addresses, TypeOK
<1>7. ResultsAreBehind'
  <2> SUFFICES ASSUME NEW i \in 1 .. Len(results')
               PROVE  Addresses(results'[i].request, pane[results'[i].pane])
    BY <1>1 DEF ResultsAreBehind
  <2>1. CASE i \in 1 .. Len(results)
    BY <1>3, <2>1 DEF Agreement, ResultsAreBehind
  <2>2. CASE i = Len(results) + 1
    BY <1>2, <1>3, <2>2 DEF Event
  <2> QED
    BY <1>2, <1>3, <2>1, <2>2
<1>8. NoScanIsLost'
  <2> SUFFICES ASSUME NEW q \in Pane, pane[q].load = "Loading"
               PROVE  NoScanIsLost!(q)!2'
    BY <1>1 DEF NoScanIsLost
  <2>1. CASE \E i \in 1 .. Len(results) :
                results[i].pane = q /\ results[i].request.generation = pane[q].generation
    BY <1>1, <1>2, <1>3, <2>1
  <2>2. CASE pending[q] = [generation |-> pane[q].generation, location |-> pane[q].location]
    BY <1>1, <2>2
  <2>3. CASE ~At(q, "take") /\ ~Cancelled(q) /\ worker[q].request.location = pane[q].location
    <3>1. CASE q = p
      <4>1. worker[p].request.generation = pane[p].generation
        BY <1>0, <1>1, <2>3, <3>1 DEF Cancelled, TokenIsOfThePane
      <4>2. /\ results'[Len(results) + 1].pane = q
            /\ results'[Len(results) + 1].request.generation = pane'[q].generation
        BY <1>1, <1>3, <3>1, <4>1 DEF Event
      <4>3. Len(results) + 1 \in DOMAIN results'
        BY <1>2, <1>3
      <4> QED
        BY <4>2, <4>3
    <3>2. CASE q # p
      BY <1>0, <1>1, <2>3, <3>2 DEF At, Cancelled, TypeOK
    <3> QED
      BY <3>1, <3>2
  <2>4. DOMAIN results = 1 .. Len(results)
    BY <1>2
  <2> QED
    BY <1>1, <2>1, <2>2, <2>3, <2>4 DEF Agreement, NoScanIsLost
<1> QED
  BY <1>4, <1>5, <1>6, <1>7, <1>8 DEF Agreement

-----------------------------------------------------------------------------
(* An answer is taken from the channel. *)

\* What is left of the channel when its head has been taken.
LEMMA TailOfResults ==
    ASSUME Agreement, results # <<>>, results' = Tail(results)
    PROVE  /\ results' \in Seq(Events) /\ Len(results') = Len(results) - 1
           /\ \A i \in 1 .. Len(results') : results'[i] = results[i + 1]
           /\ Head(results) = results[1] /\ 1 \in 1 .. Len(results)
           /\ Len(results') <= Capacity
<1>1. results \in Seq(Events) /\ Len(results) <= Capacity
  BY DEF Agreement, TypeOK, Events
<1>2. /\ results' \in Seq(Events) /\ Len(results') = Len(results) - 1
      /\ \A i \in 1 .. Len(results') : results'[i] = results[i + 1]
      /\ Head(results) = results[1] /\ 1 \in 1 .. Len(results)
  BY <1>1, HeadTailProperties
<1> QED
  BY <1>1, <1>2, PanesAssumption

LEMMA DrainAgrees ==
    ASSUME Agreement, NEW focus \in AllEntries \cup {Nothing}, Drain(focus)
    PROVE  Agreement'
<1> USE PanesAssumption
<1> DEFINE event == Head(results)
           p == event.pane
<1>0. TypeOK /\ ResultsAreBehind
  BY DEF Agreement
<1>1. /\ results # <<>> /\ results' = Tail(results) /\ ~closed
      /\ UNCHANGED <<pending, current, worker, closed>>
  BY DEF Drain
<1>2. /\ results' \in Seq(Events) /\ Len(results') = Len(results) - 1
      /\ \A i \in 1 .. Len(results') : results'[i] = results[i + 1]
      /\ event = results[1] /\ 1 \in 1 .. Len(results)
      /\ Len(results') <= Capacity
  BY <1>1, TailOfResults
<1>3. /\ p \in Pane /\ event.request \in Requests
      /\ Addresses(event.request, pane[p])
  BY <1>0, <1>2, ResultsTyped DEF TypeOK, Events, ResultsAreBehind
<1> HIDE DEF event
<1>4. pane \in [Pane -> States]
  BY <1>0 DEF TypeOK, States
\* Whatever the answer does to the pane, it asks for nothing new.
<1>5. \/ UNCHANGED <<pane, expected>> /\ event.request.generation # pane[p].generation
      \/ /\ event.request.generation = pane[p].generation
         /\ pane' = [pane EXCEPT ![p] =
              [@ EXCEPT !.load = "Ready", !.focus = focus, !.restore = Nothing,
                        !.listing = WishOf(p)]]
         /\ expected' = [expected EXCEPT ![p] = Nothing]
      \/ /\ event.request.generation = pane[p].generation
         /\ pane' = [pane EXCEPT ![p] =
              [@ EXCEPT !.load = "Failed", !.focus = Nothing, !.listing = Nothing]]
         /\ UNCHANGED expected
  <2>1. CASE ~IsCurrent(event) /\ UNCHANGED <<pane, expected>>
    BY <2>1 DEF IsCurrent
  <2>2. CASE IsCurrent(event) /\ Applied(event, focus) /\ Expect(p, Nothing)
    <3>1. [generation |-> event.request.generation, location |-> event.request.location,
           decorated |-> Decorated(event)] = WishOf(p)
      BY <1>3, <2>2 DEF IsCurrent, Addresses, Decorated, WishOf
    <3> QED
      BY <2>2, <3>1 DEF IsCurrent, Applied, Expect
  <2>3. CASE /\ IsCurrent(event)
             /\ pane' = [pane EXCEPT ![p] =
                  [@ EXCEPT !.load = "Failed", !.focus = Nothing, !.listing = Nothing]]
             /\ UNCHANGED expected
    BY <2>3 DEF IsCurrent
  <2> QED
    BY <2>1, <2>2, <2>3 DEF Drain, event
<1>6. \A q \in Pane :
        /\ pane'[q].generation = pane[q].generation
        /\ pane'[q].location = pane[q].location
        /\ pane'[q].listing \in {pane[q].listing, WishOf(q), Nothing}
        /\ q # p => pane'[q] = pane[q]
  <2>1. CASE UNCHANGED pane
    BY <2>1
  <2>2. CASE pane' = [pane EXCEPT ![p] =
              [@ EXCEPT !.load = "Ready", !.focus = focus, !.restore = Nothing,
                        !.listing = WishOf(p)]]
    BY <1>4, <2>2 DEF States
  <2>3. CASE pane' = [pane EXCEPT ![p] =
              [@ EXCEPT !.load = "Failed", !.focus = Nothing, !.listing = Nothing]]
    BY <1>4, <2>3 DEF States
  <2> QED
    BY <1>5, <2>1, <2>2, <2>3
<1>7. pane' \in [Pane -> States]
  <2>1. WishOf(p) \in Wishes /\ pane[p] \in States
    BY <1>3, <1>4 DEF WishOf, Wishes, States
  <2>2. [pane[p] EXCEPT !.load = "Ready", !.focus = focus, !.restore = Nothing,
                        !.listing = WishOf(p)] \in States
    BY <2>1 DEF States
  <2>3. [pane[p] EXCEPT !.load = "Failed", !.focus = Nothing, !.listing = Nothing] \in States
    BY <2>1 DEF States
  <2> QED
    BY <1>3, <1>4, <1>5, <2>2, <2>3
<1>8. expected' \in [Pane -> AllEntries \cup Place \cup {Nothing}]
  BY <1>0, <1>3, <1>5 DEF TypeOK
<1>9. TypeOK'
  BY <1>0, <1>1, <1>2, <1>7, <1>8 DEF TypeOK, States, Events
<1>10. RestoreIsExpected'
  <2>0. expected \in [Pane -> AllEntries \cup Place \cup {Nothing}] /\ RestoreIsExpected
    BY <1>0 DEF Agreement, TypeOK
  <2>1. CASE UNCHANGED <<pane, expected>>
    BY <2>0, <2>1 DEF RestoreIsExpected
  <2>2. CASE /\ pane' = [pane EXCEPT ![p] =
                  [@ EXCEPT !.load = "Ready", !.focus = focus, !.restore = Nothing,
                            !.listing = WishOf(p)]]
             /\ expected' = [expected EXCEPT ![p] = Nothing]
    BY <1>4, <2>0, <2>2 DEF RestoreIsExpected, States
  <2>3. CASE /\ pane' = [pane EXCEPT ![p] =
                  [@ EXCEPT !.load = "Failed", !.focus = Nothing, !.listing = Nothing]]
             /\ UNCHANGED expected
    BY <1>4, <2>0, <2>3 DEF RestoreIsExpected, States
  <2> QED
    BY <1>5, <2>1, <2>2, <2>3
<1>11. TokenIsOfThePane' /\ PendingIsOwn'
  BY <1>1, <1>6 DEF Agreement, TokenIsOfThePane, PendingIsOwn
<1>12. WorkerIsBehind'
  BY <1>1, <1>6 DEF Agreement, WorkerIsBehind, Addresses
<1>13. ResultsAreBehind'
  <2> SUFFICES ASSUME NEW i \in 1 .. Len(results')
               PROVE  Addresses(results'[i].request, pane'[results'[i].pane])
    BY DEF ResultsAreBehind
  <2>1. i + 1 \in 1 .. Len(results) /\ results'[i] = results[i + 1]
    BY <1>1, <1>2
  <2>2. Addresses(results[i + 1].request, pane[results[i + 1].pane])
    BY <1>0, <2>1 DEF ResultsAreBehind
  <2>3. results[i + 1].pane \in Pane
    BY <1>0, <2>1, ResultsTyped DEF TypeOK, Events
  <2> QED
    BY <1>6, <2>1, <2>2, <2>3 DEF Addresses
<1>14. ShowsItsWish'
  BY <1>6 DEF Agreement, ShowsItsWish, WishOf
<1>15. NoScanIsLost'
  <2> SUFFICES ASSUME NEW q \in Pane, pane'[q].load = "Loading"
               PROVE  NoScanIsLost!(q)!2'
    BY DEF NoScanIsLost
  <2>1. /\ pane[q].load = "Loading"
        /\ q = p => event.request.generation # pane[p].generation
    <3>1. CASE q # p
      BY <1>6, <3>1
    <3>2. CASE UNCHANGED pane /\ event.request.generation # pane[p].generation
      BY <3>2
    <3>3. CASE q = p /\ pane' = [pane EXCEPT ![p] =
                  [@ EXCEPT !.load = "Ready", !.focus = focus, !.restore = Nothing,
                            !.listing = WishOf(p)]]
      BY <1>4, <3>3 DEF States
    <3>4. CASE q = p /\ pane' = [pane EXCEPT ![p] =
                  [@ EXCEPT !.load = "Failed", !.focus = Nothing, !.listing = Nothing]]
      BY <1>4, <3>4 DEF States
    <3> QED
      BY <1>5, <3>1, <3>2, <3>3, <3>4
  <2>2. CASE \E i \in DOMAIN results :
                results[i].pane = q /\ results[i].request.generation = pane[q].generation
    <3>1. PICK i \in 1 .. Len(results) :
             results[i].pane = q /\ results[i].request.generation = pane[q].generation
      <4>1. DOMAIN results = 1 .. Len(results)
        BY <1>0 DEF TypeOK
      <4> QED
        BY <2>2, <4>1
    <3>2. i # 1
      BY <1>2, <2>1, <3>1
    <3>3. i - 1 \in 1 .. Len(results') /\ results'[i - 1] = results[i]
      BY <1>1, <1>2, <3>1, <3>2
    <3>4. DOMAIN results' = 1 .. Len(results')
      BY <1>2
    <3> QED
      BY <1>6, <3>1, <3>3, <3>4
  <2>3. CASE \/ pending[q] = [generation |-> pane[q].generation, location |-> pane[q].location]
             \/ ~At(q, "take") /\ ~Cancelled(q) /\ worker[q].request.location = pane[q].location
    BY <1>1, <1>6, <2>3 DEF At, Cancelled
  <2> QED
    BY <1>1, <2>1, <2>2, <2>3 DEF Agreement, NoScanIsLost
<1> QED
  BY <1>9, <1>10, <1>11, <1>12, <1>13, <1>14, <1>15 DEF Agreement

-----------------------------------------------------------------------------
LEMMA KeyAgrees ==
    ASSUME Agreement, NEW p \in Pane, Key(p) \/ Refresh(p)
    PROVE  Agreement'
<1> USE PanesAssumption
<1>0. TypeOK /\ RestoreIsExpected
  BY DEF Agreement
<1>1. /\ pane[p].location \in Place
      /\ pane[p].focus \in Targets /\ pane[p].restore \in Targets
      /\ Nothing \in Targets
  BY <1>0 DEF TypeOK, Targets
<1>2. CASE Open(p)
  <2>1. pane[p].focus \in Place
    BY <1>2 DEF Open, Place
  <2> QED
    BY <1>1, <1>2, <2>1, LoadAgrees DEF Open, Expect
<1>3. CASE ToParent(p)
  <2>1. Parent[pane[p].location] \in Place /\ pane[p].location \in Targets
    BY <1>1, <1>3 DEF ToParent, Place, Targets
  <2> QED
    BY <1>3, <2>1, LoadAgrees DEF ToParent, Expect
<1>4. CASE Retry(p)
  <2>1. expected' = [expected EXCEPT ![p] = pane[p].restore]
    BY <1>0, <1>4 DEF Retry, TypeOK, RestoreIsExpected
  <2> QED
    BY <1>1, <1>4, <2>1, LoadAgrees DEF Retry, RestoreOfRetry
<1>5. CASE Refresh(p)
  BY <1>1, <1>5, LoadAgrees DEF Refresh, Expect
<1>6. CASE \E entry \in Entries[pane[p].location] : MoveFocus(p, entry)
  BY <1>6, MoveFocusAgrees
<1> QED
  BY <1>2, <1>3, <1>4, <1>5, <1>6 DEF Key

LEMMA WorkAgrees ==
    ASSUME Agreement, NEW p \in Pane, Work(p)
    PROVE  Agreement'
<1>0. TypeOK /\ WorkerIsBehind
  BY DEF Agreement
<1>1. CASE Stop(p)
  BY <1>1, RestAgrees DEF Stop, Stops, Finishes, Stopped
<1>2. CASE Abandon(p)
  BY <1>2, RestAgrees DEF Abandon, Finishes, Resting
<1>3. CASE SendToNobody(p)
  BY <1>3, RestAgrees DEF SendToNobody, Finishes, Stopped
<1> QED
  BY <1>1, <1>2, <1>3, TakeAgrees, ScanAgrees, SendAgrees DEF Work

LEMMA NextAgrees == Agreement /\ [Next]_vars => Agreement'
<1> SUFFICES ASSUME Agreement, [Next]_vars PROVE Agreement'
  OBVIOUS
<1>1. CASE UNCHANGED vars
  BY <1>1 DEF vars, Agreement, TypeOK, RestoreIsExpected, TokenIsOfThePane, PendingIsOwn,
              WorkerIsBehind, ResultsAreBehind, ShowsItsWish, WishOf, NoScanIsLost, At, Cancelled
<1>2. CASE \E p \in Pane : Key(p) \/ Refresh(p) \/ Work(p)
  BY <1>2, KeyAgrees, WorkAgrees
<1>3. CASE DrainAny
  BY <1>3, DrainAgrees DEF DrainAny
<1>4. CASE Quit
  BY <1>4, QuitAgrees
<1> QED
  BY <1>1, <1>2, <1>3, <1>4 DEF Next, Ended

LEMMA AlwaysAgrees == Spec => []Agreement
  BY InitAgrees, NextAgrees, PTL DEF Spec

-----------------------------------------------------------------------------
(* Panes, mailboxes, threads and channel always agree about what has been
   asked for: a pane that is loading is being loaded. *)
THEOREM NoScanIsEverLost == Spec => []PanesInvariant
<1>1. Agreement => PanesInvariant
  BY DEF Agreement, PanesInvariant
<1> QED
  BY <1>1, AlwaysAgrees, PTL

(* The entry that the user expects is focused as soon as it is shown, through
   failed loads and retries. *)
THEOREM FocusAlwaysComesBack == Spec => FocusComesBack
<1> DEFINE Back == \A p \in Pane :
         pane'[p].load = "Ready" /\ pane'[p].listing # pane[p].listing
            /\ expected[p] \in Entries[pane'[p].location] =>
                pane'[p].focus = expected[p]
<1>1. Agreement /\ [Next]_vars => [Back]_vars
  <2> SUFFICES ASSUME Agreement, Next, NEW p \in Pane,
                      pane'[p].load = "Ready", pane'[p].listing # pane[p].listing,
                      expected[p] \in Entries[pane'[p].location]
               PROVE  pane'[p].focus = expected[p]
    BY DEF vars
  <2>1. pane \in [Pane -> States] /\ RestoreIsExpected /\ ResultsAreBehind
    BY DEF Agreement, TypeOK, States
  <2>2. CASE \E q \in Pane : Key(q) \/ Refresh(q) \/ Work(q)
    <3>1. ASSUME NEW q \in Pane, NEW location, NEW restore, Load(q, location, restore)
          PROVE  FALSE
      BY <2>1, <3>1 DEF Load, Loading, States
    <3>2. ASSUME NEW q \in Pane, NEW entry, MoveFocus(q, entry)
          PROVE  FALSE
      BY <2>1, <3>2 DEF MoveFocus, States
    <3>3. ASSUME NEW q \in Pane, Work(q)
          PROVE  FALSE
      BY <3>3 DEF Work, Take, Stop, Abandon, Scan, Send, SendToNobody
    <3> QED
      BY <2>2, <3>1, <3>2, <3>3 DEF Key, Open, ToParent, Retry, Refresh
  <2>3. CASE DrainAny
    <3>1. PICK focus \in AllEntries \cup {Nothing} : Drain(focus)
      BY <2>3 DEF DrainAny
    <3> DEFINE event == Head(results)
    <3>2. /\ event.pane \in Pane
          /\ Addresses(event.request, pane[event.pane])
      <4>1. results \in Seq(Events) /\ results # <<>> /\ Len(results) <= Capacity
        BY <3>1 DEF Agreement, TypeOK, Events, Drain
      <4>2. event = results[1] /\ 1 \in 1 .. Len(results)
        BY <4>1, HeadTailProperties
      <4> QED
        BY <2>1, <4>1, <4>2, ResultsTyped DEF ResultsAreBehind
    <3> HIDE DEF event
    <3>3. CASE IsCurrent(event) /\ Applied(event, focus)
      <4>1. event.request.location = pane[event.pane].location
        BY <3>2, <3>3 DEF IsCurrent, Addresses
      <4>2. /\ event.pane = p /\ pane'[p].location = pane[p].location
            /\ pane'[p].focus = focus
        BY <2>1, <3>2, <3>3 DEF Applied, States
      <4> QED
        BY <2>1, <3>3, <4>1, <4>2 DEF Applied, RestoreIsExpected
    <3>4. CASE pane' = pane \/ pane' = [pane EXCEPT ![event.pane] =
                  [@ EXCEPT !.load = "Failed", !.focus = Nothing, !.listing = Nothing]]
      BY <2>1, <3>2, <3>4 DEF States
    <3> QED
      BY <3>1, <3>3, <3>4 DEF Drain, event
  <2>4. CASE Quit \/ Ended
    BY <2>4 DEF Quit, Ended, vars
  <2> QED
    BY <2>2, <2>3, <2>4 DEF Next
<1> QED
  BY <1>1, AlwaysAgrees, PTL DEF Spec, FocusComesBack

\* A step that asks a pane for something else empties it.
LEMMA LoadsOrKeeps ==
    ASSUME Agreement, Next, NEW p \in Pane
    PROVE  \/ pane'[p].listing = Nothing
           \/ /\ pane'[p].generation = pane[p].generation
              /\ pane'[p].location = pane[p].location
<1>0. pane \in [Pane -> States]
  BY DEF Agreement, TypeOK, States
<1>1. ASSUME NEW q \in Pane, NEW location, NEW restore, Load(q, location, restore)
      PROVE  pane'[p].listing = Nothing \/ pane'[p] = pane[p]
  BY <1>0, <1>1 DEF Load, Loading
<1>2. ASSUME NEW q \in Pane, NEW entry, MoveFocus(q, entry)
      PROVE  /\ pane'[p].generation = pane[p].generation
             /\ pane'[p].location = pane[p].location
  BY <1>0, <1>2 DEF MoveFocus, States
<1>3. ASSUME NEW q \in Pane, Work(q)
      PROVE  pane' = pane
  BY <1>3 DEF Work, Take, Stop, Abandon, Scan, Send, SendToNobody
<1>4. ASSUME NEW focus, Drain(focus)
      PROVE  /\ pane'[p].generation = pane[p].generation
             /\ pane'[p].location = pane[p].location
  <2>1. CASE pane' = pane
    BY <2>1
  <2>2. ASSUME NEW event, Applied(event, focus)
        PROVE  /\ pane'[p].generation = pane[p].generation
               /\ pane'[p].location = pane[p].location
    BY <1>0, <2>2 DEF Applied, States
  <2>3. ASSUME NEW q, pane' = [pane EXCEPT ![q] =
                  [@ EXCEPT !.load = "Failed", !.focus = Nothing, !.listing = Nothing]]
        PROVE  /\ pane'[p].generation = pane[p].generation
               /\ pane'[p].location = pane[p].location
    BY <1>0, <2>3 DEF States
  <2> QED
    BY <1>4, <2>1, <2>2, <2>3 DEF Drain
<1>5. CASE Quit \/ Ended
  BY <1>5 DEF Quit, Ended, vars
<1> QED
  BY <1>1, <1>2, <1>3, <1>4, <1>5
     DEF Next, Key, Open, ToParent, Retry, Refresh, DrainAny

(* Each pane implements LatestWins: it shows nothing, or the listing of the
   location it was told to show last. *)
THEOREM PanesShowTheLatest == Spec => ImplementsLatestWins
<1> DEFINE Latest == \A p \in Pane : [W(p)!Next]_(W(p)!vars)
<1>1. Init => \A p \in Pane : W(p)!Init
  <2> SUFFICES ASSUME Init, NEW p \in Pane PROVE W(p)!Init
    OBVIOUS
  <2>1. WishOf(p) \in Wishes /\ pane[p].listing = Nothing
    BY PanesAssumption DEF Init, Loading, WishOf, Wishes
  <2> QED
    BY <2>1 DEF W!Init
<1>2. Agreement /\ Agreement' /\ [Next]_vars => [Latest]_vars
  <2> SUFFICES ASSUME Agreement, Agreement', Next, NEW p \in Pane
               PROVE  [W(p)!Next]_(W(p)!vars)
    BY DEF vars
  <2>1. /\ pane \in [Pane -> States]
        /\ pane[p].listing \in {Nothing, WishOf(p)}
        /\ pane'[p].listing \in {Nothing, WishOf(p)'}
        /\ WishOf(p) \in Wishes /\ WishOf(p)' \in Wishes
    BY DEF Agreement, TypeOK, ShowsItsWish, States, WishOf, Wishes
  <2>2. \/ pane'[p].listing = Nothing
        \/ /\ pane'[p].generation = pane[p].generation
           /\ pane'[p].location = pane[p].location
    BY LoadsOrKeeps
  <2>3. CASE pane'[p].listing = Nothing
    BY <2>1, <2>3 DEF W!Next, W!Want
  <2>4. CASE pane'[p].listing # Nothing
    <3>1. WishOf(p)' = WishOf(p)
      BY <2>2, <2>4 DEF WishOf
    <3>2. pane'[p].listing = WishOf(p)
      BY <2>1, <2>4, <3>1
    <3>3. WishOf(p) # Nothing
      BY <2>1, <2>4, <3>1
    <3> QED
      BY <3>1, <3>2, <3>3 DEF W!Next, W!Answer
  <2> QED
    BY <2>3, <2>4
<1> QED
  BY <1>1, <1>2, AlwaysAgrees, PTL DEF Spec, ImplementsLatestWins
=============================================================================
