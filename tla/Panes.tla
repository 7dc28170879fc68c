------------------------------- MODULE Panes -------------------------------
(***************************************************************************)
(* The two panes and the directory scanner.  Navigation changes a pane at  *)
(* once and leaves a request in the mailbox of the pane's own worker; the  *)
(* listing comes back through one bounded channel and is applied if its    *)
(* generation is still the pane's (DirectoryScanner, ScanMailbox and       *)
(* worker_loop of fs/lib.rs; PaneState of domain/lib.rs; navigate_*,       *)
(* retry_active_location, refresh_* and drain_scan_events of main.rs).     *)
(*                                                                         *)
(* The entries of a pane are abstracted to the listing they come from, and *)
(* the cursor to the entry it is on; PaneState has the rows.  The disk     *)
(* does not change, but any directory may refuse to be read at any time.   *)
(***************************************************************************)
EXTENDS Naturals, Sequences

CONSTANTS
    Pane,
    Location,           \* directories
    Drives,             \* the list of drives, Home and Favorites
    Parent,             \* Parent[location]: Drives above the root of a drive
    Entries,            \* Entries[location]: what a listing of it contains
    StartAt,            \* the location each pane is launched with
    Nothing,
    FairPane,           \* the panes whose worker is not stuck in a system call
    MaxGeneration,      \* bound: loads of a pane
    Capacity            \* RESULT_CAPACITY

Place == Location \cup {Drives}

ASSUME PanesAssumption ==
    /\ Drives \notin Location /\ Nothing \notin Place
    /\ Parent \in [Location -> Place]
    /\ StartAt \in [Pane -> Place]
    /\ FairPane \subseteq Pane
    /\ MaxGeneration \in Nat \ {0} /\ Capacity \in Nat \ {0}

VARIABLES
    pane,       \* PaneState: location, load state, generation, listing, focus
    pending,    \* pending[p]: ScanMailboxState.pending
    current,    \* current[p]: the request whose token is not cancelled
    worker,     \* worker[p]: step, request and listing of the pane's thread
    results,    \* the result channel
    closed,     \* the scanner has been dropped
    expected    \* history: the entry the user expects to find focused

vars == <<pane, pending, current, worker, results, closed, expected>>

(* browsing_drives is location = Drives. *)
WishOf(p) == [generation |-> pane[p].generation, location |-> pane[p].location,
            decorated |-> pane[p].location = Drives]
Request(p) == [generation |-> pane'[p].generation, location |-> pane'[p].location]
Resting == [step |-> "take", request |-> Nothing, ok |-> FALSE]
Stopped == [step |-> "stopped", request |-> Nothing, ok |-> FALSE]
Loading(generation, location, restore) ==
    [generation |-> generation, location |-> location, load |-> "Loading",
     listing |-> Nothing, focus |-> Nothing, restore |-> restore]

(* queue_initial_scans *)
Init ==
    /\ pane = [p \in Pane |-> Loading(1, StartAt[p], Nothing)]
    /\ pending = [p \in Pane |-> [generation |-> 1, location |-> StartAt[p]]]
    /\ current = [p \in Pane |-> 1]
    /\ worker = [p \in Pane |-> Resting]
    /\ results = <<>>
    /\ closed = FALSE
    /\ expected = [p \in Pane |-> Nothing]

-----------------------------------------------------------------------------
(* begin_load_restoring_focus, then DirectoryScanner::request: the token of
   the request before is cancelled, and a pending one is replaced. *)

Load(p, location, restore) ==
    /\ ~closed /\ pane[p].generation < MaxGeneration
    /\ pane' = [pane EXCEPT ![p] = Loading(@.generation + 1, location, restore)]
    /\ pending' = [pending EXCEPT ![p] = Request(p)]
    /\ current' = [current EXCEPT ![p] = @ + 1]
    /\ UNCHANGED <<worker, results, closed>>
Expect(p, entry) == expected' = [expected EXCEPT ![p] = entry]

Open(p) ==
    /\ pane[p].load = "Ready" /\ pane[p].focus \in Location
    /\ Load(p, pane[p].focus, Nothing)
    /\ Expect(p, Nothing)

(* navigate_parent: the directory that is left will be focused. *)
ToParent(p) ==
    /\ pane[p].location # Drives
    /\ Load(p, Parent[pane[p].location], pane[p].location)
    /\ Expect(p, pane[p].location)

RestoreForgotten(p) == Nothing                                   \* mutant
RestoreOfRetry(p) == pane[p].restore
Retry(p) ==
    /\ pane[p].load = "Failed"
    /\ Load(p, pane[p].location, RestoreOfRetry(p))
    /\ UNCHANGED expected

(* refresh_affected_panes and refresh_drive_shortcut_panes: an operation or a
   favorite has changed what the pane shows; its focus is to be kept.  A pane
   that is loading has none, and the entry it was to restore is forgotten. *)
Refresh(p) ==
    /\ Load(p, pane[p].location, pane[p].focus)
    /\ Expect(p, pane[p].focus)

MoveFocus(p, entry) ==
    /\ pane[p].load = "Ready" /\ entry \in Entries[pane[p].location]
    /\ pane' = [pane EXCEPT ![p].focus = entry]
    /\ UNCHANGED <<pending, current, worker, results, closed, expected>>

-----------------------------------------------------------------------------
(* drain_scan_events: the listing is decorated for the list of drives before
   its generation is looked at. *)

AnyGeneration(event) == TRUE                                     \* mutant
IsCurrent(event) == event.request.generation = pane[event.pane].generation
Decorated(event) == pane[event.pane].location = Drives

FirstEntry(entries, focus) ==
    \/ entries = {} /\ focus = Nothing
    \/ entries # {} /\ focus \in entries

(* apply_entries: the awaited entry is focused if it is listed, else a first one. *)
Applied(event, focus) ==
    LET p == event.pane
        entries == Entries[event.request.location]
    IN /\ IF pane[p].restore \in entries THEN focus = pane[p].restore
          ELSE FirstEntry(entries, focus)
       /\ pane' = [pane EXCEPT ![p] =
            [@ EXCEPT !.load = "Ready", !.focus = focus, !.restore = Nothing,
                      !.listing = [generation |-> event.request.generation,
                                   location |-> event.request.location,
                                   decorated |-> Decorated(event)]]]

Drain(focus) ==
    /\ results # <<>> /\ ~closed
    /\ results' = Tail(results)
    /\ LET event == Head(results) IN
       \/ /\ ~IsCurrent(event)
          /\ UNCHANGED <<pane, expected>>
       \/ /\ IsCurrent(event) /\ event.ok
          /\ Applied(event, focus)
          /\ Expect(event.pane, Nothing)
       \/ /\ IsCurrent(event) /\ ~event.ok                  \* apply_error
          /\ pane' = [pane EXCEPT ![event.pane] =
               [@ EXCEPT !.load = "Failed", !.focus = Nothing, !.listing = Nothing]]
          /\ UNCHANGED expected
    /\ UNCHANGED <<pending, current, worker, closed>>

(* Drop for DirectoryScanner; after it the receiver is gone. *)
Quit ==
    /\ ~closed
    /\ closed' = TRUE
    /\ pending' = [p \in Pane |-> Nothing]
    /\ current' = [p \in Pane |-> 0]
    /\ UNCHANGED <<pane, worker, results, expected>>

-----------------------------------------------------------------------------
(* worker_loop, one thread per pane. *)

At(p, step) == worker[p].step = step
Cancelled(p) == worker[p].request.generation # current[p]
Finishes(p, w) == worker' = [worker EXCEPT ![p] = w]

Take(p) ==
    /\ At(p, "take") /\ ~closed /\ pending[p] # Nothing
    /\ Finishes(p, [step |-> "scan", request |-> pending[p], ok |-> FALSE])
    /\ pending' = [pending EXCEPT ![p] = Nothing]
    /\ UNCHANGED <<pane, current, results, closed, expected>>

StopsIfAsked(p) == closed /\ pending[p] # Nothing               \* mutant
Stops(p) == closed
Stop(p) ==
    /\ At(p, "take") /\ Stops(p)
    /\ Finishes(p, Stopped)
    /\ UNCHANGED <<pane, pending, current, results, closed, expected>>

(* A scan looks at its token before, between entries and after. *)
Abandon(p) ==
    /\ At(p, "scan") /\ Cancelled(p)
    /\ Finishes(p, Resting)
    /\ UNCHANGED <<pane, pending, current, results, closed, expected>>

Scan(p, ok) ==
    /\ At(p, "scan") /\ ~Cancelled(p)
    /\ Finishes(p, [worker[p] EXCEPT !.step = "send", !.ok = ok])
    /\ UNCHANGED <<pane, pending, current, results, closed, expected>>

Event(p) == [pane |-> p, request |-> worker[p].request, ok |-> worker[p].ok]
Room == Len(results) < Capacity

TrySend(p) ==                                                    \* mutant
    /\ At(p, "send") /\ ~closed
    /\ results' = IF Room THEN Append(results, Event(p)) ELSE results
    /\ Finishes(p, Resting)
    /\ UNCHANGED <<pane, pending, current, closed, expected>>

Send(p) ==
    /\ At(p, "send") /\ Room /\ ~closed
    /\ results' = Append(results, Event(p))
    /\ Finishes(p, Resting)
    /\ UNCHANGED <<pane, pending, current, closed, expected>>

SendToNobody(p) ==
    /\ At(p, "send") /\ closed
    /\ Finishes(p, Stopped)
    /\ UNCHANGED <<pane, pending, current, results, closed, expected>>

Ended == closed /\ UNCHANGED vars

Key(p) ==
    \/ Open(p) \/ ToParent(p) \/ Retry(p)
    \/ \E entry \in Entries[pane[p].location] : MoveFocus(p, entry)
Work(p) ==
    \/ Take(p) \/ Stop(p) \/ Abandon(p)
    \/ \E ok \in BOOLEAN : Scan(p, ok)
    \/ Send(p) \/ SendToNobody(p)
AllEntries == UNION {Entries[place] : place \in Place}
DrainAny == \E focus \in AllEntries \cup {Nothing} : Drain(focus)

Next ==
    \/ \E p \in Pane : Key(p) \/ Refresh(p) \/ Work(p)
    \/ DrainAny \/ Quit \/ Ended

Spec == Init /\ [][Next]_vars

(* The foreground loop drains, and the threads that are not stuck go on.  No
   key has to be pressed. *)
FairSpec ==
    /\ Spec
    /\ WF_vars(DrainAny)
    /\ \A p \in FairPane : WF_vars(Work(p))

-----------------------------------------------------------------------------
(* Properties. *)

Requests == [generation : 1 .. MaxGeneration, location : Place]
Wishes == [generation : 1 .. MaxGeneration, location : Place, decorated : BOOLEAN]
(* Every variable keeps its type, and the channel its bound. *)
TypeOK ==
    /\ pane \in [Pane -> [generation : 1 .. MaxGeneration, location : Place,
                          load : {"Loading", "Ready", "Failed"},
                          listing : Wishes \cup {Nothing},
                          focus : AllEntries \cup {Nothing},
                          restore : Place \cup AllEntries \cup {Nothing}]]
    /\ pending \in [Pane -> Requests \cup {Nothing}]
    /\ current \in [Pane -> 0 .. MaxGeneration]
    /\ worker \in [Pane -> [step : {"take", "scan", "send", "stopped"},
                            request : Requests \cup {Nothing}, ok : BOOLEAN]]
    /\ results \in Seq([pane : Pane, request : Requests, ok : BOOLEAN])
    /\ Len(results) <= Capacity
    /\ closed \in BOOLEAN
    /\ expected \in [Pane -> AllEntries \cup Place \cup {Nothing}]

(* A pane that is loading is being loaded: its own request, and no older one,
   is in the mailbox, with the worker uncancelled, or answered. *)
NoScanIsLost ==
    \A p \in Pane : pane[p].load = "Loading" /\ ~closed =>
        \/ pending[p] = [generation |-> pane[p].generation, location |-> pane[p].location]
        \/ ~At(p, "take") /\ ~Cancelled(p) /\ worker[p].request.location = pane[p].location
        \/ \E i \in DOMAIN results :
              results[i].pane = p /\ results[i].request.generation = pane[p].generation

(* Panes, mailboxes, threads and channel agree about what has been asked for. *)
PanesInvariant == TypeOK /\ NoScanIsLost

(* A pane shows nothing or the listing of its location that was asked for last,
   with the shortcuts added to the list of drives and to no directory. *)
W(p) == INSTANCE LatestWins WITH Wish <- Wishes, wanted <- WishOf(p),
                                 shown <- pane[p].listing
ImplementsLatestWins ==
    /\ \A p \in Pane : W(p)!Init
    /\ [][\A p \in Pane : [W(p)!Next]_(W(p)!vars)]_vars

(* The directory that was left upwards is focused when its parent is shown,
   and a refreshed pane keeps its focused entry, also if the load had to be
   retried; only a refresh during the load undoes it. *)
FocusComesBack ==
    [][\A p \in Pane :
         pane'[p].load = "Ready" /\ pane'[p].listing # pane[p].listing
            /\ expected[p] \in Entries[pane'[p].location] =>
                pane'[p].focus = expected[p]]_vars

(* A pane does not load for ever, although the worker of the other pane may
   be stuck in a system call. *)
LoadingEnds == \A p \in FairPane : pane[p].load = "Loading" ~> pane[p].load # "Loading" \/ closed

(* Dropping the scanner ends its threads, also one that waits to send. *)
WorkersStop == \A p \in FairPane : closed ~> At(p, "stopped")

(* Nothing waits for ever, neither a pane nor its thread. *)
ScanningEnds == LoadingEnds /\ WorkersStop
=============================================================================
