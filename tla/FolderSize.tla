----------------------------- MODULE FolderSize -----------------------------
(***************************************************************************)
(* The contained size of the focused folder: the screen asks for it, one   *)
(* background thread keeps only the newest request, lets the focus settle, *)
(* measures, remembers the last results and answers through a bounded      *)
(* channel (FolderSizeScanner and folder_size_worker of folder_size.rs;    *)
(* drain_folder_size_events and sync_folder_size of main.rs).              *)
(*                                                                         *)
(* How a folder is measured is FolderWalk; here a measurement takes any    *)
(* time and may fail.  Keys are abstracted to what they do to the focus.   *)
(* The settling time is a wait that may end at any moment.                 *)
(***************************************************************************)
EXTENDS Naturals, Sequences, FiniteSets

CONSTANTS
    Pane, Path,
    NoPath,         \* nothing, or no directory, is focused
    Start,          \* the pane that is active at first
    Keys,           \* bound: key presses of the session
    Capacity,       \* RESULT_CAPACITY
    CacheSize,      \* RESULT_CACHE_CAPACITY
    Nothing

VARIABLES
    active, generation, focus, covered,     \* AppState, as far as sizes need it
    folderSize,     \* AppState.folder_size
    ui,             \* the step of the foreground loop
    slot, current, next, shutdown,          \* FolderSizeScanner
    results,        \* the result channel
    worker,         \* the thread: step, request, what it will send
    cache,          \* of the worker: the results and the request each answers
    keys

screen == <<active, generation, focus, covered>>
scanner == <<slot, current, next, shutdown>>
vars == <<screen, folderSize, ui, scanner, results, worker, cache, keys>>

(* pane, generation and path: what a size is keyed by. *)
Key == [pane : Pane, generation : 0 .. Keys, path : Path]
Request == [id : Nat, key : Key]

ASSUME FolderSizeAssumption ==
    /\ Start \in Pane /\ NoPath \notin Path
    /\ Keys \in Nat /\ Capacity \in Nat \ {0} /\ CacheSize \in Nat \ {0}
    /\ Nothing \notin Key /\ Nothing \notin Request

(* measured: the key a summary was measured under. *)
Idle == [state |-> "Idle", id |-> 0, key |-> Nothing, measured |-> Nothing]
Resting == [step |-> "take", id |-> 0, key |-> Nothing, measured |-> Nothing]

Init ==
    /\ active = Start
    /\ generation = [p \in Pane |-> 0]
    /\ focus = [p \in Pane |-> NoPath]
    /\ covered = FALSE
    /\ folderSize = Idle
    /\ ui = "drain"
    /\ slot = Nothing /\ current = 0 /\ next = 1 /\ shutdown = FALSE
    /\ results = <<>>
    /\ worker = Resting
    /\ cache = {}
    /\ keys = Keys

-----------------------------------------------------------------------------
(* The foreground loop: drain_folder_size_events, sync_folder_size, a key. *)

IsCurrent(event) ==
    /\ folderSize.state = "Loading"
    /\ folderSize.id = event.id /\ folderSize.key = event.key

DrainEvent ==
    /\ ui = "drain" /\ results # <<>>
    /\ results' = Tail(results)
    /\ folderSize' = IF IsCurrent(Head(results))
                     THEN [folderSize EXCEPT !.state = Head(results).update,
                                             !.measured = Head(results).measured]
                     ELSE folderSize
    /\ UNCHANGED <<screen, ui, scanner, worker, cache, keys>>

EndDrain ==
    /\ ui = "drain" /\ results = <<>>
    /\ ui' = "sync"
    /\ UNCHANGED <<screen, folderSize, scanner, results, worker, cache, keys>>

NoFocus == covered \/ focus[active] = NoPath
FocusKey == [pane |-> active, generation |-> generation[active], path |-> focus[active]]
NewId == current' = next /\ next' = next + 1

SyncNothing ==
    /\ ui = "sync"
    /\ IF NoFocus THEN folderSize = Idle ELSE folderSize.key = FocusKey
    /\ ui' = "key"
    /\ UNCHANGED <<screen, folderSize, scanner, results, worker, cache, keys>>

(* cancel: the request in force changes before the slot is cleared. *)
LeftInSlot == slot                                               \* mutant
Cleared == Nothing
SyncCancel ==
    /\ ui = "sync" /\ NoFocus /\ folderSize # Idle
    /\ NewId
    /\ ui' = "clear"
    /\ UNCHANGED <<screen, folderSize, slot, shutdown, results, worker, cache, keys>>

ClearSlot ==
    /\ ui \in {"clear", "drop"}
    /\ slot' = Cleared
    /\ folderSize' = Idle
    /\ ui' = IF ui = "clear" THEN "key" ELSE "gone"
    /\ UNCHANGED <<screen, current, next, shutdown, results, worker, cache, keys>>

(* request: likewise, the request in force changes before the slot is filled. *)
SyncRequest ==
    /\ ui = "sync" /\ ~NoFocus /\ folderSize.key # FocusKey
    /\ NewId
    /\ ui' = "fill"
    /\ UNCHANGED <<screen, folderSize, slot, shutdown, results, worker, cache, keys>>

FillSlot ==
    /\ ui = "fill"
    /\ slot' = [id |-> current, key |-> FocusKey]
    /\ folderSize' = [state |-> "Loading", id |-> current, key |-> FocusKey,
                      measured |-> Nothing]
    /\ ui' = "key"
    /\ UNCHANGED <<screen, current, next, shutdown, results, worker, cache, keys>>

Pressed == ui = "key" /\ ui' = "drain" /\ keys > 0 /\ keys' = keys - 1

NoKey ==
    /\ ui = "key" /\ ui' = "drain"
    /\ UNCHANGED <<screen, folderSize, scanner, results, worker, cache, keys>>

MoveFocus(path) ==
    /\ Pressed
    /\ focus' = [focus EXCEPT ![active] = path]
    /\ UNCHANGED <<active, generation, covered, folderSize, scanner, results,
                   worker, cache>>

SwitchPane(pane) ==
    /\ Pressed /\ pane # active
    /\ active' = pane
    /\ UNCHANGED <<generation, focus, covered, folderSize, scanner, results,
                   worker, cache>>

(* A pane is read again; its listing is there before the next sync, with any
   entry focused, or is not. *)
Reload(pane, path) ==
    /\ Pressed
    /\ generation' = [generation EXCEPT ![pane] = @ + 1]
    /\ focus' = [focus EXCEPT ![pane] = path]
    /\ UNCHANGED <<active, covered, folderSize, scanner, results,
                   worker, cache>>

(* An operation or a preview takes the screen, or leaves it. *)
Cover ==
    /\ Pressed
    /\ covered' = ~covered
    /\ UNCHANGED <<active, generation, focus, folderSize, scanner, results,
                   worker, cache>>

(* Drop for FolderSizeScanner; after it the receiver is gone. *)
ShutDown == TRUE
Quit ==
    /\ ui = "key"
    /\ shutdown' = ShutDown
    /\ NewId
    /\ ui' = "drop"
    /\ UNCHANGED <<screen, folderSize, slot, results, worker, cache, keys>>

-----------------------------------------------------------------------------
(* folder_size_worker. *)

Doing(step) == worker.step = step
Goes(step) == worker' = [worker EXCEPT !.step = step]
InForce == current = worker.id

Take ==
    /\ Doing("take") /\ slot # Nothing /\ ~shutdown
    /\ worker' = [step |-> "lookup", id |-> slot.id, key |-> slot.key,
                  measured |-> Nothing]
    /\ slot' = Nothing
    /\ UNCHANGED <<screen, folderSize, ui, current, next, shutdown, results,
                   cache, keys>>

Stop ==
    /\ Doing("take") /\ shutdown
    /\ Goes("stopped")
    /\ UNCHANGED <<screen, folderSize, ui, scanner, results, cache, keys>>

SamePath(cached) == cached.key.path = worker.key.path            \* mutant
SameKey(cached) == cached.key = worker.key

(* A cached size is sent without looking whether it is still wanted. *)
CacheHit ==
    /\ Doing("lookup")
    /\ \E cached \in cache :
          /\ SameKey(cached)
          /\ worker' = [worker EXCEPT !.step = "send Ready",
                                      !.measured = cached.measured]
    /\ UNCHANGED <<screen, folderSize, ui, scanner, results, cache, keys>>

(* The wait for the focus to settle ends: by its time, by a new request or
   by a cancellation. *)
CacheMiss ==
    /\ Doing("lookup") /\ \A cached \in cache : ~SameKey(cached)
    /\ Goes("settled")
    /\ UNCHANGED <<screen, folderSize, ui, scanner, results, cache, keys>>

BeginMeasure ==
    /\ Doing("settled") /\ InForce
    /\ worker' = [worker EXCEPT !.step = "measure", !.measured = worker.key]
    /\ UNCHANGED <<screen, folderSize, ui, scanner, results, cache, keys>>

Superseded ==
    /\ Doing("settled") \/ Doing("measure")
    /\ ~InForce
    /\ worker' = Resting
    /\ UNCHANGED <<screen, folderSize, ui, scanner, results, cache, keys>>

Event(update) == [id |-> worker.id, key |-> worker.key, update |-> update,
                  measured |-> IF update = "Loading" THEN Nothing ELSE worker.measured]

(* send_progress: dropped when the channel is full. *)
Progress ==
    /\ Doing("measure") /\ Len(results) < Capacity
    /\ results' = Append(results, Event("Loading"))
    /\ UNCHANGED <<screen, folderSize, ui, scanner, worker, cache, keys>>

(* The new result replaces one of its key, and the oldest makes room. *)
Newest(all) ==
    IF Cardinality(all) <= CacheSize THEN all
    ELSE all \ {CHOOSE old \in all : \A other \in all : old.id <= other.id}
Remembered ==
    Newest({cached \in cache : cached.key # worker.key}
           \cup {[id |-> worker.id, key |-> worker.key, measured |-> worker.measured]})

Measured ==
    /\ Doing("measure") /\ InForce
    /\ Goes("send Ready")
    /\ cache' = Remembered
    /\ UNCHANGED <<screen, folderSize, ui, scanner, results, keys>>

MeasureFails ==
    /\ Doing("measure") /\ InForce
    /\ Goes("send Failed")
    /\ UNCHANGED <<screen, folderSize, ui, scanner, results, cache, keys>>

Sending == Doing("send Ready") \/ Doing("send Failed")

TrySendResult ==                                                 \* mutant
    /\ Sending /\ ui # "gone"
    /\ results' = IF Len(results) < Capacity
                  THEN Append(results, Event("Ready")) ELSE results
    /\ worker' = Resting
    /\ UNCHANGED <<screen, folderSize, ui, scanner, cache, keys>>

SendResult ==
    /\ Sending /\ Len(results) < Capacity /\ ui # "gone"
    /\ results' = Append(results,
                    Event(IF Doing("send Ready") THEN "Ready" ELSE "Failed"))
    /\ worker' = Resting
    /\ UNCHANGED <<screen, folderSize, ui, scanner, cache, keys>>

SendToNobody ==
    /\ Sending /\ ui = "gone"
    /\ Goes("stopped")
    /\ UNCHANGED <<screen, folderSize, ui, scanner, results, cache, keys>>

Ended == ui = "gone" /\ UNCHANGED vars

Loop ==
    \/ DrainEvent \/ EndDrain \/ SyncNothing \/ SyncCancel \/ ClearSlot
    \/ SyncRequest \/ FillSlot \/ NoKey
Press ==
    \/ \E path \in Path \cup {NoPath} : MoveFocus(path)
    \/ \E pane \in Pane, path \in Path \cup {NoPath} : Reload(pane, path)
    \/ \E pane \in Pane : SwitchPane(pane)
    \/ Cover \/ Quit
Work ==
    \/ Take \/ Stop \/ CacheHit \/ CacheMiss \/ BeginMeasure \/ Superseded
    \/ Measured \/ MeasureFails \/ SendResult \/ SendToNobody

Next == Loop \/ Press \/ Work \/ Progress \/ Ended

Spec == Init /\ [][Next]_vars

(* The loop polls with a timeout, the thread is scheduled and a measurement
   ends (WalkEnds); nobody has to press a key, and progress may be dropped. *)
FairSpec == Spec /\ WF_vars(Loop) /\ WF_vars(Work)

-----------------------------------------------------------------------------
(* Properties. *)

(* Every variable keeps its type: channel and cache keep their bounds. *)
TypeOK ==
    /\ active \in Pane /\ generation \in [Pane -> 0 .. Keys]
    /\ focus \in [Pane -> Path \cup {NoPath}] /\ covered \in BOOLEAN
    /\ folderSize \in [state : {"Idle", "Loading", "Ready", "Failed"}, id : Nat,
                       key : Key \cup {Nothing}, measured : Key \cup {Nothing}]
    /\ ui \in {"drain", "sync", "clear", "fill", "key", "drop", "gone"}
    /\ slot \in Request \cup {Nothing}
    /\ current \in Nat /\ next \in Nat /\ shutdown \in BOOLEAN
    /\ results \in Seq([id : Nat, key : Key, update : {"Loading", "Ready", "Failed"},
                        measured : Key \cup {Nothing}])
    /\ Len(results) <= Capacity
    /\ worker \in [step : {"take", "lookup", "settled", "measure", "send Ready",
                           "send Failed", "stopped"},
                   id : Nat, key : Key \cup {Nothing}, measured : Key \cup {Nothing}]
    /\ cache \subseteq [id : Nat, key : Key, measured : Key]
    /\ IsFiniteSet(cache) /\ Cardinality(cache) <= CacheSize
    /\ keys \in 0 .. Keys

(* A size that is waited for is on its way: its request is in the slot, with
   the thread, or answered in the channel, although request and cancel change
   the request in force and the slot in two steps, and the thread drops what
   is no longer in force. *)
OnItsWay(id) ==
    \/ slot # Nothing /\ slot.id = id
    \/ worker.id = id /\ worker.step # "take"
    \/ \E i \in DOMAIN results : results[i].id = id /\ results[i].update # "Loading"
NoRequestIsLost ==
    folderSize.state = "Loading" /\ ui \notin {"clear", "fill", "drop"} =>
        OnItsWay(folderSize.id)

(* A superseded folder is not read any further than its next look at the
   request in force, and the thread never has a second one waiting. *)
OldWorkIsReplaced ==
    slot # Nothing /\ ui \notin {"clear", "fill", "drop"} => slot.id = current

(* Slot, channel, thread and screen agree about what has been asked for. *)
SizeInvariant == TypeOK /\ NoRequestIsLost /\ OldWorkIsReplaced

(* The screen shows the size of the folder it is about, read in the pane's
   present listing: never a late answer, nor a remembered one of a listing
   that has been replaced. *)
W == INSTANCE LatestWins WITH Wish <- Key, wanted <- folderSize.key,
                              shown <- folderSize.measured
ImplementsLatestWins == W!Spec

(* A size that is shown as loading is shown, or no longer wanted, some time. *)
LoadingEnds == folderSize.state = "Loading" ~> folderSize.state # "Loading"

(* Leaving the program ends the thread, also one that waits to send. *)
WorkerStops == ui = "gone" ~> Doing("stopped")

(* Nothing waits for ever, neither the screen nor the thread. *)
SizingEnds == LoadingEnds /\ WorkerStops
=============================================================================
