--------------------------- MODULE PreviewLoader ---------------------------
(***************************************************************************)
(* The preview of a file: the screen asks for a window of it, one thread   *)
(* keeps only the newest request, reads, and answers through a bounded     *)
(* channel; another thread compares the shown file with the disk and       *)
(* reports once that it has changed (PreviewLoader, preview_worker,        *)
(* load_preview and preview_watch_worker of fs/preview.rs;                 *)
(* begin_preview_path, begin_preview_window, drain_preview_events,         *)
(* drain_preview_change_events and handle_preview_key of main.rs).         *)
(*                                                                         *)
(* Size and modified time of a file are its version: every write of        *)
(* another program gives a new one.  A file has Windows windows; how they  *)
(* are cut, and what is done with a shown one, is in                       *)
(* PreviewSession.  The reads of one load see one version.                 *)
(***************************************************************************)
EXTENDS Naturals, Sequences

CONSTANTS
    Path,
    Windows,        \* windows of a file
    Keys,           \* bound: requests and cancellations of the session
    Writes,         \* bound: writes of other programs
    Capacity,       \* RESULT_CAPACITY
    Nothing

VARIABLES
    disk,       \* the version of each file
    preview,    \* AppState.preview
    ui,         \* the step of the foreground loop
    asked,      \* the last request, on its way into the slot or after it
    slot, current, watch,       \* pending, current_request, watch
    results, changes,           \* its two channels
    reader,     \* preview_worker
    watcher,    \* preview_watch_worker
    keys,
    lost        \* history: the file whose notice was dropped behind another's

screen == <<preview, ui, asked, keys>>
loader == <<slot, current, watch>>
channels == <<results, changes>>
threads == <<reader, watcher>>
vars == <<disk, screen, loader, channels, threads, lost>>

Version == 0 .. Writes
Identity == [path : Path, version : Version]
Request == [id : Nat, path : Path, window : 1 .. Windows,
            expected : Version \cup {Nothing}]
(* A document knows the version its metadata had, and has what was read. *)
Document == [request : Request, version : Version, content : Version]
Answer == {"document", "changed", "failed"}
Event == [request : Request, answer : Answer, version : Version,
          content : Version]
DocumentOf(event) == [request |-> event.request, version |-> event.version,
                      content |-> event.content]
IdentityOf(document) ==
    [path |-> document.request.path, version |-> document.version]


ASSUME PreviewAssumption ==
    /\ Windows \in Nat \ {0} /\ Capacity \in Nat \ {0}
    /\ Keys \in Nat /\ Writes \in Nat
    /\ Nothing \notin Version \cup Path
    /\ Nothing \notin Request /\ Nothing \notin Document

Closed == [state |-> "Closed", document |-> Nothing, changed |-> FALSE]
Resting == [step |-> "take", request |-> Nothing, version |-> 0, content |-> 0,
            answer |-> Nothing]

Init ==
    /\ disk = [path \in Path |-> 0]
    /\ preview = Closed
    /\ ui = "results"
    /\ asked = Nothing
    /\ slot = Nothing /\ current = 0 /\ watch = Nothing
    /\ results = <<>> /\ changes = <<>>
    /\ reader = Resting
    /\ watcher = [step |-> "wait", watched |-> Nothing]
    /\ keys = Keys
    /\ lost = Nothing

-----------------------------------------------------------------------------
(* drain_preview_events. *)

Waiting == preview.state \in {"Loading", "LoadingWindow"}
HasItsPath(event) == Waiting /\ asked.path = event.request.path  \* mutant
IsCurrent(event) ==
    Waiting /\ asked.id = event.request.id /\ asked.path = event.request.path

Shown(document) ==
    /\ preview' = [state |-> "Ready", document |-> document, changed |-> FALSE]
    /\ watch' = IdentityOf(document)
    /\ lost' = Nothing

(* The old window stays when the new one cannot be had. *)
KeptWindow(answer) ==
    /\ preview' = [preview EXCEPT !.state = "Ready",
                                  !.changed = @ \/ answer = "changed"]
    /\ watch' = IF answer = "changed" THEN watch
                ELSE IdentityOf(preview.document)
    /\ UNCHANGED lost

DrainResult ==
    /\ ui = "results" /\ results # <<>>
    /\ results' = Tail(results)
    /\ LET event == Head(results) IN
       \/ /\ ~IsCurrent(event)
          /\ UNCHANGED <<preview, watch, lost>>
       \/ /\ IsCurrent(event) /\ event.answer = "document"
          /\ Shown(DocumentOf(event))
       \/ /\ IsCurrent(event) /\ event.answer # "document"
          /\ preview.state = "LoadingWindow"
          /\ KeptWindow(event.answer)
       \/ /\ IsCurrent(event) /\ event.answer # "document"
          /\ preview.state = "Loading"
          /\ preview' = [Closed EXCEPT !.state = "Failed"]
          /\ UNCHANGED <<watch, lost>>
    /\ UNCHANGED <<disk, ui, asked, slot, current, changes, threads, keys>>

EndResults ==
    /\ ui = "results" /\ results = <<>>
    /\ ui' = "changes"
    /\ UNCHANGED <<disk, preview, asked, loader, channels, threads, keys, lost>>

IsShown(path) ==
    preview.document # Nothing /\ preview.document.request.path = path

(* drain_preview_change_events: a notice names the file only. *)
DrainChange ==
    /\ ui = "changes" /\ changes # <<>>
    /\ changes' = Tail(changes)
    /\ preview' = [preview EXCEPT !.changed = @ \/ IsShown(Head(changes))]
    /\ UNCHANGED <<disk, ui, asked, loader, results, threads, keys, lost>>

EndChanges ==
    /\ ui = "changes" /\ changes = <<>>
    /\ ui' = "key"
    /\ UNCHANGED <<disk, preview, asked, loader, channels, threads, keys, lost>>

-----------------------------------------------------------------------------
(* Keys.  enqueue and cancel change the request in force before the slot. *)

NoKey ==
    /\ ui = "key"
    /\ ui' = "results"
    /\ UNCHANGED <<disk, preview, asked, loader, channels, threads, keys, lost>>

Pressed == ui = "key" /\ keys > 0 /\ keys' = keys - 1

Ask(path, window, expected) ==
    /\ Pressed
    /\ current' = current + 1
    /\ asked' = [id |-> current + 1, path |-> path, window |-> window,
                 expected |-> expected]
    /\ watch' = Nothing
    /\ ui' = "fill"
    /\ UNCHANGED <<disk, slot, channels, threads, lost>>

(* begin_preview *)
Open(path) ==
    /\ preview.state = "Closed"
    /\ Ask(path, 1, Nothing)
    /\ preview' = [Closed EXCEPT !.state = "Loading"]

(* R, in a preview that has failed or is shown. *)
Reload ==
    /\ preview.state \in {"Ready", "Failed"}
    /\ Ask(asked.path, 1, Nothing)
    /\ preview' = [Closed EXCEPT !.state = "Loading"]

(* begin_preview_window: the other windows are wanted of the same version. *)
AnyVersion == Nothing                                            \* mutant
ExpectedVersion == preview.document.version
Page(window) ==
    /\ preview.state = "Ready" /\ window # preview.document.request.window
    /\ Ask(preview.document.request.path, window, ExpectedVersion)
    /\ preview' = [preview EXCEPT !.state = "LoadingWindow"]

FillSlot ==
    /\ ui = "fill"
    /\ slot' = asked
    /\ ui' = "results"
    /\ UNCHANGED <<disk, preview, asked, current, watch, channels, threads,
                   keys, lost>>

Close ==
    /\ preview.state # "Closed"
    /\ Pressed
    /\ current' = current + 1
    /\ ui' = "clear"
    /\ preview' = Closed
    /\ UNCHANGED <<disk, asked, slot, watch, channels, threads, lost>>

ClearSlot ==
    /\ ui = "clear"
    /\ slot' = Nothing /\ watch' = Nothing
    /\ ui' = "results"
    /\ UNCHANGED <<disk, preview, asked, current, channels, threads, keys,
                   lost>>

-----------------------------------------------------------------------------
(* preview_worker and load_preview. *)

Reading(step) == reader.step = step
InForce == current = reader.request.id
Answers(answer) == reader' = [reader EXCEPT !.step = "done", !.answer = answer]

TakeRequest ==
    /\ Reading("take") /\ slot # Nothing
    /\ reader' = [Resting EXCEPT !.step = "inspect", !.request = slot]
    /\ slot' = Nothing
    /\ UNCHANGED <<disk, screen, current, watch, channels, watcher, lost>>

(* The request in force is looked at before the metadata, after the reads and
   before the answer; the answer of one that is not is dropped. *)
Abandon ==
    /\ Reading("inspect") \/ Reading("done")
    /\ ~InForce
    /\ reader' = Resting
    /\ UNCHANGED <<disk, screen, loader, channels, watcher, lost>>

Unexpected(version) ==
    reader.request.expected # Nothing /\ reader.request.expected # version

Inspect ==
    /\ Reading("inspect")
    /\ LET version == disk[reader.request.path] IN
       IF Unexpected(version) THEN Answers("changed")
       ELSE reader' = [reader EXCEPT !.step = "read", !.version = version]
    /\ UNCHANGED <<disk, screen, loader, channels, watcher, lost>>

ReadWindow ==
    /\ Reading("read")
    /\ reader' = [reader EXCEPT !.step = "done", !.answer = "document",
                                !.content = disk[reader.request.path]]
    /\ UNCHANGED <<disk, screen, loader, channels, watcher, lost>>

(* Not an ordinary file, no text, an encoding that is not known, an error. *)
LoadFails ==
    /\ Reading("inspect") \/ Reading("read")
    /\ Answers("failed")
    /\ UNCHANGED <<disk, screen, loader, channels, watcher, lost>>

Conclude ==
    /\ Reading("done") /\ InForce
    /\ reader' = [reader EXCEPT !.step = "send"]
    /\ UNCHANGED <<disk, screen, loader, channels, watcher, lost>>

Answered == [request |-> reader.request, answer |-> reader.answer,
             version |-> reader.version, content |-> reader.content]

TrySend ==                                                       \* mutant
    /\ Reading("send")
    /\ results' = IF Len(results) < Capacity
                  THEN Append(results, Answered)
                  ELSE results
    /\ reader' = Resting
    /\ UNCHANGED <<disk, screen, loader, changes, watcher, lost>>
Send ==
    /\ Reading("send") /\ Len(results) < Capacity
    /\ results' = Append(results, Answered)
    /\ reader' = Resting
    /\ UNCHANGED <<disk, screen, loader, changes, watcher, lost>>

-----------------------------------------------------------------------------
(* preview_watch_worker.  It looks again after at most CHANGE_CHECK_INTERVAL. *)

Watching(step) == watcher.step = step
Watches(step) == watcher' = [watcher EXCEPT !.step = step]

CopyWatch ==
    /\ Watching("wait") /\ watch # Nothing
    /\ watcher' = [step |-> "look", watched |-> watch]
    /\ UNCHANGED <<disk, screen, loader, channels, reader, lost>>

Look ==
    /\ Watching("look")
    /\ Watches(IF disk[watcher.watched.path] = watcher.watched.version
               THEN "wait" ELSE "disarm")
    /\ UNCHANGED <<disk, screen, loader, channels, reader, lost>>

ClearsAnyWatch == TRUE                                           \* mutant
StillWatched == watch = watcher.watched

Disarm ==
    /\ Watching("disarm")
    /\ IF StillWatched THEN watch' = Nothing /\ Watches("tell")
       ELSE UNCHANGED watch /\ Watches("wait")
    /\ UNCHANGED <<disk, screen, slot, current, channels, reader, lost>>

(* try_send into a channel of one. *)
Tell ==
    /\ Watching("tell")
    /\ changes' = IF changes = <<>> THEN <<watcher.watched.path>> ELSE changes
    /\ lost' = IF changes' # <<watcher.watched.path>>
               THEN watcher.watched.path ELSE lost
    /\ Watches("wait")
    /\ UNCHANGED <<disk, screen, loader, results, reader>>

(* Another program. *)
Write(path) ==
    /\ disk[path] < Writes
    /\ disk' = [disk EXCEPT ![path] = @ + 1]
    /\ UNCHANGED <<screen, loader, channels, threads, lost>>

Loop ==
    \/ DrainResult \/ EndResults \/ DrainChange \/ EndChanges \/ NoKey
    \/ FillSlot \/ ClearSlot
Press ==
    \/ \E path \in Path : Open(path)
    \/ Reload \/ Close
    \/ \E window \in 1 .. Windows : Page(window)
Read ==
    \/ TakeRequest \/ Abandon \/ Inspect \/ ReadWindow \/ LoadFails \/ Conclude
    \/ Send
Watch == CopyWatch \/ Look \/ Disarm \/ Tell

Next == Loop \/ Press \/ Read \/ Watch \/ (\E path \in Path : Write(path))

Spec == Init /\ [][Next]_vars

(* The loop polls with a timeout and the threads are scheduled; nobody has to
   press a key. *)
FairSpec == Spec /\ WF_vars(Loop) /\ WF_vars(Read) /\ WF_vars(Watch)

-----------------------------------------------------------------------------
(* Properties. *)

(* Every variable keeps its type, and the channels their bounds. *)
TypeOK ==
    /\ disk \in [Path -> Version]
    /\ preview \in [state : {"Closed", "Loading", "LoadingWindow", "Ready",
                             "Failed"},
                    document : Document \cup {Nothing}, changed : BOOLEAN]
    /\ ui \in {"results", "changes", "key", "fill", "clear"}
    /\ asked \in Request \cup {Nothing} /\ slot \in Request \cup {Nothing}
    /\ current \in Nat /\ watch \in Identity \cup {Nothing}
    /\ results \in Seq(Event) /\ Len(results) <= Capacity
    /\ changes \in Seq(Path) /\ Len(changes) <= 1
    /\ reader \in [step : {"take", "inspect", "read", "done", "send"},
                   request : Request \cup {Nothing}, version : Version,
                   content : Version, answer : Answer \cup {Nothing}]
    /\ watcher \in [step : {"wait", "look", "disarm", "tell"},
                    watched : Identity \cup {Nothing}]
    /\ keys \in 0 .. Keys /\ lost \in Path \cup {Nothing}

(* A preview that is loading is being loaded: its request is in the slot, with
   the reader, or answered, although the request in force and the slot change
   in two steps and the reader drops what is no longer in force. *)
NoRequestIsLost ==
    Waiting /\ ui # "fill" =>
        \/ slot = asked
        \/ reader.request = asked
        \/ \E i \in DOMAIN results : results[i].request = asked

(* A document appears only as the answer to what was asked for last: a late
   answer of an earlier request never replaces or reopens a preview. *)
ShowsWhatWasAskedLast ==
    [][preview'.document \notin {preview.document, Nothing} =>
          Waiting /\ preview'.document.request = asked]_vars

(* The windows of a preview are of one version of the file: paging never mixes
   windows from before and after a write. *)
WindowsAreOfOneVersion ==
    [][preview.document # Nothing /\ preview'.document # Nothing =>
          preview'.document.version = preview.document.version]_vars

(* A notice about one file does not mark the preview of another. *)
NoForeignNotice ==
    preview.changed => disk[preview.document.request.path] > 0

(* A shown document is watched, unless it is marked or the notice is on its
   way: a change between load and watch, or between two watches, is not
   missed.  Only a notice can get lost, behind another file's in the channel. *)
ShownIsWatched ==
    preview.state = "Ready" /\ ~preview.changed /\ ui # "fill" =>
        \/ watch = IdentityOf(preview.document)
        \/ Watching("tell") /\ watcher.watched = IdentityOf(preview.document)
        \/ changes = <<preview.document.request.path>>
        \/ lost = preview.document.request.path

(* Screen, slot, reader, watcher and channels agree about what is shown and what
   has been asked for. *)
PreviewInvariant ==
    TypeOK /\ NoRequestIsLost /\ NoForeignNotice /\ ShownIsWatched

(* A document that is not what is on disk is marked, or no longer shown, some
   time; only a notice that is dropped behind another file's is never given. *)
Outdated ==
    /\ preview.state = "Ready"
    /\ \/ preview.document.version # disk[preview.document.request.path]
       \/ preview.document.content # preview.document.version
ChangeIsReported ==
    Outdated ~> \/ preview.changed \/ preview.state # "Ready"
                \/ lost = preview.document.request.path

(* A preview does not load for ever. *)
LoadingEnds == Waiting ~> ~Waiting

(* What was asked for is shown, and what is outdated is marked, some time. *)
PreviewSettles == LoadingEnds /\ ChangeIsReported
=============================================================================
