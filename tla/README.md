# A formal model of DirVeyor

DirVeyor is a two-pane terminal file manager. Its promise is that nothing
happens to files without a reviewed plan, and that the screen never blocks:
planning, copying, scanning, measuring and previewing run on threads of their
own and talk to the screen through bounded channels and shared flags. This
directory models that machinery in TLA+, checks it with TLC and proves its core
with TLAPS. Paths below are relative to `src/`, and `engine/`, `app/`, `fs/`,
`domain/` stand for `crates/dirveyor-engine/src/` and so on.

## 1. The system

| Component | Code | State | Operations |
|---|---|---|---|
| Operation engine | `engine/lib.rs` | command, event and resolution channels, `busy`, `cancel_requested`, next job id; in the coordinator the pending plan | `submit`, `approve`, `abandon`, `cancel`, `resolve_conflict`, `is_busy`, `try_recv`; the coordinator's handling of `Plan`, `Approve`, `Abandon` |
| Planner | `engine/planner.rs` | none (reads the tree; writes a temporary delete manifest) | `build_plan_with_progress` for each intent, fingerprints, validation of the source set |
| Executor, transfers | `engine/executor.rs` | `stopped`, counters, failures, policies, reserved targets, work queue, move journal | discovery (`visit`, `directory_target`, `visit_file`, `resolve`, `copy_and_record`), workers, source clean-up, outcome |
| Executor, the rest | `engine/executor.rs` | counters, failures | atomic moves, recycle, permanent delete by manifest, rename, create folder |
| Operation screen | `app/main.rs` | `OperationView`, text prompt, notice | draining events, one key per turn, quitting |
| Panes | `domain/lib.rs`, `app/main.rs` | location, entries, selection, focus, sort, load state, generation | navigation, results of scans, refresh after an operation |
| Directory scanner | `fs/lib.rs` | one mailbox and one worker per pane | request, supersede, cancel, snapshot |
| Folder-size scanner | `fs/folder_size.rs` | newest request, directory queue shared by walkers | request, cancel, progress, completion |
| Preview loader | `fs/preview.rs`, `domain/preview.rs` | newest request, watched file, window | load, page, watch, reload |
| Favorites | `fs/favorites.rs` | list and file | add, remove, save by atomic replacement |
| Rendering | `app/ui.rs` | none | application state to cells |

How they interact. The screen thread (`app/main.rs`, `run`) loops: it drains the
event queues of all other components with `try_recv`, draws, and handles at most
one key. It never blocks on a channel: commands and conflict choices are sent
with `try_send`. The coordinator thread receives commands one at a time and runs
the planner and the executor inside the handling of a command. It blocks on
`send` for the events that matter (the planning announcement, a ready plan, a
collision, the report, a failure) and drops progress when the event channel is
full. During a transfer the coordinator thread is the producer of a bounded work
queue; one or two worker threads copy, and publish progress into the same event
channel. Finished operations make the screen request new scans of the panes they
touched.

The three background readers have one shape: the screen puts its newest request
into a slot of one, superseding the older one; a thread takes it, looks from time
to time whether it is still in force, and blocks on a bounded result channel; the
screen drops answers that are no longer wanted. They differ in where the two
halves of a request are not atomic, which is what their models are about.

What makes it hard: the screen lags behind the engine by up to a whole event
queue; two flags are shared without a lock; a wait for the user's decision polls
one flag of two; workers keep publishing while a question is open; keys typed at
an old screen act on a new state; commands and choices are remembered by
channels after the state that justified them is gone; every step of an operation
on files may fail, and cancellation may come between any two of them.

What makes each component correct, in a sentence: *engine*, one reviewed
operation at a time, executed if and only if it was approved; *screen*, it tells
the truth when nothing is under way, and no key acts on anything but what it
shows; *transfer*, no source is removed before its copy is in place and no
destination is replaced without a decision about it; *permanent delete*, nothing
outside the reviewed manifest is removed; *scanners and previews*, the newest
request wins and ends; *favorites*, a crash leaves the old or the new list.
`PROJECT.json` lists the hazards at their lines, with the properties that cover
them.

## 2. Modules

| Module | What it is | Run or proof |
|---|---|---|
| `OperationEngine` | the engine's channels and flags, the coordinator, the control of the executor and the operation screen | `session`, `live`, `choice` |
| `ReviewedJobs` | abstract: one operation is planned, reviewed, approved or abandoned, executed and released | implemented by `OperationEngine` |
| `OperationEngineInvariant` | the inductive invariants of the engine, part by part | `session` |
| `OperationEngineProofs` | types and safety; refinement and the end of a job | 11 theorems |
| `StreamingTransfer` | the files under a streaming copy or move | `transfer`, `names` |
| `StreamingTransferInvariant` | where each source is, whose each target is and what lies there | `transfer` |
| `StreamingTransferProofs` | | 8 theorems |
| `PlannedActions` | every other plan, from the intent to the report: permanent deletion, recycling, atomic moves, rename, create folder | `deletion` |
| `PlannedActionsInvariant` | its inductive invariant, whoever interferes and when nobody does | `deletion` |
| `PlannedActionsProofs` | | 6 theorems |
| `FolderWalk`, `FolderWalkProofs` | the parallel measurement of one folder | `walk`, `hang`, 3 theorems |
| `FolderSize`, `FolderSizeProofs` | requests, cache and thread of the folder-size scanner, with its part of the screen loop | `sizes`, 2 theorems |
| `Panes`, `PanesProofs` | two panes and the directory scanner | `panes`, 3 theorems |
| `PreviewLoader`, `PreviewLoaderProofs` | preview requests, the loader and the change watcher | `preview`, 3 theorems |
| `LatestWins` | abstract: the screen shows nothing or the answer to what is wanted now | implemented by `FolderSize` and each pane of `Panes` |
| `PaneState` | the rows of a pane as operators: load, sort, filter, cursor, selection | used by `Screen` |
| `PreviewSession` | an open preview as operators: windows, representation, scrolling, search | used by `Screen` |
| `Screen` | keys in two panes with everything that can take them, favorites, intents | `screen` |
| `ScreenInductive` | its inductive invariant `ScreenKept` | |
| `ScreenProofs` | | 7 theorems |
| `MC*` | the instances TLC checks | |

The same part of the program may appear twice, from two sides.
`OperationEngine` has the dialogue of a job with the user and no files;
`StreamingTransfer` and `PlannedActions` have the files and, of the dialogue,
only decisions and the cancel flag. `Panes` and `PreviewLoader` have the threads
and one abstract listing or document; `Screen` has the listings and documents and
takes an answer to the last request from nowhere, because the other two show that
no other one arrives.

### OperationEngine and the code

| Variables | Code |
|---|---|
| `commands`, `events`, `resolutions` | the bounded channels of `OperationEngine::new` (4, 32 and 1 slots; the first two are constants of the model) |
| `busy`, `cancel`, `nextJob` | `busy`, `cancel_requested`, `next_job` |
| `coord`, `job`, `kind`, `mode`, `plan`, `report` | where the coordinator stands in its loop, its locals, and `pending` |
| `prod`, `left`, `policy`, `conflict`, `answer` | where discovery stands, the entries still to visit, the two Apply-to-all policies, the collision and the decision in hand |
| `inflight`, `stopped`, `done`, `failed` | copies queued or under way, `stopped`, whether `completed_items > 0`, whether `failures` is not empty |
| `uiPc`, `view`, `overlay` | the turn of the screen loop, `OperationView`, the text prompt or panel that takes the keys first |
| `approved`, `told`, `changed` | history: jobs the user approved, jobs reported to the user as having changed nothing, jobs that changed the file system |

Each blocking call is the end of an action: `TakePlan` receives, `AnnouncePlanning`
sends the initial `Planning` event and waits for a slot, and so on. Between two
blocking calls or two accesses to shared state by different threads, code runs as
one action. `TryProgress` is `try_send`, `SendEvent` is `send`. The loop in
`StreamingTransfer::resolve` is split where it reads the flag (`AwaitDecision`)
and where it waits for up to 100 ms (`TakeResolution`, `AwaitTimesOut`), so that
a cancellation may fall between the two.

Whether a decision by age favours the source depends on timestamps, so
`SourceWins` and `DestinationStays` are both enabled for it here. A move between
volumes and one that renames differ in `mode`, chosen when the plan is built.

### StreamingTransfer and the code

`src` and `dest` are the two trees; a file is its data (an origin and a version)
and its modified time. `pc`, `frames`, `cur`, `policy`, `reserved` are the
discovery thread: the recursion of `visit` is a stack of open directories, `ask`
is the loop of `resolve`, `place` the choice of a target, `send` the bounded
queue. A worker goes through `open`, `read`, `check`, `publish` and `record`
(`copy_file_inner`, `copy_and_record`); each is a step because another program,
another worker or a cancellation may come between. `journal` and `unpruned`
belong to the last two passes of a move. `verdict`, `agreed` and `home` are
history: what was decided about each source, which data the user agreed to have
replaced, and the target found for a source. The source trees are a forest:
`Children` are disjoint, no directory is `Below` itself, and every entry is below
a root; the planner lets no root inside another one through.
Another program may rewrite a file, or create one, `Edits` times. The last look
at a file and the call that replaces it are one step: no program can close that
window.

### PlannedActions and the code

`fs` maps paths to objects (kind, length, modified time), `trash` receives what
is recycled. A job goes from `asked` over `planning` (validation, fingerprints,
freezing of a deletion tree by `stack`), `review` and `executing` to `done`.
Execution walks through `manifest` with `pass` and `at`; `step` separates the
revalidation of an entry from the call that changes it, so that other programs
(`Meddle`) and failures of the system can come between. Both builds are instances
(`platform`): off Windows a rename is a link and a removal, in two steps. `Path`
is a set of sequences of `Names`, closed under taking parents; an intent is one
whose targets the model has paths for (`ReachesPaths`).

### The scanners, the preview and the screen

In `FolderWalk` each walker has a program counter and its own counts; an action
is a critical section of the shared `WalkState` or a local step. In `FolderSize`,
`Panes` and `PreviewLoader` the screen loop is a variable (`ui`) where a call has
two halves (`clear` and `fill`: the request in force changes first, the slot
afterwards), and absent where the call is one critical section (`Panes`). The
threads are variables `worker`, `reader`, `watcher` with a `step`.

In `Screen` every key of the browsing screen, the filter, the help, the
favorites panel, the prompts, the preview and its Find line is one action, with
everything the handler calls. Which of them takes a key is decided by the order
of `handle_key`. Listings, documents and failures arrive at any time, and so does
every event of the engine, whatever is on the screen: `ProgressArrives` (planning,
progress, a conflict), `ReviewArrives` and `ReportArrives` set the view as
`drain_operation_events` does, and a report has the panes of the changed
directories read again. Which of them may arrive depends on `operation.job`, how
far the operation is, and `operation.older`, one before it whose report is still in
the channel when the next is submitted; the protocol behind them is
`OperationEngine`'s. The only way in which an event meets a screen that shows no
operation is Enter and then Esc in a review: the view goes, the job runs.
`operation.crossed` records it until the end of that job has been dismissed.
A file of the preview has a size, an encoding, and the offsets that are inside of
a character: continuation bytes, the second byte of a UTF-16 unit, the middle of a
surrogate pair. A document is cut to `MaxLines` lines, and a window that begins or
ends in a surrogate pair does not decode (`Decodes`). The deletion and
verification toggles, wrapping, horizontal scrolling and notices are left out.

## 3. What the runs check

| Run | Instance | Question |
|---|---|---|
| `session` | 2 jobs, kinds Move, Recycle, Rename, 1 entry, channels of 2 | is the protocol safe, and does it implement `ReviewedJobs` |
| `live` | 1 move of two colliding files, all channels of 1, fair threads | does everything end that should, and is a completed report true |
| `transfer` | copy or move of a file and of a folder with a file; 18 destinations; 2 workers, queue of 1; 1 foreign write, 1 error | is a file lost, or replaced without consent |
| `deletion` | 15 intents over a tree of 7 entries, both builds, 2 foreign changes, 1 failing call | does a job do exactly what was reviewed |
| `walk` | 2 walkers, 4 directories, backlog 1, batch 2 | is the size right, and does the walk end |
| `sizes` | 2 panes, 2 folders, 3 keys, channel and cache of 1 | is the size shown the one of the focus, and does loading end |
| `panes` | 2 panes, a drive, a directory, the drive list, 3 loads each, channel of 1 | are stale listings dropped, does the focus come back |
| `preview` | 2 files, 2 windows each, 4 requests, 2 writes, channel of 1 | is the newest request shown, in one version, and watched |
| `screen` | 2 panes, 3 directories, 7 keys, a UTF-8 and a UTF-16 file of several windows, 3 lines to a window, every event of an operation | do rows, selection, search, favorites, overlays and intents agree with what is shown |
| `choice`, `names`, `hang` | the smallest that do | three disagreements, section 4 |

Bounds. Channel capacities are 1 or 2 instead of 4, 32, 8 and the like: the
interesting cases are the empty, the full and the non-empty channel. Two jobs are
enough for a leftover of the first to meet the second. Two entries are enough for
one collision to follow another while a worker is busy. In `live` the work queue
holds one copy: discovery waits on the full queue until a worker has finished, and
gives up only when the job is interrupted. In `walk` the backlog is
full as soon as it holds one directory and batches are flushed half-way through a
directory; in `walk` the counter holds the sum of each directory but not of the
whole tree, which fits only where some directory cannot be read; in `hang` one
directory alone exceeds it. Two
folders suffice to tell the newest from an older request, three generations to
have two late answers. In `deletion` one change before and one after the
revalidation of the same entry is the worst case; three are two such cases in a
row. The seven keys of `screen` are enough to open Find in a preview, type,
switch representation or window and search again; and to approve a review,
abandon it, and open a prompt or a preview or submit the next operation before
the events of the first arrive. Its UTF-16 file has a surrogate pair where a
window begins, its windows of four bytes have more than three lines. Where the same fact is proved
(section 5), it holds for every value of the constants.

Deadlock is checked in every run but `deletion`, where a job ends for good and
other programs have used up their changes. In the others the program rests only
in a state described by an action (`Terminated`, `Ended`, `Finished`), so a full
circle of waiting threads would be reported.

The properties, with the definitions that combine several:

- *Engine.* `OutcomeInvariant` combines `EngineInvariant` (the types,
  `BusyHasOneOwner`: the busy flag is set exactly while a `Plan` command is in
  the channel, the coordinator works, or a plan waits for the user;
  `OnlyApprovedJobsRun`, `QuitIsIdle` and what makes them inductive) with what
  holds about the end of a job: `ChoicesKeepTheirJob`, `ScopeIsAccountedFor` and
  `LastWordIsTheEnd` (once the event queue is drained, the screen shows how the
  newest job ended).
  `ScreenAgreesAtRest`: with all queues empty the screen shows no phantom
  activity. `NoAnswerCrossesJobs`, `CancelIsRemembered`,
  `CompletedMeansEverything`, `ImplementsReviewedJobs` as their names say.
- *Transfer.* `TransferInvariant` combines the types,
  `SourcesWaitForTheCopyPass` (no source goes before every other one is copied
  or decided), `SkipKeepsSource`, `CopyIsTheSeenVersion` (a file written
  during its copy is not published) and the reasons for them, which are the
  inductive invariant of section 5. `NoSourceLost`: what was removed is at the
  destination, unless the user decided for the file there.
  `ReplacedOnlyAsAgreed`: a destination is replaced only in the version that was
  shown. `CompletedSettlesEverything` and `UnchangedMeansUnchanged` are about
  the truth of the report.
- *Planned actions.* `RemovesOnlyTheReviewed`, `NothingIsLost`,
  `NothingIsReplaced` as action properties over everything that disappears;
  `JobInvariant` combines the types, `CancelStopsSoon`, `CompletedMeansAll`,
  `ScopeIsTheTree` and the reasons for them: `DiskIsATree`, `StagesAgree` with
  `FrozenInPostOrder`, `ScopeIsCovered`, `ProgressIsKept` and
  `ActsOnWhatWasSeen`; and, for a job nobody interferes with, `PlanIsTrue`,
  `TargetsFit`, `WorkIsAsPlanned` and `OnlyHindered`. `UndisturbedJobsComplete`
  says that such a job does all that was asked: the manifest's order and its two
  passes work, and no rename of a move stands in the way of another. The tree has
  a link, and one rename goes to its name (`LinkAtTarget`).
- *Walk.* `ResultIsTrue` combines `MeasuredIsExact` (against the counts of the
  entries that can be reached) and `OverflowIsReal`. What can be reached is the
  least set of directories closed under reading; the bytes of a set of entries
  are counted one by one (`BytesIn`), so neither needs a recursion.
  `NobodyLeavesWorkBehind`: who stops while the request is current leaves no
  directory behind.
- *Sizes.* `SizeInvariant` combines the types, `NoRequestIsLost` (a size that
  loads is on its way, although request and cancel have two steps) and
  `OldWorkIsReplaced`. `ImplementsLatestWins` includes the cache: the key of a
  size is path and generation.
- *Panes.* `PanesInvariant` is types and `NoScanIsLost`. `FocusComesBack`: the
  directory left upwards is focused again, also after a failure and a retry.
- *Preview.* `PreviewInvariant` combines the types, `NoRequestIsLost`,
  `NoForeignNotice` and `ShownIsWatched`. `ShowsWhatWasAskedLast` and
  `WindowsAreOfOneVersion` are action properties.
- *Screen.* `ScreenInvariant` combines the types, `RowsAgree` (rows, names and
  cursor belong to the entries), `SelectionIsListed` and `OneTakesTheKeys`. The
  last one and `IntentIsOnScreen` say what is left of them when an abandonment has
  crossed an approved operation (section 4): its view, and no other thing, may be
  beside another one, and only from a prompt is an operation submitted meanwhile.
  `FocusIsKept`, `SearchIsSound`; `FavoritesAgree`, the lists of drives after
  every step and memory and file at every change; and `WindowsMeet`: the windows of a file
  meet, and none that is shown splits a character.

Liveness, under weak fairness of each thread and of the screen loop.
An operating system schedules every runnable thread; the loop polls with a
timeout of 50 ms and drains its queues in every turn; trees and files are
finite. Publishing progress is never required. No key has to be pressed and no
other program has to do anything: in `OperationEngine` `HandleKey` is fair but
which key it is, or none, is free, so `CancelledJobEnds` holds although nobody
answers the open question. In `Panes` only the worker of one pane is fair
(`FairPane`): the other one may be stuck in a system call for ever, and
`ScanningEnds` holds for the first all the same. In `FolderSize` a measurement
ends because `WalkEnds` holds. `ScanningEnds`, `SizingEnds` and `PreviewSettles`
combine "what is loading is shown or given up" with "threads end when the scanner
is dropped" and, for the preview, "an outdated document is marked". `deletion`,
`transfer` and `screen` state no fairness and check no liveness.

Every property of a passing run has a mutant in `PROJECT.json`: a definition
replaced by one that a plausible slip in that code would give. They stand next to
the definitions they replace, marked `mutant`, and each makes TLC report the
property as violated.

## 4. Where the code disagrees

Three runs have to fail; each shows one disagreement.

- `choice`: the prompt stays on screen after a choice, so a second press is
  stored and decides the next collision unseen. `docs/ARCHITECTURE.md` promises
  an explicit choice for every overwritten destination.
- `names`: `a` collides and is kept as `a (2)`, which is the natural name of
  another source of the same job. If the worker publishes it between the two
  looks `visit_file` takes at its target (`engine/executor.rs:524` and `:634`),
  the second one takes it for a destination to be kept, and a move removes the
  later source without having copied it.
- `hang`: a walker reports an overflow and clears the backlog; another one then
  shares a directory without looking at the failure. All walkers leave, and
  `measure_folder_with_workers` waits for a backlog nobody empties. `WalkEnds`
  therefore speaks of trees that fit the counter.

Further ones are no runs of their own.

- *Question off screen* (`app/main.rs:582`). README 49-50 says that collisions
  pause discovery for a decision while queued work continues. That work's
  progress takes the prompt off the screen and no second `Conflict` event
  follows; the job can only be cancelled. Add `INVARIANT QuestionStaysOnScreen`
  to `OperationEngine_choice.cfg` to see it.
- *Told unchanged* (`app/main.rs:644`). The review stays on screen after
  approval; Enter followed by Esc says "Operation cancelled; no files changed"
  while the job runs. Add `INVARIANT ToldUnchangedIsUnchanged`.
- *Lost notice* (`fs/preview.rs:235`). The watcher disarms itself before it
  sends its notice with `try_send`; if another file's notice still fills the
  channel, this one is never given. The history variable `lost` names that case
  and the preview properties exempt nothing else.
- *Find* (`app/main.rs`, Find line of the preview). `docs/PREVIEW_DESIGN.md`
  says that Enter moves to the next match; the code only closes Find.
- *Abandoned and running* (`app/main.rs:574-606`). After the same two keys the
  view is idle and everything can be opened; the next event puts the view back,
  beside a preview, a panel or a prompt, which keep the keys and hide it, or over
  the help or the filter. A report then has panes read again behind an open prompt,
  and Enter submits the rename of a path that the pane may no longer list; the
  engine plans it anew, so what is at stake is the screen, not the files. To see
  it, drop the exception from `OneTakesTheKeys` or `IntentIsOnScreen`.
- *Surrogate pairs* (`fs/preview.rs:400`, `:576`). `docs/PREVIEW_DESIGN.md` (271)
  promises "bounded head, middle, and tail byte windows with UTF-8/UTF-16-safe
  boundaries". `align_boundary` moves a boundary to an even byte, which may lie
  between the two halves of a pair; `from_utf16` then refuses the window as invalid
  text. No window with half a character is shown (`WindowsMeet`), but paging stops
  there. Add `INVARIANT WindowsDecode` to `Screen_all.cfg`
  to see it.
- *Long windows* (`fs/preview.rs:17`, `:614-628`). Of a window with more than
  100,000 lines the first ones are kept, or the last ones at the end of the file,
  while `window_end` stays: the next window begins behind lines that no window
  shows. The windows meet, the lines do not; `WindowsMeet` is about the former.
  Of a file below 8 MiB these lines are shown nowhere, and it loses its formatted
  text.
- *Text that is none.* In a file that is not valid UTF-8 a window may begin within a
  run of more than three continuation bytes, and paging back from it may leave up
  to three bytes out. `WindowsMeet` names the case (`IsText`).
- *Favorites file.* An invalid or oversized file, or one that could not be read at
  the start, loads as an empty list, and the next toggle overwrites it.
- *Filter and selection.* The filter stays when the pane navigates; a selected
  entry the filter hides is still an operand. Restoring the focus to an entry
  hidden by its dot drops the filter and yet cannot focus it (`AwaitedIsFocused`
  is stated with that exception).
- *Windows of time in which another program wins.* A rename off Windows can leave
  two names or take another program's file for its own; directories are only
  revalidated as directories; the trash receives a root with whatever is in it;
  a file dated before 1970 is recorded without its time and known by its length
  alone. The properties of `PlannedActions` allow exactly these.
- *Links at a target.* `try_exists` follows links, so the planner takes the name of
  a dangling link for a free one and shows the plan for review; the system's call
  then refuses it. Nothing is lost, and `UndisturbedJobsComplete` names the case.
- *Worker failure during a question* (`engine/executor.rs:707`). A worker that
  fails while discovery waits for a decision does not wake it: the user answers
  first. No property is about it, since `ExecutionEndsOrAsks` is satisfied.
- *Fingerprints* (`engine/planner.rs:905`). A streaming transfer takes fresh
  fingerprints and does not compare them with those of the review.

## 5. What is proved

All theorems hold for arbitrary constants subject to the `ASSUME` of the module,
which says no more than that bounds are positive, sets are disjoint where the
code's types are, tables have the right domains, and trees are trees. Three
theorems about transfers have further hypotheses, given with them.

**Engine** (`EngineAssumption`).
1. `TypeCorrect`. Inductive together with `LocalsAgree`, which ties the
   executor's locals to the point it has reached.
2. `EngineInvariantHolds`. The safety properties are not inductive by
   themselves. What makes them so is knowledge about messages under way: a `Plan`
   command is the last one in the channel and belongs to the newest job; while a
   review is announced but not shown, no decision about it exists and the command
   channel is empty; a review on screen is of a plan on hold with no `Abandon`
   under way unless it has been approved; once approved, the approval is the
   first command that reaches the plan. `EngineWorks` and `ScreenMoves` cover the
   many steps that only move the executor or the screen; each handover
   (`TakePlan`, `PresentPlan`, `TakeApprove`, `TakeAbandon`, `ReleaseBusy`,
   `Submit`, the decision keys, `DrainEvent`) has a lemma.
3. `BusyHasOneOwnerHolds`, `OnlyApprovedJobsRunHolds`,
   `QuitLeavesNothingRunningHolds` follow.
4. `CancelIsRememberedHolds`: only a submission clears the flag, and none is
   admitted while a job runs.
5. `ImplementsReviewedJobsHolds`: with the invariant before and after, each step
   is one step of `ReviewedJobs` or none.

6. `OutcomeInvariantHolds`, on top of `EngineInvariant`: while a job runs the busy
   flag keeps out the submission that would take back a cancellation or put
   something else on screen. `LastWordIsTheEnd` looks through the event queue to
   what the screen will show. From it follow `NoAnswerCrossesJobsHolds` (a choice
   carries the job of the collision that was on screen, so one left over from the
   job before is passed over), `CompletedMeansEverythingHolds` (a walk is given up
   only with a cancellation or a failure on record) and `ScreenAgreesAtRestHolds`.

**Transfer** (`TransferAssumption`: the source trees are a finite forest, names of
copies are names, modified times at the start are below the ones later writes
get). Four invariants, each from the ones before; each is about arbitrary trees,
destinations, numbers of workers and writes of other programs.
1. `Soundness`, with it `TransferTypeCorrect`, `OnlySeenVersionsArePublished` and
   `NothingElseIsReplaced` (`ReplacedOnlyAsAgreed`): what a worker published
   stands at a reserved target, so no other task overwrites it; the modified time
   tells the versions of a file apart; a task that has been handed out overwrites
   only a version that was agreed to. The hard case is a task that waits in the
   queue while the target changes: then the time differs and the last look
   refuses it.
2. `Order`, with it `SkippedSourcesStay` and `UnchangedMeansUnchangedHolds`: the
   walk comes to each entry once (what waits in the open directories, and what is
   below it, are disjoint), a source is with the queue, one worker or the journal
   and only once, nothing has been done about what lies ahead or was skipped, and
   cleanup waits for the queue and the workers.
3. `Homes`: every target is a name for its source in the target of its directory,
   and no two sources have one. This needs `NamesApart`: no two entries of one
   directory can be given the same name, the copies `n (2)` included.
4. `Cargo`, with it `CompletedSettlesEverythingHolds` (from `NamesApart`),
   `TransferInvariantHolds` (and `OthersStayOut`) and `NoSourceLostHolds` (and
   `TimesAreKnown`): what has been published, journaled or removed lies at its
   target in the version that was seen, and as long as the job goes on every file
   is ahead, carried or dealt with. `Onward` says what the steps of the others
   leave alone.

   Each hypothesis is a case the code really gets wrong or does not look at.
   Without `NamesApart` run `names` violates `NoSourceLost`. `OthersStayOut` says
   that other programs create no files in the destination of a *move*: one created
   between the two looks of `visit_file` is taken for a file that was kept. Copies
   are free of it, and so is the rewriting of files that are there already.
   `TimesAreKnown` says that no source is dated before 1970: such a time is not
   journaled (`JournalTime`), so that a source rewritten during the move is
   removed all the same.

**Planned actions** (`PlannedAssumption`: `Path` is closed under parents, `Tree` is
a tree). `JobIsSafeHolds`, and from it the action properties
`NothingIsReplacedHolds`, `NothingIsLostHolds` and `RemovesOnlyTheReviewedHolds`;
then `JobInvariantHolds` and `UndisturbedJobsCompleteHolds`; all with no further
hypotheses.
- The scope of a permanent deletion is written in post-order. What makes that
  inductive (`FrozenInPostOrder`) is that the entries still due overlap neither
  each other nor what is written, and that the directories open on the stack are
  nested and enclose what is due in them. Lemmas about `Within`, `Parent`
  and `Apart` on sequences carry it.
- `ScopeIsCovered`: as long as nobody interferes, everything below the sources is
  written, open or below something due, so the manifest is the whole tree.
- `ProgressIsKept`: what has been taken is what lies behind the executor in its
  two passes, so a job that reaches the end without failure has taken all of it,
  each entry once.
- `ActsOnWhatWasSeen`: between the look at an entry and the call that removes it
  only another program can have changed it. It leaves open exactly the windows
  that section 4 names.
- When nobody interferes: `PlanIsTrue`, the disk is the one the job started with
  until it is approved, and each entry of the plan is as it was found there.
  `TargetsFit`, the targets of a move are free (or links), have one parent and
  different names, so none is within another or within a source. `WorkIsAsPlanned`,
  each entry is done as a whole or still in place: of two renames neither touches
  the source, the target or the target's directory of the other. Hence no
  revalidation fails (`NextIsReviewed`), and the directory next to be deleted is
  empty (`NextIsEmpty`): by `ScopeIsTheTree` each of its children is in the
  manifest, by post-order before it, so in the first or the second pass it has been
  taken already. What is left of the calls that fail is `OnlyHindered`.

**Walk** (`WalkAssumption`). `WalkTypeCorrect`, `NoWorkLeft`
(`NobodyLeavesWorkBehind`). Inductive with `ActiveCountsWorkers`: `WalkState.active`
is the cardinality of the set of walkers inside a directory, and `BatchBelow`.
`MeasuredResultIsTrue` (`ResultIsTrue`) has the inductive invariant `WInv`. It keeps
books (`BooksAre`): some sets `done`, of the entries dealt with, `flushed`, of those in
the shared counts, and `own`, of those in each walker's own counts, are such that
- no entry is in two places, whether stack, a walker's hands or `done`
  (`NothingTwice`), and each has been found (`OnlyFound`);
- the shared counts are `Measure(flushed)`, and those of a walker `Measure` of its own
  set (`Sums`), so flushing adds what is disjoint (`MeasureAdds`);
- as long as no walker has failed and nobody has superseded the walk (`Clean`),
  nothing is dropped: what a directory dealt with contains has been met, and what is
  done is counted somewhere (`NothingDropped`);
- an overflow is one of disjoint sets of found entries, so the tree is too large
  (`ErrorsAreReal`).

When a clean walk returns, stack and hands are empty, so what has been met is closed
under reading and therefore everything that can be reached. One lemma per action
(`DescendKeeps`, `FileKeeps`, `FlushKeeps`, ...) rests on lemmas about such books
(`BookCount`, `BookLose`, ...). `WalkAssumption` says of the tree that directories
share no entry and the root is in none: entries are names, so a file with two hard
links is two of them, and links to directories are skipped and not entered.

**Panes** (`PanesAssumption`). `NoScanIsEverLost` (`PanesInvariant`),
`PanesShowTheLatest` (`ImplementsLatestWins`), `FocusAlwaysComesBack`, from
`Agreement`: each request in mailbox, worker or channel is the pane's own or has a
smaller generation, the mailbox holds only the own one, and the uncancelled token
is the pane's.

**Preview** (`PreviewAssumption`). `PreviewIsKept` (`PreviewInvariant`),
`TheLastIsShown`, `OneVersionIsShown`, from `Agreement`: requests are numbered and
a number is one request; answers are true of the version they name, which is of
the file's past; a watch is of the file on screen whenever there is one.

**Sizes** (`FolderSizeAssumption`). `SizesAgree` (`SizeInvariant`),
`SizesAreOfTheFocus` (`ImplementsLatestWins`), from `Coherence`: numbers under way
were given out, the call that is half done holds the newest, equal numbers have
equal keys, and cached sizes were measured for their own key.

**Screen** (`PaneStateAssumption`, `PreviewSessionAssumption`, `FoundAssumption`,
`ScreenAssumption`). `ScreenKeptHolds`, and from it `ScreenInvariantHolds`,
`FavoritesAgreeHolds`, `SearchIsSoundHolds`; each step is `Sound` (`EveryStep`),
from which follow the action properties `FocusIsKeptHolds`,
`IntentIsOnScreenHolds`, `WindowsMeetHolds`: every property of run `screen`, for
any listings, files, favorites, queries and number of keys. One lemma per action
(`DrainStep`, `SubmitTransferStep`, `WindowArrivesStep`, ...) rests on lemmas about
the operators of `PaneState` and `PreviewSession`.
- What the properties lack to be inductive: as long as nothing has been crossed,
  an operation of which events are to come has its view on the screen, and no
  earlier one has a report to give (`OperationKept`), so no event opens anything;
  afterwards it opens the view alone (`ToldStep`). A pane that is not ready has no
  entries, so the path of a prompt, which is open only over a pane that is ready,
  cannot disappear from the list behind it as long as the view is idle
  (`PromptKept`; the answer of a scan comes to a loading pane only, and what has
  it read again shows a view at the same time); the favorites are unique, so that what is saved
  is what is in use; a window is waited for only where there is one (`Awaits`),
  and is then one of a file that is too large to be read as a whole.
- Rows: a set that is put into a strict total order is a sequence of each of its
  elements once (`OrderedIsOrdered`). The comparison of rows is one of three
  numbers, one after the other (`RowsAreCompared`), hence strict, and sorting
  rearranges the entries together with their names (`SortedRows`). The filter is
  dropped for an awaited entry only if it hid it (`FocusIsRestored`).
- Windows: `AlignBoundary` moves an offset back by at most three bytes, in text
  other than UTF-16 to a boundary, and leaves a boundary where it is (`AlignedIs`).
  This is why a window from a boundary begins there and, being of at least four
  bytes, is not empty (`WindowRangeIs`). That both ends of a window in UTF-16 are
  boundaries is known only of one that decodes (`DocumentIs`).
- Search: after whatever happened to the text, the mode or the query, searching
  again makes the results those of the query (`RecomputedIsKept`), provided the
  old ones were of this text or forgotten (`SessionAlmost`).

What the assumptions say of the program's surroundings: what can be entered is a
directory and has a path; the shortcuts are not among the entries a scan finds;
favorites are places a pane can be asked to show; in UTF-16 an odd offset is
within a unit (which even ones are within a pair, and how long a run of
continuation bytes is elsewhere, is open); and what a search finds are lines of
the text it has searched.
The sort, the filter and the deduplication are stated by their results
(`Ordered`, `Ascending`, `Keeping`), not by a recursion over a sequence, of which
nothing could be proved: the stable order of the rows, the indices that are let
through in ascending order, the first of equal folders.

Only model-checked: all liveness and what needs fairness (`WalkEnds`,
`ScanningEnds`, `SizingEnds`, `PreviewSettles`, those of `live`), which is out of the
prover's reach. Every invariant that a passing run checks is a theorem, and so is every
safety property of a step.

## 6. What could come next

A model of the writing of the favorites file in its single system calls.

## 7. Not modelled

- *Native size enumeration* (`fs/size_entries.rs`): decoding of the system's
  directory buffers, data without control.
- *Rendering* (`app/ui.rs`): a function from the state to terminal cells.
- *Elevation, terminal guard, command line, installer and packaging*: sequential
  calls of the operating system without a protocol of their own.
- *Favorites* are modelled up to the replacement of the file, which is one step:
  the temporary file of `save_atomically` is no state of its own.
- *Preview text*: classification, encodings and Markdown; the reads of one load
  see one version of the file.
- *Disk during a scan or walk*: a listing, and the count of a move's scope, is of
  one moment; the tree does not change while it is measured.
- Channels are never disconnected because both ends live as long as the process
  (`Panes`, `FolderSize` model the end of theirs); threads do not panic. Timeouts
  are nondeterministic choices, not clocks. Notices, wording, progress figures and
  permissions are left out.
