--------------------------- MODULE PlannedActions ---------------------------
(***************************************************************************)
(* The plans that are not streaming transfers, from the intent to the      *)
(* report: what the planner validates, fingerprints and freezes            *)
(* (build_delete, build_rename, build_mkdir, build_transfer), and what the *)
(* executor then does to the disk (execute_permanent_delete,               *)
(* execute_recycle, execute_atomic_moves and the two single renames and    *)
(* creations), while other programs change the tree before, during and     *)
(* after the review.                                                       *)
(*                                                                         *)
(* Abstractions.  A path is a sequence of names below one volume's root; a *)
(* file is its length and its modified time, and every write by another    *)
(* program has a time of its own.  A metadata read, a rename and a removal *)
(* are one step each; a listing is of one moment, the counting walk of a   *)
(* move too.  The order in which sources and the entries of a directory    *)
(* are visited is left open.  Changes the program makes to the modified    *)
(* time of the enclosing directory are left out: sources never enclose     *)
(* one another.                                                            *)
(***************************************************************************)
EXTENDS Naturals, SequencesExt, FiniteSets

CONSTANTS
    Names,              \* the names considered that a platform accepts
    Path,               \* the paths considered, the root <<>> among them, and
                        \* wherever the renames considered take an entry
    Tree,               \* the entries of the disk when the job starts
    Intents,            \* the submitted intents considered
    Platforms,          \* the builds considered: "Windows", "Unix"
    MaxSources,         \* the largest number of selections in a job
    Touched,            \* the paths other programs may change
    Edits, Mishaps      \* bounds: changes by other programs, failed calls

Absent == [kind |-> "Absent", len |-> 0, time |-> 0]
FirstEdit == 10         \* modified times of what other programs write
Unknown == 99           \* no modified time in a manifest entry
Object == [kind : {"Absent", "File", "Directory", "Link"},
           len : 0 .. 2, time : 0 .. FirstEdit + Edits]

Within(p, q) == IsPrefix(q, p)
Parent(p) == Front(p)
Leaf(p) == Last(p)

Renaming == {"Rename", "Move"}
Kinds == Renaming \cup {"PermanentDelete", "Recycle", "CreateDirectory"}

(* Where an intent takes its source s, and then whatever p is within it. *)
TargetOf(i, s) == CASE i.kind = "Move" -> Append(i.to, Leaf(s))
                    [] i.kind = "Rename" -> Append(Parent(s), i.name)
                    [] i.kind = "CreateDirectory" -> Append(s, i.name)
                    [] OTHER -> s
Image(p, from, to) == to \o SubSeq(p, Len(from) + 1, Len(p))

(* Whatever encloses an entry is a directory. *)
IsTree(tree) == \A p, q \in Path :
                   Within(p, q) /\ p # q /\ tree[p].kind # "Absent" =>
                       tree[q].kind = "Directory"

(* Every path an intent may lead to is among those considered. *)
ReachesPaths(i) ==
    \A s \in i.sources :
        LET t == TargetOf(i, s) IN
        (i.kind \in Renaming => s # <<>>) =>
            /\ i.kind \notin {"Rename", "CreateDirectory"} \/ i.name \in Names
                  => t \in Path
            /\ i.kind \in Renaming /\ t \in Path =>
                  \A p \in Path : Within(p, s) /\ ~Within(t, s) =>
                      Image(p, s, t) \in Path

ASSUME PlannedAssumption ==
    /\ <<>> \in Path /\ Path \subseteq Seq(Names)
    /\ \A p \in Path : \A n \in 0 .. Len(p) : SubSeq(p, 1, n) \in Path
    /\ Tree \in [Path -> Object] /\ Tree[<<>>].kind = "Directory"
    /\ IsTree(Tree)
    /\ \A i \in Intents :
           /\ i.kind \in Kinds /\ i.sources \subseteq Path /\ ReachesPaths(i)
           /\ i.kind = "Move" => i.to \in Path
           /\ i.kind \in {"Rename", "CreateDirectory"} =>
                  \E p \in Path : i.sources = {p}
    /\ Touched \subseteq Path \ {<<>>}
    /\ Platforms \subseteq {"Windows", "Unix"}
    /\ MaxSources \in Nat /\ Edits \in Nat /\ Mishaps \in Nat

VARIABLES
    platform, intent,
    fs,         \* fs[p]: what stands at p
    trash,      \* the objects the system's trash has received
    phase,      \* "asked", "planning", "review", "executing", "ended", "done"
    cancel,     \* the cancellation flag of the job
    left,       \* the sources still to be planned
    stack,      \* the directories being frozen, with their entries due
    manifest,   \* the planned entries: snapshots, roots or delete manifest
    clear,      \* every target of a move was free when it was planned
    pass, at,   \* the executor's pass over the manifest and its position
    step,       \* its next call: "check", "act" or "unlink"
    taken,      \* the paths whose planned change has been made
    failed,     \* a failure has been recorded
    outcome,
    edits, mishaps,     \* how many changes and failed calls there were
    meddled,    \* the paths others changed since the last revalidation
    late        \* the items completed after the user's cancellation

planning == <<left, stack, manifest, clear>>
executing == <<pass, at, step, taken, failed>>
others == <<edits, mishaps, meddled, late>>
vars == <<platform, intent, fs, trash, phase, cancel, planning, executing,
          outcome, others>>

Outcomes == {"None", "Refused", "Streamed", "Abandoned", "Completed",
             "Partial", "Cancelled", "Failed"}
Fingerprint == [kind : {"File", "Directory"}, len : 0 .. 2,
                time : (0 .. FirstEdit + Edits) \cup {Unknown}]
Entry == [path : Path, fp : Fingerprint, target : Path]
Frame == [dir : Path, fp : Fingerprint, due : SUBSET Path]

Is(p, kind) == fs[p].kind = kind
There(p) == ~Is(p, "Absent")
Listed(d) == {p \in Path : p # <<>> /\ Parent(p) = d /\ There(p)}
Under(d) == {p \in Path : Within(p, d) /\ There(p)}

(* Only renames depend on the build: the others are of any one platform. *)
Renames == intent.kind \in Renaming

Init ==
    /\ platform \in Platforms /\ intent \in Intents
    /\ Renames \/ platform = CHOOSE any \in Platforms : TRUE
    /\ fs = Tree /\ trash = {}
    /\ phase = "asked" /\ cancel = FALSE
    /\ left = {} /\ stack = <<>> /\ manifest = <<>> /\ clear = TRUE
    /\ pass = "File" /\ at = 1 /\ step = "check"
    /\ taken = {} /\ failed = FALSE /\ outcome = "None"
    /\ edits = 0 /\ mishaps = 0 /\ meddled = {} /\ late = 0

(***************************************************************************)
(* Planning.                                                               *)
(***************************************************************************)
Refuse ==
    /\ phase' = "done" /\ outcome' = "Refused"
    /\ UNCHANGED <<platform, intent, fs, trash, cancel, planning, executing,
                   others>>

Refused(p) == fs[p].kind \in {"Absent", "Link"}     \* or not readable

ValidSources(sources) ==
    /\ sources # {} /\ Cardinality(sources) <= MaxSources
    /\ \A p, q \in sources : Within(q, p) => p = q

Deletes == intent.kind \in {"PermanentDelete", "Recycle"}
IsMove == intent.kind = "Move"
ValidName == intent.name \in Names

(* A call of the system that fails for a reason of its own. *)
Mishap == mishaps < Mishaps /\ mishaps' = mishaps + 1

(* try_exists follows links: a dangling one looks like a free name. *)
LooksFree(p) == {~There(p)} \cup (IF Is(p, "Link") THEN {TRUE} ELSE {})

Begin ==
    /\ phase = "asked"
    /\ IF \/ cancel
          \/ (Deletes \/ IsMove) /\ ~ValidSources(intent.sources)
          \/ IsMove /\ ~Is(intent.to, "Directory")
          \/ intent.kind \in {"Rename", "CreateDirectory"} /\ ~ValidName
       THEN Refuse
       ELSE /\ phase' = "planning" /\ left' = intent.sources
            /\ UNCHANGED <<platform, intent, fs, trash, cancel, stack,
                           manifest, clear, executing, outcome, others>>

EntryOf(p, fp, target) == [path |-> p, fp |-> fp, target |-> target]

(* A modified time before 1970 is not kept by the manifest on disk. *)
Recorded(fp) == IF fp.time = 0 THEN [fp EXCEPT !.time = Unknown] ELSE fp

\* mutant
FrozenFirst(p, fp, frames) ==
    /\ manifest' = Append(manifest, EntryOf(p, Recorded(fp), p))
    /\ stack' = IF fp.kind = "File" THEN frames
                ELSE Append(frames, [dir |-> p, fp |-> fp, due |-> Listed(p)])

(* collect_delete_manifest: a file is written at once, a directory after   *)
(* everything listed in it.                                                *)
Freeze(p, fp, frames) ==
    IF fp.kind = "File"
    THEN /\ manifest' = Append(manifest, EntryOf(p, Recorded(fp), p))
         /\ stack' = frames
    ELSE /\ stack' = Append(frames, [dir |-> p, fp |-> fp, due |-> Listed(p)])
         /\ UNCHANGED manifest

InspectDeleted(p) ==
    /\ Deletes
    /\ IF p = <<>> \/ Refused(p) THEN Refuse
       ELSE /\ left' = left \ {p}
            /\ IF intent.kind = "PermanentDelete" THEN Freeze(p, fs[p], stack)
               ELSE /\ manifest' = Append(manifest, EntryOf(p, fs[p], p))
                    /\ UNCHANGED stack
            /\ UNCHANGED <<platform, intent, fs, trash, phase, cancel, clear,
                           executing, outcome, others>>

InspectMoved(p) ==
    LET target == TargetOf(intent, p) IN
    /\ IsMove
    /\ IF \/ p = <<>> \/ Refused(p)
          \/ Is(p, "Directory") /\ Within(intent.to, p)
          \/ \E i \in DOMAIN manifest : manifest[i].target = target
          \/ There(target) /\ target = p
       THEN Refuse
       ELSE \E free \in LooksFree(target) :
            /\ manifest' = Append(manifest, EntryOf(p, fs[p], target))
            /\ left' = left \ {p} /\ clear' = (clear /\ free)
            /\ UNCHANGED <<platform, intent, fs, trash, phase, cancel, stack,
                           executing, outcome, others>>

InspectNamed(p) ==
    /\ intent.kind \in {"Rename", "CreateDirectory"}
    /\ IF \/ intent.kind = "Rename" /\ (p = <<>> \/ TargetOf(intent, p) = p)
          \/ intent.kind = "CreateDirectory" /\ ~Is(p, "Directory")
          \/ Refused(p)
       THEN Refuse
       ELSE \E free \in LooksFree(TargetOf(intent, p)) :
        IF ~free THEN Refuse
        ELSE /\ manifest' = <<EntryOf(p, fs[p], TargetOf(intent, p))>>
             /\ left' = {}
             /\ UNCHANGED <<platform, intent, fs, trash, phase, cancel, stack,
                            clear, executing, outcome, others>>

(* The source loop of build_delete and build_transfer, and the inspection  *)
(* of the two other builders.                                              *)
Inspect ==
    /\ phase = "planning" /\ stack = <<>>
    /\ \E p \in left : IF cancel THEN Refuse
                       ELSE InspectDeleted(p) \/ InspectMoved(p) \/ InspectNamed(p)

(* One entry of the directory being frozen. *)
Descend ==
    /\ phase = "planning" /\ stack # <<>> /\ Last(stack).due # {}
    /\ \E p \in Last(stack).due :
        IF cancel \/ Refused(p) THEN Refuse
        ELSE /\ Freeze(p, fs[p],
                       [stack EXCEPT ![Len(stack)].due = @ \ {p}])
             /\ UNCHANGED <<platform, intent, fs, trash, phase, cancel, left,
                            clear, executing, outcome, others>>

(* Everything in the directory is written: the directory follows. *)
Leave ==
    /\ phase = "planning" /\ stack # <<>> /\ Last(stack).due = {}
    /\ manifest' = Append(manifest,
                          EntryOf(Last(stack).dir, Recorded(Last(stack).fp),
                                  Last(stack).dir))
    /\ stack' = Front(stack)
    /\ UNCHANGED <<platform, intent, fs, trash, phase, cancel, left, clear,
                   executing, outcome, others>>

PlanFails ==
    /\ phase \in {"asked", "planning"} /\ Mishap
    /\ phase' = "done" /\ outcome' = "Refused"
    /\ UNCHANGED <<platform, intent, fs, trash, cancel, planning, executing,
                   edits, meddled, late>>

(* The counting walk of a transfer refuses what it cannot move. *)
Countable ==
    \A i \in DOMAIN manifest :
        \A p \in Under(manifest[i].path) : ~Is(p, "Link")

(* The plan is complete: it is shown for review, unless it was cancelled   *)
(* meanwhile.  A move that is not a rename within one volume, to targets   *)
(* that are all free, is a streaming transfer instead.                     *)
SameVolume == platform = "Windows"
Atomic == IsMove => SameVolume /\ clear

PlanReady ==
    /\ phase = "planning" /\ stack = <<>> /\ left = {}
    /\ IF cancel \/ (IsMove /\ ~Countable) THEN Refuse
       ELSE /\ phase' = IF Atomic THEN "review" ELSE "done"
            /\ outcome' = IF Atomic THEN "None" ELSE "Streamed"
            /\ UNCHANGED <<platform, intent, fs, trash, cancel, planning,
                           executing, others>>

(***************************************************************************)
(* The review, and the other programs.                                     *)
(***************************************************************************)
Confirm ==
    /\ phase = "review" /\ phase' = "executing"
    /\ UNCHANGED <<platform, intent, fs, trash, cancel, planning, executing,
                   outcome, others>>

Abandon ==
    /\ phase = "review" /\ phase' = "done" /\ outcome' = "Abandoned"
    /\ UNCHANGED <<platform, intent, fs, trash, cancel, planning, executing,
                   others>>

RequestCancel ==
    /\ ~cancel /\ phase # "done" /\ cancel' = TRUE
    /\ UNCHANGED <<platform, intent, fs, trash, phase, planning, executing,
                   outcome, others>>

Written == [kind : {"File"}, len : {1, 2}, time : {FirstEdit + edits}]
Others == Written \cup {[kind |-> k, len |-> 0, time |-> FirstEdit + edits] :
                         k \in {"Directory", "Link"}} \cup {Absent}

(* Another program writes, creates or removes an entry; the modified time  *)
(* of a directory follows its list of entries.                             *)
Meddle ==
    /\ phase \notin {"asked", "ended", "done"} /\ edits < Edits
    /\ \E p \in Touched, o \in Others :
        /\ Is(Parent(p), "Directory") /\ Listed(p) = {}
        /\ o.kind # fs[p].kind \/ o.kind = "File"
        /\ fs' = [fs EXCEPT ![p] = o,
                  ![Parent(p)].time = IF o.kind = fs[p].kind THEN @
                                      ELSE FirstEdit + edits]
        /\ meddled' = meddled \cup {p}
    /\ edits' = edits + 1
    /\ UNCHANGED <<platform, intent, trash, phase, cancel, planning,
                   executing, outcome, mishaps, late>>

(***************************************************************************)
(* Execution.                                                              *)
(***************************************************************************)
Permanent == intent.kind = "PermanentDelete"
Current == manifest[at]
OfThisPass(e) == Permanent => e.fp.kind = pass
Checking == phase = "executing" /\ step = "check"
Acting == phase = "executing" /\ step = "act"

CancelSeen == cancel

Stop ==
    /\ Checking /\ CancelSeen
    /\ phase' = "ended"
    /\ UNCHANGED <<platform, intent, fs, trash, cancel, planning, executing,
                   outcome, others>>

\* mutant
KeepsReading ==
    /\ Checking /\ ~CancelSeen /\ at > Len(manifest)
    /\ IF Permanent /\ pass = "File"
       THEN pass' = "Directory" /\ UNCHANGED <<phase, at>>
       ELSE phase' = "ended" /\ UNCHANGED <<pass, at>>
    /\ UNCHANGED <<platform, intent, fs, trash, cancel, planning, step, taken,
                   failed, outcome, others>>

(* The manifest is read twice from its start, first for the files. *)
EndPass ==
    /\ Checking /\ ~CancelSeen /\ at > Len(manifest)
    /\ IF Permanent /\ pass = "File"
       THEN pass' = "Directory" /\ at' = 1 /\ UNCHANGED phase
       ELSE phase' = "ended" /\ UNCHANGED <<pass, at>>
    /\ UNCHANGED <<platform, intent, fs, trash, cancel, planning, step, taken,
                   failed, outcome, others>>

(* An entry of the other kind is read and left to the other pass. *)
PassOver ==
    /\ Checking /\ ~CancelSeen /\ at <= Len(manifest) /\ ~OfThisPass(Current)
    /\ at' = at + 1
    /\ UNCHANGED <<platform, intent, fs, trash, phase, cancel, planning, pass,
                   step, taken, failed, outcome, others>>

\* mutant
SameKind(e) == intent.kind = "CreateDirectory" \/ Is(e.path, e.fp.kind)

(* revalidate; of a directory to be deleted, only that it still is one.    *)
StillReviewed(e) ==
    \/ intent.kind = "CreateDirectory"
    \/ /\ Is(e.path, e.fp.kind)
       /\ \/ Permanent /\ e.fp.kind = "Directory"
          \/ /\ fs[e.path].len = e.fp.len
             /\ e.fp.time \in {Unknown, fs[e.path].time}

Fail ==
    /\ failed' = TRUE /\ phase' = "ended"
    /\ UNCHANGED <<platform, intent, fs, trash, cancel, planning, pass, at,
                   step, taken, outcome>>

Revalidate ==
    /\ Checking /\ ~CancelSeen /\ at <= Len(manifest) /\ OfThisPass(Current)
    /\ IF StillReviewed(Current)
       THEN /\ step' = "act" /\ meddled' = {}
            /\ UNCHANGED <<platform, intent, fs, trash, phase, cancel,
                           planning, pass, at, taken, failed, outcome, edits,
                           mishaps, late>>
       ELSE Fail /\ UNCHANGED others

(* The bookkeeping after an entry's change has been made. *)
Settle ==
    /\ taken' = taken \cup {Current.path} /\ at' = at + 1 /\ step' = "check"
    /\ late' = IF cancel THEN late + 1 ELSE late
    /\ UNCHANGED <<platform, intent, phase, cancel, planning, pass, failed,
                   outcome, edits, mishaps, meddled>>

Without(paths) == [p \in Path |-> IF p \in paths THEN Absent ELSE fs[p]]

Removable(p) == IF pass = "File" THEN fs[p].kind \in {"File", "Link"}
                ELSE Is(p, "Directory") /\ Listed(p) = {}

RemoveEntry ==
    /\ Acting /\ Permanent /\ Removable(Current.path)
    /\ fs' = Without({Current.path}) /\ UNCHANGED trash
    /\ Settle

(* trash::delete takes a root with whatever is in it at the time. *)
Recycle ==
    /\ Acting /\ intent.kind = "Recycle" /\ There(Current.path)
    /\ trash' = trash \cup {fs[p] : p \in Under(Current.path)}
    /\ fs' = Without(Under(Current.path))
    /\ Settle

Free(p) == ~There(p) /\ Is(Parent(p), "Directory")

\* mutant
Replaceable(p) == Is(Parent(p), "Directory") /\ ~Is(p, "Directory")

(* What the system's rename, link and create calls require of a target.    *)
Available(p) == Free(p)

Moved(from, to) ==
    [p \in Path |->
        IF Within(p, to)
        THEN LET o == Image(p, to, from) IN
             IF o \in Path THEN fs[o] ELSE Absent
        ELSE IF Within(p, from) THEN Absent ELSE fs[p]]

(* rename_no_replace: MoveFileExW without flags, one call. *)
RenameInOneCall ==
    /\ Acting /\ Renames /\ platform = "Windows"
    /\ There(Current.path) /\ Available(Current.target)
    /\ ~Within(Current.target, Current.path)
    /\ fs' = Moved(Current.path, Current.target) /\ UNCHANGED trash
    /\ Settle

(* rename_no_replace elsewhere: a file gets its second name ... *)
Link ==
    /\ Acting /\ Renames /\ platform = "Unix"
    /\ Is(Current.path, "File") /\ Available(Current.target)
    /\ fs' = [fs EXCEPT ![Current.target] = fs[Current.path]]
    /\ step' = "unlink"
    /\ UNCHANGED <<platform, intent, trash, phase, cancel, planning, pass, at,
                   taken, failed, outcome, others>>

(* ... and then loses the first; a directory is not renamed. *)
Unlink ==
    /\ phase = "executing" /\ step = "unlink"
    /\ fs[Current.path].kind \in {"File", "Link"}
    /\ fs' = Without({Current.path}) /\ UNCHANGED trash
    /\ Settle

CreateDirectory ==
    /\ Acting /\ intent.kind = "CreateDirectory"
    /\ Available(Current.target)
    /\ fs' = [fs EXCEPT ![Current.target] =
                  [kind |-> "Directory", len |-> 0, time |-> 1]]
    /\ UNCHANGED trash
    /\ Settle

(* The call of the step cannot do what it is asked to. *)
CallImpossible ==
    LET p == Current.path  t == Current.target IN
    CASE step = "unlink" -> fs[p].kind \notin {"File", "Link"}
      [] Permanent -> ~Removable(p)
      [] intent.kind = "Recycle" -> ~There(p)
      [] intent.kind = "CreateDirectory" -> ~Free(t)
      [] OTHER -> \/ ~Free(t)
                  \/ IF platform = "Windows" THEN ~There(p) \/ Within(t, p)
                     ELSE ~Is(p, "File")

\* mutant
DeletesInstead ==
    /\ phase = "executing" /\ step \in {"act", "unlink"}
    /\ IF CallImpossible THEN UNCHANGED mishaps ELSE Mishap
    /\ IF intent.kind = "Recycle"
       THEN fs' = Without(Under(Current.path)) /\ UNCHANGED <<trash, edits>>
            /\ taken' = taken \cup {Current.path} /\ at' = at + 1
            /\ step' = "check"
            /\ UNCHANGED <<platform, intent, phase, cancel, planning, pass,
                           failed, outcome, meddled, late>>
       ELSE Fail /\ UNCHANGED <<edits, meddled, late>>

(* It fails, for that reason or another: the job stops there. *)
CallFails ==
    /\ phase = "executing" /\ step \in {"act", "unlink"}
    /\ IF CallImpossible THEN UNCHANGED mishaps ELSE Mishap
    /\ Fail /\ UNCHANGED <<edits, meddled, late>>

ManifestUnreadable ==
    /\ Checking /\ Permanent /\ Mishap
    /\ Fail /\ UNCHANGED <<edits, meddled, late>>

(* The flag is read once more for the report. *)
Report ==
    /\ phase = "ended" /\ phase' = "done"
    /\ outcome' = IF ~failed /\ ~cancel THEN "Completed"
                  ELSE IF taken # {} THEN "Partial"
                  ELSE IF cancel THEN "Cancelled" ELSE "Failed"
    /\ UNCHANGED <<platform, intent, fs, trash, cancel, planning, executing,
                   others>>

Plan == Begin \/ Inspect \/ Descend \/ Leave \/ PlanReady
Execute ==
    \/ Stop \/ EndPass \/ PassOver \/ Revalidate
    \/ RemoveEntry \/ Recycle \/ RenameInOneCall \/ Link \/ Unlink \/ CreateDirectory
    \/ CallFails \/ Report
Work == Plan \/ PlanFails \/ Execute \/ ManifestUnreadable

Next == Work \/ Confirm \/ Abandon \/ RequestCancel \/ Meddle

Spec == Init /\ [][Next]_vars

(***************************************************************************)
(* Properties.                                                             *)
(***************************************************************************)
(* Every variable keeps its type; the manifest lists files and directories *)
(* only, and the executor stays inside it.                                 *)
TypeOK ==
    /\ platform \in Platforms /\ intent \in Intents
    /\ fs \in [Path -> Object] /\ trash \subseteq Object
    /\ phase \in {"asked", "planning", "review", "executing", "ended", "done"}
    /\ cancel \in BOOLEAN /\ clear \in BOOLEAN /\ failed \in BOOLEAN
    /\ left \subseteq Path /\ manifest \in Seq(Entry)
    /\ stack \in Seq(Frame)
    /\ pass \in {"File", "Directory"} /\ at \in 1 .. Len(manifest) + 1
    /\ step \in {"check", "act", "unlink"}
    /\ taken \subseteq Path /\ outcome \in Outcomes
    /\ edits \in 0 .. Edits /\ mishaps \in 0 .. Mishaps
    /\ meddled \subseteq Path /\ late \in Nat

Planned == {manifest[i].path : i \in DOMAIN manifest}
EntryFor(p) == CHOOSE i \in DOMAIN manifest : manifest[i].path = p
ByTheJob == edits' = edits /\ fs' # fs
Vanishes(p) == There(p) /\ fs'[p] = Absent

(* A permanent deletion removes no entry that the reviewed scope does not  *)
(* list, and no file that differs from the one reviewed, unless another    *)
(* program changed it after the revalidation of that very file.  What has  *)
(* appeared in the tree since survives, with the directories around it.    *)
RemovesOnlyTheReviewed ==
    [][ByTheJob /\ Permanent =>
        \A p \in Path : Vanishes(p) =>
            /\ p \in Planned
            /\ LET fp == manifest[EntryFor(p)].fp IN
               \/ p \in meddled
               \/ fp.kind = "Directory" /\ Is(p, "Directory")
               \/ Is(p, "File") /\ fp.len = fs[p].len
                  /\ fp.time \in {fs[p].time, Unknown}]_vars

(* No other job destroys anything: what leaves its place is in the trash   *)
(* or under its new name.  The exception is a file renamed in two calls    *)
(* while another program replaces one of its two names.                    *)
NothingIsLost ==
    [][ByTheJob /\ ~Permanent =>
        \A p \in Path : Vanishes(p) =>
            \/ fs[p] \in trash'
            \/ \E q \in Path : fs'[q] = fs[p]
            \/ platform = "Unix" /\ {p, Current.target} \cap meddled # {}]_vars

(* No job changes or replaces an object that stays: renames, moves and     *)
(* creations never overwrite, whatever has taken the target since review.  *)
NothingIsReplaced ==
    [][ByTheJob => \A p \in Path : There(p) => fs'[p] \in {fs[p], Absent}]_vars

(* After the user has cancelled, at most the item in hand is completed. *)
CancelStopsSoon == late <= 1

(* A job reported as completed has made the planned change of every entry  *)
(* its review showed.                                                      *)
CompletedMeansAll ==
    outcome = "Completed" =>
        taken = Planned /\ Cardinality(taken) = Len(manifest)

(* A dangling link, which try_exists takes for a free name, is no target.  *)
LinkAtTarget ==
    ~Deletes /\ \E i \in DOMAIN manifest : Tree[manifest[i].target].kind = "Link"

(* A job nobody interferes with does all that was approved: the order of   *)
(* the manifest and its two passes never meet a directory that still has   *)
(* entries.  (Off Windows the rename of a directory is refused, and so is  *)
(* any target that is a link.)                                             *)
UndisturbedJobsComplete ==
    phase = "done" /\ edits = 0 /\ mishaps = 0 /\ ~cancel =>
        \/ outcome \in {"Refused", "Streamed", "Abandoned"}
        \/ /\ outcome = "Completed"
           /\ intent.kind # "CreateDirectory" =>
                  \A s \in intent.sources : Under(s) = {}
        \/ platform = "Unix" /\ intent.kind = "Rename" /\ outcome = "Failed"
        \/ outcome \in {"Partial", "Failed"} /\ LinkAtTarget

(* The scope a permanent deletion shows for review lists each entry once,  *)
(* after everything below it, and is the whole tree when it was quiet.     *)
ScopeIsTheTree ==
    phase = "review" /\ Permanent =>
        /\ \A i, j \in DOMAIN manifest :
               i < j => ~Within(manifest[j].path, manifest[i].path)
        /\ edits = 0 => Planned = UNION {Under(s) : s \in intent.sources}
=============================================================================
