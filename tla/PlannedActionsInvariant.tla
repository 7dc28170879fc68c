---------------------- MODULE PlannedActionsInvariant ----------------------
(***************************************************************************)
(* The inductive invariant of a planned job, from which its state and      *)
(* action properties follow: the disk stays a tree, the scope of a         *)
(* permanent deletion is frozen in post-order and misses nothing, and what *)
(* is done to the disk was looked at just before.                          *)
(***************************************************************************)
EXTENDS PlannedActions

Apart(p, q) == ~Within(p, q) /\ ~Within(q, p)
Open == {stack[i].dir : i \in DOMAIN stack}
Due == left \cup UNION {stack[i].due : i \in DOMAIN stack}

(* Every entry stands in a directory, whoever created or moved it. *)
DiskIsATree == IsTree(fs)

(* Nothing is written to the manifest before what is below it.  What is due *)
(* overlaps neither with what is written nor with anything else that is     *)
(* due, and what is open encloses what is due in it.                        *)
FrozenInPostOrder ==
    /\ \A i, j \in DOMAIN manifest :
           i < j => ~Within(manifest[j].path, manifest[i].path)
    /\ \A i \in DOMAIN manifest :
           /\ \A x \in Due : Apart(x, manifest[i].path)
           /\ \A d \in Open : ~Within(d, manifest[i].path)
    /\ \A x, y \in Due : x # y => Apart(x, y)
    /\ \A x \in Due, d \in Open : ~Within(d, x)
    /\ \A x \in left, d \in Open : ~Within(x, d)
    /\ \A i, j \in DOMAIN stack :
           i < j => stack[j].dir # stack[i].dir
                    /\ Within(stack[j].dir, stack[i].dir)
    /\ \A i \in DOMAIN stack : \A x \in stack[i].due :
           x # <<>> /\ Parent(x) = stack[i].dir

OneName == intent.kind \in {"Rename", "CreateDirectory"}

(* Where the job is: what is due lies before the review, what is taken      *)
(* after it, only the planning of a deletion opens directories, and every   *)
(* entry of the other plans is a source with its target.                    *)
StagesAgree ==
    /\ left \subseteq intent.sources
    /\ phase = "planning" /\ OneName => ValidName
    /\ Renames => \A i \in DOMAIN manifest :
           /\ manifest[i].path \in intent.sources \ {<<>>}
           /\ manifest[i].target = TargetOf(intent, manifest[i].path)
    /\ phase = "asked" => left = {} /\ manifest = <<>>
    /\ phase \in {"asked", "review", "executing", "ended"} => stack = <<>>
    /\ phase \in {"review", "executing", "ended"} => left = {}
    /\ phase \in {"asked", "planning", "review"} =>
           /\ taken = {} /\ at = 1 /\ pass = "File" /\ step = "check"
           /\ ~failed /\ late = 0
    /\ phase # "done" => outcome = "None"
    /\ stack # <<>> => Permanent
    /\ IF OneName THEN Len(manifest) <= 1 /\ (manifest # <<>> => left = {})
       ELSE FrozenInPostOrder

(* While nobody interferes, the planned scope is what is there below the    *)
(* sources: written, open, or below something due.                          *)
ScopeIsCovered ==
    edits = 0 /\ Permanent /\ phase \in {"planning", "review"} =>
        /\ \A x \in Planned \cup Open :
               There(x) /\ \E s \in intent.sources : Within(x, s)
        /\ \A i \in DOMAIN stack : \A x \in stack[i].due : There(x)
        /\ \A s \in intent.sources : \A p \in Under(s) :
               p \in Planned \cup Open \/ \E x \in Due : Within(p, x)

(* The entries whose change lies behind the executor. *)
Handled(i) ==
    \/ i < at /\ OfThisPass(manifest[i])
    \/ Permanent /\ pass = "Directory" /\ manifest[i].fp.kind = "File"

ProgressIsKept ==
    /\ phase = "executing" =>
           /\ ~failed
           /\ taken = {manifest[i].path : i \in {k \in DOMAIN manifest : Handled(k)}}
           /\ step # "check" => at <= Len(manifest) /\ OfThisPass(Current)
    /\ phase = "ended" /\ ~failed /\ ~cancel => taken = Planned
    /\ late > 0 => cancel /\ (phase = "executing" => step = "check")
    /\ ~Permanent => pass = "File"

(* What is removed next is as it was when it was looked at, unless another  *)
(* program has changed it since; a file that has two names has the same     *)
(* contents under both.                                                     *)
ActsOnWhatWasSeen ==
    /\ phase = "executing" /\ step = "act" /\ Permanent =>
           Current.path \in meddled \/ StillReviewed(Current)
    /\ phase = "executing" /\ step = "unlink" =>
           /\ Renames /\ platform = "Unix" /\ Current.path # Current.target
           /\ {Current.path, Current.target} \cap meddled = {} =>
                  Is(Current.path, "File")
                  /\ fs[Current.target] = fs[Current.path]

(* The state of a job, whoever interferes: its types, what its review and   *)
(* its report say, and the reasons why.                                     *)
JobIsSafe ==
    /\ TypeOK
    /\ DiskIsATree
    /\ StagesAgree
    /\ ScopeIsCovered
    /\ ProgressIsKept
    /\ ActsOnWhatWasSeen
    /\ CancelStopsSoon
    /\ CompletedMeansAll
    /\ ScopeIsTheTree

(***************************************************************************)
(* The rest is about a job that no other program interferes with.          *)
(***************************************************************************)
Quiet == edits = 0
InTree(p) == Tree[p].kind # "Absent"

AsFound(p, fp) ==
    /\ fp.kind = Tree[p].kind /\ fp.len = Tree[p].len
    /\ fp.time \in {Unknown, Tree[p].time}

(* Until it is approved a job changes nothing; what it plans is what it has *)
(* found, and all that it was asked for.                                    *)
PlanIsTrue ==
    /\ phase \notin {"asked", "done"} /\ (Deletes \/ IsMove) =>
           ValidSources(intent.sources)
    /\ phase \in {"review", "executing", "ended"} => Atomic
    /\ phase \notin {"asked", "done"} /\ ~Permanent =>
           left \cup Planned = intent.sources
    /\ Quiet =>
           /\ meddled = {}
           /\ phase \in {"asked", "planning", "review"} => fs = Tree
           /\ phase \notin {"asked", "done"} /\ IsMove =>
                  Tree[intent.to].kind = "Directory"
           /\ \A i \in DOMAIN stack : AsFound(stack[i].dir, stack[i].fp)
           /\ \A i \in DOMAIN manifest : AsFound(manifest[i].path, manifest[i].fp)

(* Every new name is in a directory, free or a link, apart from the others, *)
(* and not within anything that is renamed.                                 *)
TargetsFit ==
    Quiet /\ ~Deletes =>
        \A i \in DOMAIN manifest :
            LET t == manifest[i].target IN
            /\ t # <<>> /\ Tree[Parent(t)].kind = "Directory"
            /\ (IsMove => clear) => Tree[t].kind \in {"Absent", "Link"}
            /\ Renames => \A j \in DOMAIN manifest :
                   /\ ~Within(t, manifest[j].path)
                   /\ i # j => Apart(t, manifest[j].target)

InPlace(e) ==
    /\ fs[e.path] = Tree[e.path] /\ fs[e.target] = Tree[e.target]
    /\ Is(Parent(e.target), "Directory")

(* What has been done is done, and the rest is still as it was planned: what *)
(* has been deleted is gone with all below it and nothing else is, and each  *)
(* entry is renamed as a whole or not at all.                                *)
WorkIsAsPlanned ==
    Quiet /\ phase \in {"executing", "ended"} /\ ~failed =>
        /\ Deletes => \A p \in Path :
               IF \E q \in taken : Within(p, q) THEN ~There(p) ELSE fs[p] = Tree[p]
        /\ Permanent => \A p \in Path :
               p \in Planned <=> InTree(p) /\ \E s \in intent.sources : Within(p, s)
        /\ ~Deletes /\ ~(phase = "executing" /\ step = "unlink") =>
               \A i \in DOMAIN manifest :
                   IF manifest[i].path \in taken
                   THEN Renames => Under(manifest[i].path) = {}
                   ELSE InPlace(manifest[i])

(* Only a link at a target, and off Windows a directory to be renamed, make *)
(* a call fail when the system itself does not.                             *)
OnlyHindered ==
    Quiet /\ mishaps = 0 /\ failed =>
        \/ LinkAtTarget
        \/ platform = "Unix" /\ intent.kind = "Rename" /\ taken = {}

JobInvariant ==
    /\ JobIsSafe
    /\ PlanIsTrue
    /\ TargetsFit
    /\ WorkIsAsPlanned
    /\ OnlyHindered
=============================================================================
