----------------------------- MODULE PaneState -----------------------------
(***************************************************************************)
(* The rows of a pane (PaneState of domain/lib.rs) as operators from one   *)
(* state of a pane to the next: loading, sorting, filtering, the cursor    *)
(* and the selection.  A pane keeps three derived things in step with its  *)
(* entries: their normalized names, and the indices of the rows the filter *)
(* and the hidden switch let through.  Screen calls them.                  *)
(*                                                                         *)
(* A name is the name of its path; what sorting and filtering need to know *)
(* of it are CONSTANTS.  The cursor counts from 0, as in the code.         *)
(***************************************************************************)
EXTENDS Integers, Sequences, FiniteSetsExt, SequencesExt

CONSTANTS
    Path,
    Directory,          \* the directories a pane can show, all of them paths
    Drives,             \* the place of the list of drives: an empty path
    Dotted,             \* the paths whose name begins with a dot
    Filter, NoFilter,
    Hit,                \* Hit[filter]: the paths whose name contains it
    SortFields,         \* the order in which cycle_sort goes through them
    Key,                \* Key[field][path]: the value that is compared
    Rank,               \* Rank[path]: the order of names and paths
    Nothing

Place == Directory \cup {Drives}
Kinds == <<"Parent", "Home", "Favorite", "Drive", "Directory", "File",
           "Symlink", "Other">>
Group(kind) == CHOOSE i \in DOMAIN Kinds : Kinds[i] = kind   \* entry_sort_group
Entry == [path : Path \cup {Drives}, kind : ToSet(Kinds)]
FieldNames == ToSet(SortFields)

ASSUME PaneStateAssumption ==
    /\ Directory \subseteq Path /\ Dotted \subseteq Path
    /\ Drives \notin Path /\ Nothing \notin Path \cup {Drives}
    /\ NoFilter \in Filter /\ Hit \in [Filter -> SUBSET Path]
    /\ Hit[NoFilter] = Path
    /\ Key \in [FieldNames -> [Path \cup {Drives} -> Nat]]
    /\ Rank \in [Path \cup {Drives} -> Nat] /\ IsInjective(Rank)
    /\ SortFields \in Seq(FieldNames) \ {<<>>}

IsVirtual(entry) == entry.kind \in {"Parent", "Home", "Favorite", "Drive"}
IsDirectory(entry) == IsVirtual(entry) \/ entry.kind = "Directory"

PaneNew(place) ==
    [place |-> place, entries |-> <<>>, names |-> <<>>, visible |-> <<>>,
     cursor |-> 0, selected |-> {}, filter |-> NoFilter, hidden |-> FALSE,
     sort |-> 1, load |-> "Loading", restore |-> Nothing]

ClearEntries(p) ==
    [p EXCEPT !.entries = <<>>, !.names = <<>>, !.visible = <<>>]

-----------------------------------------------------------------------------
(* A finite set in a strict total order of it, a set of pairs: the k-th element
   is the one with k - 1 others before it. *)
Ordered(S, order) ==
    [k \in 1 .. Cardinality(S) |->
        CHOOSE x \in S : Cardinality({y \in S : <<y, x>> \in order}) = k - 1]
Ascending(S) == Ordered(S, {pair \in S \X S : pair[1] < pair[2]})
(* The elements of a sequence at some of its indices. *)
Keeping(seq, indices) ==
    LET kept == Ascending(indices) IN [k \in DOMAIN kept |-> seq[kept[k]]]

-----------------------------------------------------------------------------
(* Rows and the cursor on them. *)

IsShownRow(p, i) ==
    \/ p.entries[i].kind = "Parent"
    \/ (p.hidden \/ p.entries[i].path \notin Dotted) /\ p.names[i] \in Hit[p.filter]

RowsOf(p) == Ascending({i \in DOMAIN p.entries : IsShownRow(p, i)})
RebuildVisible(p) == [p EXCEPT !.visible = RowsOf(p)]

LastRow(p) == Max({0, Len(p.visible) - 1})
ClampCursor(p) == [p EXCEPT !.cursor = Min({@, LastRow(p)})]
MoveCursor(p, delta) == ClampCursor([p EXCEPT !.cursor = Max({0, @ + delta})])

HasFocus(p) == p.cursor < Len(p.visible)
Focused(p) == p.entries[p.visible[p.cursor + 1]]
FocusedPath(p) == IF HasFocus(p) THEN Focused(p).path ELSE Nothing

RowsAt(p, path) ==
    {row \in DOMAIN p.visible : p.entries[p.visible[row]].path = path}
OnRowOf(p, path, otherwise) ==
    [p EXCEPT !.cursor = IF RowsAt(p, path) = {} THEN otherwise
                         ELSE Min(RowsAt(p, path)) - 1]

SetFilter(p, filter) == ClampCursor(RebuildVisible([p EXCEPT !.filter = filter]))
ToggleHidden(p) == ClampCursor(RebuildVisible([p EXCEPT !.hidden = ~@]))

ToggleFocusedSelection(p) ==
    IF ~HasFocus(p) \/ IsVirtual(Focused(p)) THEN p
    ELSE [p EXCEPT !.selected = SymDiff(@, {Focused(p).path})]

-----------------------------------------------------------------------------
(* Sorting: groups of kinds first, then the field, then names and paths. *)

Before(field, a, b) ==
    LET ga == Group(a.entry.kind)  gb == Group(b.entry.kind)
        ka == Key[field][IF field = "Name" THEN a.name ELSE a.entry.path]
        kb == Key[field][IF field = "Name" THEN b.name ELSE b.entry.path]
    IN  \/ ga < gb
        \/ ga = gb /\ ka < kb
        \/ ga = gb /\ ka = kb /\ Rank[a.entry.path] < Rank[b.entry.path]

KeyedRow(p, i) == [entry |-> p.entries[i], name |-> p.names[i]]
RowBefore(p, i, j) == Before(SortFields[p.sort], KeyedRow(p, i), KeyedRow(p, j))
(* The sort is stable: rows that compare equal stay in order. *)
SortOrder(p) ==
    {pair \in (DOMAIN p.entries) \X (DOMAIN p.entries) :
        \/ RowBefore(p, pair[1], pair[2])
        \/ ~RowBefore(p, pair[2], pair[1]) /\ pair[1] < pair[2]}

SortEntries(p) ==
    LET sorted == Ordered(DOMAIN p.entries, SortOrder(p)) IN
    RebuildVisible([p EXCEPT !.entries = [k \in DOMAIN sorted |-> @[sorted[k]]],
                             !.names = [k \in DOMAIN sorted |-> @[sorted[k]]]])

NextSort(p) == (p.sort % Len(SortFields)) + 1
(* The cursor follows its entry, if a row shows it. *)
CycleSort(p) ==
    LET sorted == SortEntries([p EXCEPT !.sort = NextSort(p)]) IN
    IF HasFocus(p) THEN OnRowOf(sorted, FocusedPath(p), p.cursor) ELSE sorted

-----------------------------------------------------------------------------
(* Loading. *)

BeginKeepingSelection(p, place, restore) ==                        \* mutant
    [ClearEntries(p) EXCEPT !.place = place, !.cursor = 0,
                            !.load = "Loading", !.restore = restore]
(* begin_load_restoring_focus, begin_drive_list_restoring_focus *)
BeginLoad(p, place, restore) ==
    [ClearEntries(p) EXCEPT !.place = place, !.cursor = 0, !.selected = {},
                            !.load = "Loading", !.restore = restore]
RetryLoad(p) == BeginLoad(p, p.place, p.restore)

RestoreIfShown(p, target) == OnRowOf(p, target, 0)                 \* mutant
(* A filter that hides the awaited entry is dropped. *)
RestoreFocus(p, target) ==
    LET listed == \E i \in DOMAIN p.entries : p.entries[i].path = target
        open == IF RowsAt(p, target) = {} /\ listed /\ p.filter # NoFilter
                THEN RebuildVisible([p EXCEPT !.filter = NoFilter]) ELSE p
    IN  OnRowOf(open, target, 0)

ApplyEntries(p, entries) ==
    LET sorted == SortEntries([p EXCEPT !.entries = entries,
                      !.names = [i \in DOMAIN entries |-> entries[i].path]])
        placed == IF p.restore = Nothing THEN ClampCursor(sorted)
                  ELSE RestoreFocus(sorted, p.restore)
    IN  [placed EXCEPT !.load = "Ready", !.restore = Nothing]

ApplyError(p) == [ClearEntries(p) EXCEPT !.cursor = 0, !.load = "Failed"]

-----------------------------------------------------------------------------
(* AppState::operation_sources and transfer_sources, for one pane. *)

SourcesOf(p) ==
    IF p.selected # {} THEN p.selected
    ELSE IF HasFocus(p) /\ ~IsVirtual(Focused(p)) THEN {FocusedPath(p)}
    ELSE {}
=============================================================================
