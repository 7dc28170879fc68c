------------------------------- MODULE Screen -------------------------------
(***************************************************************************)
(* What the keys do to the screen: two panes, the filter, the help, the    *)
(* favorites, the rename and create prompts, the preview, and the          *)
(* operations that are submitted from them (handle_key and what it calls   *)
(* in main.rs; AppState of domain/lib.rs; fs/favorites.rs).  The rows of a *)
(* pane are PaneState, an open preview is PreviewSession.                  *)
(*                                                                         *)
(* What the background threads answer is any answer to the last request:   *)
(* Panes and PreviewLoader show that no other one arrives.  The disk may   *)
(* change between two listings of a directory.  Of the engine's events this *)
(* module has what each does to the screen, whatever the screen shows; the *)
(* rest of an operation is OperationEngine's.                              *)
(***************************************************************************)
EXTENDS PaneState, PreviewSession

CONSTANTS
    Pane,
    Parent,         \* Parent[directory]: Drives above the root of a drive
    Listings,       \* Listings[place]: what a scan may find there
    Home,           \* the user's folder, or Nothing
    Files,          \* what the file of favorites may contain at the start
    MaxFavorites,   \* MAX_FAVORITES
    StartAt,        \* where the panes begin
    Keys            \* bound: keys of the session

(* What a scan of a place may find: one entry leads out of a directory, and the
   shortcuts are not among the entries that are found. *)
Lists(found) ==
    /\ found \subseteq Entry /\ IsFiniteSet(found)
    /\ \A entry \in found :
          /\ entry.kind \notin {"Home", "Favorite"}
          /\ entry.kind # "Parent" => entry.path \in Path
          /\ entry.kind \in {"Drive", "Directory"} => entry.path \in Directory

ASSUME ScreenAssumption ==
    /\ IsFiniteSet(Pane) /\ Cardinality(Pane) = 2
    /\ Parent \in [Directory -> Place]
    /\ DOMAIN Listings = Place
    /\ \A place \in Place : \A found \in Listings[place] : Lists(found)
    /\ Home \in Directory \cup {Nothing}
    /\ Files \subseteq Seq(Directory)
    /\ MaxFavorites \in Nat /\ Keys \in Nat
    /\ StartAt \in [Pane -> Place]

VARIABLES
    pane, active,
    filtering, help,    \* filter_mode, help_visible
    panel,              \* favorites_panel: its cursor, or Nothing
    prompt,             \* text_prompt
    operation,          \* its view, and what the engine has still to tell
    preview,
    favorites, saved,   \* the list in use and the one in the file
    intent,             \* the last operation that was submitted
    keys

panes == <<pane, active>>
overlays == <<filtering, help, panel, prompt, operation, preview>>
vars == <<panes, overlays, favorites, saved, intent, keys>>

Other(p) == CHOOSE q \in Pane : q # p
Closed == [state |-> "Closed", path |-> Nothing, direction |-> "none",
           session |-> Nothing]
NoPrompt == [action |-> "none", path |-> Nothing, blank |-> TRUE]

(* view: Idle, Working (planning, running or at a conflict), Review or Reported
   (finished or failed).  job: how far the last operation is, as the screen could
   know by now; older: the same of one before it whose report is not read yet,
   though it has ended.  crossed: an approved review was abandoned, and the report
   of its operation has not been dismissed. *)
AtEase == [view |-> "Idle", job |-> "None", older |-> "None", crossed |-> FALSE]

(* The first of equal folders is kept. *)
Deduplicate(paths) ==
    Keeping(paths, {i \in DOMAIN paths : \A j \in 1 .. i - 1 : paths[j] # paths[i]})
(* FavoritesStore::load: a file with too many folders is as good as none. *)
LoadFavorites(paths) ==
    IF Len(Deduplicate(paths)) > MaxFavorites THEN <<>> ELSE Deduplicate(paths)
(* The file is there, and reading it fails. *)
NotRead == <<>>

(* main and queue_initial_scans *)
Init ==
    /\ pane = [p \in Pane |-> PaneNew(StartAt[p])]
    /\ active \in Pane
    /\ filtering = FALSE /\ help = FALSE
    /\ panel = Nothing /\ prompt = NoPrompt
    /\ operation = AtEase
    /\ preview = Closed
    /\ saved \in Files /\ favorites \in {LoadFavorites(saved), NotRead}
    /\ intent = Nothing
    /\ keys = Keys

-----------------------------------------------------------------------------
(* The key goes to the first of these that is there. *)

Owners == <<"preview", "panel", "prompt", "operation", "help", "filter", "panes">>
Present == <<preview.state # "Closed", panel # Nothing, prompt # NoPrompt,
             operation.view # "Idle", help, filtering, TRUE>>
Owner == Owners[Min({i \in DOMAIN Present : Present[i]})]

(* run: the events of the engine are drained before the next key is read. *)
Press(owner) ==
    Owner = owner /\ operation.older = "None" /\ keys > 0 /\ keys' = keys - 1

Active == pane[active]
Becomes(p) == pane' = [pane EXCEPT ![active] = p]

(* A key that only changes the active pane. *)
PaneKey(p) ==
    /\ Press("panes")
    /\ Becomes(p)
    /\ UNCHANGED <<active, overlays, favorites, saved, intent>>

Move == \E delta \in {-1, 1} : PaneKey(MoveCursor(Active, delta))
ToEdge == \E row \in {0, LastRow(Active)} : PaneKey([Active EXCEPT !.cursor = row])
Select == PaneKey(ToggleFocusedSelection(Active))
Hide == PaneKey(ToggleHidden(Active))
Sort == PaneKey(CycleSort(Active))

SwitchPane ==
    /\ Press("panes")
    /\ active' = Other(active)
    /\ UNCHANGED <<pane, overlays, favorites, saved, intent>>

(* navigate_parent *)
Leave ==
    /\ Active.place # Drives
    /\ PaneKey(BeginLoad(Active, Parent[Active.place], Active.place))

FocusIs(kinds) == HasFocus(Active) /\ Focused(Active).kind \in kinds

(* open_focused_or_retry; Right is this key on a directory, Select on a file. *)
Enter ==
    \/ FocusIs({"Parent"}) /\ Leave
    \/ Active.load = "Failed" /\ PaneKey(RetryLoad(Active))
    \/ /\ FocusIs({"Home", "Favorite", "Drive", "Directory"})
       /\ PaneKey(BeginLoad(Active, FocusedPath(Active), Nothing))

PanelKey ==
    /\ Press("panel")
    /\ UNCHANGED <<active, filtering, help, prompt, operation, preview, intent>>
PromptKey ==
    /\ Press("prompt")
    /\ UNCHANGED <<panes, filtering, help, panel, preview, favorites, saved>>

ShowHelp ==
    /\ Press("panes") \/ Press("help")
    /\ help' = (Owner = "panes")
    /\ UNCHANGED <<panes, filtering, panel, prompt, operation, preview,
                   favorites, saved, intent>>

StartOrEndFilter ==
    /\ Press("panes") \/ Press("filter")
    /\ filtering' = (Owner = "panes")
    /\ UNCHANGED <<panes, help, panel, prompt, operation, preview, favorites,
                   saved, intent>>
EditFilter(filter) ==
    /\ Press("filter")
    /\ Becomes(SetFilter(Active, filter))
    /\ UNCHANGED <<active, overlays, favorites, saved, intent>>

-----------------------------------------------------------------------------
(* Favorites. *)

RefreshActiveOnly ==                                               \* mutant
    [p \in Pane |-> IF p = active /\ pane[p].place = Drives
                    THEN BeginLoad(pane[p], Drives, FocusedPath(pane[p]))
                    ELSE pane[p]]
(* refresh_drive_shortcut_panes *)
ShortcutPanesRefreshed ==
    [p \in Pane |-> IF pane[p].place = Drives
                    THEN BeginLoad(pane[p], Drives, FocusedPath(pane[p]))
                    ELSE pane[p]]

(* The list in use is replaced once the file is: if that fails, by neither. *)
Save(updated, cursor) ==
    \/ /\ saved' = Deduplicate(updated)
       /\ favorites' = updated
       /\ pane' = ShortcutPanesRefreshed
       /\ panel' = cursor
    \/ UNCHANGED <<saved, favorites, pane, panel>>

ToggleFavorite ==
    /\ FocusIs({"Directory", "Home", "Favorite"})
    /\ LET path == FocusedPath(Active)  index == SelectInSeq(favorites, LAMBDA f : f = path)
       IN  \/ index > 0 /\ Save(RemoveAt(favorites, index), Nothing)
           \/ /\ index = 0 /\ Len(favorites) < MaxFavorites
              /\ Save(Append(favorites, path), Nothing)
    /\ Press("panes")
    /\ UNCHANGED <<active, filtering, help, prompt, operation, preview, intent>>

OpenPanel ==
    /\ Press("panes")
    /\ panel' = 0
    /\ UNCHANGED <<panes, filtering, help, prompt, operation, preview,
                   favorites, saved, intent>>

(* The cursor of the panel is brought into the list by every key that uses it. *)
LastFavorite(list) == Max({0, Len(list) - 1})
PanelRow == Min({panel, LastFavorite(favorites)})

MoveInPanel ==
    /\ PanelKey
    /\ panel' \in {Max({0, PanelRow - 1}), Min({PanelRow + 1, LastFavorite(favorites)}),
                   0, LastFavorite(favorites)}
    /\ UNCHANGED <<pane, favorites, saved>>
ClosePanel ==
    /\ PanelKey
    /\ panel' = Nothing
    /\ UNCHANGED <<pane, favorites, saved>>
GoToFavorite ==
    /\ favorites # <<>>
    /\ PanelKey
    /\ panel' = Nothing
    /\ Becomes(BeginLoad(Active, favorites[PanelRow + 1], Nothing))
    /\ UNCHANGED <<favorites, saved>>
RemoveFavorite ==
    /\ favorites # <<>>
    /\ PanelKey
    /\ LET updated == RemoveAt(favorites, PanelRow + 1) IN
       Save(updated, Min({PanelRow, LastFavorite(updated)}))

-----------------------------------------------------------------------------
(* Submitting an operation.  A submission the engine refuses changes nothing: it
   takes one when no other is under way, or when that one has ended and the screen
   has not been told. *)

Submits(kind, sources, from, destination) ==
    /\ operation.job # "Held"
    /\ operation' = [operation EXCEPT !.view = "Working", !.job = "Planning",
                                      !.older = operation.job]
    /\ intent' = [kind |-> kind, sources |-> sources, from |-> from,
                  destination |-> destination]

(* transfer_source_pane: the pane with a selection, the active one first. *)
TransferFrom ==
    IF Active.selected = {} /\ pane[Other(active)].selected # {}
    THEN {Other(active)} ELSE {active}

AnyDestination(p) == TRUE                                          \* mutant
IsDestination(p) == p.place # Drives /\ p.load = "Ready"

SubmitTransfer ==
    /\ Press("panes")
    /\ \E from \in TransferFrom :
          LET sources == SourcesOf(pane[from])  to == pane[Other(from)] IN
          /\ sources # {} /\ IsDestination(to)
          /\ Submits("Transfer", sources, from, to.place)
    /\ UNCHANGED <<panes, filtering, help, panel, prompt, preview, favorites,
                   saved>>

SubmitDelete ==
    /\ SourcesOf(Active) # {}
    /\ Press("panes")
    /\ Submits("Delete", SourcesOf(Active), active, Nothing)
    /\ UNCHANGED <<panes, filtering, help, panel, prompt, preview, favorites,
                   saved>>

(* begin_rename and begin_create_directory *)
BeginPrompt ==
    /\ Press("panes")
    /\ \/ /\ HasFocus(Active) /\ ~IsVirtual(Focused(Active))
          /\ prompt' = [action |-> "Rename", path |-> FocusedPath(Active), blank |-> FALSE]
       \/ /\ IsDestination(Active)
          /\ prompt' = [action |-> "Create", path |-> Active.place, blank |-> TRUE]
    /\ UNCHANGED <<panes, filtering, help, panel, operation, preview,
                   favorites, saved, intent>>

EditName ==
    /\ PromptKey
    /\ prompt' = [prompt EXCEPT !.blank = ~@]
    /\ UNCHANGED <<operation, intent>>
CancelPrompt ==
    /\ PromptKey
    /\ prompt' = NoPrompt
    /\ UNCHANGED <<operation, intent>>
PromptCloses == prompt' = NoPrompt
SubmitPrompt ==
    /\ ~prompt.blank
    /\ PromptKey
    /\ PromptCloses
    /\ Submits(prompt.action, {prompt.path}, active, prompt.path)

(* handle_operation_key.  An approval leaves the review on the screen, and can be
   followed by an abandonment, which the engine no longer heeds. *)
ReviewKey ==
    /\ operation.view = "Review"
    /\ Press("operation")
    /\ UNCHANGED <<panes, filtering, help, panel, prompt, preview, favorites,
                   saved, intent>>
Approve ==
    /\ operation.job = "Held"
    /\ operation' = [operation EXCEPT !.job = "Executing"]
    /\ ReviewKey
Abandon ==
    /\ operation' = [operation EXCEPT !.view = "Idle",
                        !.job = IF @ = "Held" THEN "None" ELSE @,
                        !.crossed = operation.job = "Executing"]
    /\ ReviewKey
Dismiss ==
    /\ operation.view = "Reported"
    /\ Press("operation")
    /\ operation' = [operation EXCEPT !.view = "Idle",
                                      !.crossed = @ /\ operation.job # "None"]
    /\ UNCHANGED <<panes, filtering, help, panel, prompt, preview, favorites,
                   saved, intent>>

(* drain_operation_events: each event changes the view, whatever it is and
   whatever else is on the screen. *)
Told ==
    UNCHANGED <<active, filtering, help, panel, prompt, preview, favorites, saved,
                intent, keys>>
(* Planning, Progress and Conflict *)
ProgressArrives ==
    /\ operation.older = "None" /\ operation.job \in {"Planning", "Executing"}
    /\ operation' = [operation EXCEPT !.view = "Working"]
    /\ UNCHANGED pane /\ Told
(* PlanReady *)
ReviewArrives ==
    /\ operation.older = "None" /\ operation.job = "Planning"
    /\ operation' = [operation EXCEPT !.view = "Review", !.job = "Held"]
    /\ UNCHANGED pane /\ Told
(* Failed, or Finished: the panes that show what has changed are read again. *)
ReportArrives(affected) ==
    /\ LET ended == IF operation.older = "None" THEN operation.job ELSE operation.older
       IN ended = "Executing" \/ (ended = "Planning" /\ affected = {})
    /\ operation' = [operation EXCEPT !.view = "Reported", !.older = "None",
                        !.job = IF operation.older = "None" THEN "None" ELSE @]
    /\ pane' = [p \in Pane |->
          IF pane[p].place \in affected
          THEN BeginLoad(pane[p], pane[p].place, FocusedPath(pane[p])) ELSE pane[p]]
    /\ Told

-----------------------------------------------------------------------------
(* drain_scan_events: what a scan of the pane's place finds, with the shortcuts
   of this moment in the list of drives, or an error. *)

Shortcut(path, kind) == [path |-> path, kind |-> kind]
QuickAccess(drives) ==
    drives \o (IF Home = Nothing THEN <<>> ELSE <<Shortcut(Home, "Home")>>)
           \o LET shown == Keeping(favorites, {i \in DOMAIN favorites : favorites[i] # Home})
              IN  [i \in DOMAIN shown |-> Shortcut(shown[i], "Favorite")]

Listed(p, found) ==
    IF pane[p].place = Drives THEN QuickAccess(SetToSeq(found)) ELSE SetToSeq(found)

Drain(p) ==
    /\ pane[p].load = "Loading"
    /\ \/ \E found \in Listings[pane[p].place] :
             pane' = [pane EXCEPT ![p] = ApplyEntries(@, Listed(p, found))]
       \/ pane' = [pane EXCEPT ![p] = ApplyError(@)]
    /\ UNCHANGED <<active, overlays, favorites, saved, intent, keys>>

-----------------------------------------------------------------------------
(* The preview. *)

PreviewOnly ==
    UNCHANGED <<panes, filtering, help, panel, prompt, operation, favorites,
                saved, intent>>
Asks(path) == preview' = [Closed EXCEPT !.state = "Loading", !.path = path]

(* Enter, and P, on anything that is not a directory. *)
OpenPreview ==
    /\ HasFocus(Active) /\ ~IsDirectory(Focused(Active))
    /\ Press("panes")
    /\ Asks(FocusedPath(Active))
    /\ PreviewOnly

Session == preview.session
ReadyKey == Press("preview") /\ preview.state = "Ready" /\ PreviewOnly
SessionKey(session) == ReadyKey /\ preview' = [preview EXCEPT !.session = session]

ClosePreview ==
    /\ (preview.state = "Ready") => Reads(Session)
    /\ Press("preview")
    /\ preview' = Closed
    /\ PreviewOnly

ReloadPreview ==
    /\ \/ preview.state = "Failed"
       \/ preview.state = "Ready" /\ Reads(Session)
    /\ Press("preview")
    /\ Asks(preview.path)
    /\ PreviewOnly

PreviewHelp == ~Session.search.editing /\ SessionKey([Session EXCEPT !.help = ~@])

(* begin_preview_window, or the key scrolls. *)
PageOrScroll(key) ==
    /\ Reads(Session)
    /\ \/ /\ Direction(Session, key) # "none"
          /\ ReadyKey
          /\ preview' = [preview EXCEPT !.state = "LoadingWindow",
                                        !.direction = Direction(Session, key)]
       \/ /\ Direction(Session, key) = "none" /\ key \in ScrollKeys
          /\ SessionKey(ScrollBy(Session, key))

Represent ==
    /\ Reads(Session)
    /\ \/ \E mode \in {"Raw", "Split", "Formatted"} : SessionKey(SetMode(Session, mode))
       \/ SessionKey(CycleMode(Session))
       \/ Session.mode = "Split" /\ SessionKey(OtherRegion(Session))

NextMatch == Reads(Session) /\ \E delta \in {-1, 1} : SessionKey(MoveMatch(Session, delta))
StartSearch == Reads(Session) /\ SessionKey(EditSearch(Session))
(* handle_preview_search_key.  Enter only closes the search: a result is current
   as soon as there is one. *)
Search ==
    /\ ~Session.help /\ Session.search.editing
    /\ \/ SessionKey(EndSearch(Session))
       \/ \E query \in Query : SessionKey(EditQuery(Session, query))
       \/ \E option \in Options : SessionKey(ToggleOption(Session, option))

(* drain_preview_events.  A window that does not decode is not shown. *)
Opens(path) == SessionNew(Document(path, InitialTarget(File[path])))
Adjacent ==
    Document(preview.path, TargetOf(Session.document, preview.direction))
PreviewArrives ==
    /\ \/ /\ preview.state = "Loading" /\ preview.path \in DOMAIN File
          /\ Decodes(Document(preview.path, InitialTarget(File[preview.path])))
          /\ preview' = [preview EXCEPT !.state = "Ready",
                                        !.session = Opens(preview.path)]
       \/ /\ preview.state = "LoadingWindow" /\ Decodes(Adjacent)
          /\ preview' = [preview EXCEPT !.state = "Ready", !.direction = "none",
                           !.session = NewWindow(@, Adjacent, preview.direction)]
    /\ PreviewOnly /\ UNCHANGED keys
PreviewFails ==
    /\ \/ preview.state = "Loading" /\ preview' = [preview EXCEPT !.state = "Failed"]
       \/ /\ preview.state = "LoadingWindow"
          /\ preview' = [preview EXCEPT !.state = "Ready", !.direction = "none"]
    /\ PreviewOnly /\ UNCHANGED keys

-----------------------------------------------------------------------------
BrowseKey ==
    \/ Move \/ ToEdge \/ Select \/ Hide \/ Sort \/ SwitchPane \/ Leave \/ Enter
    \/ ShowHelp \/ StartOrEndFilter
    \/ \E filter \in Filter : EditFilter(filter)
FavoritesKey ==
    ToggleFavorite \/ OpenPanel \/ MoveInPanel \/ ClosePanel \/ GoToFavorite
    \/ RemoveFavorite
OperationKey ==
    SubmitTransfer \/ SubmitDelete \/ BeginPrompt \/ EditName \/ CancelPrompt
    \/ SubmitPrompt \/ Approve \/ Abandon \/ Dismiss
PreviewKey ==
    \/ OpenPreview \/ ClosePreview \/ ReloadPreview
    \/ /\ preview.state = "Ready"
       /\ \/ PreviewHelp \/ Represent \/ NextMatch \/ StartSearch \/ Search
          \/ \E key \in ScrollKeys \cup {"[", "]"} : PageOrScroll(key)
Events ==
    \/ \E p \in Pane : Drain(p)
    \/ ProgressArrives \/ ReviewArrives
    \/ \E affected \in SUBSET {pane[p].place : p \in Pane} :
          ReportArrives(affected \ {Drives})
    \/ PreviewArrives \/ PreviewFails

(* The user need not press another key. *)
Rest == keys = 0 /\ UNCHANGED vars

Next == BrowseKey \/ FavoritesKey \/ OperationKey \/ PreviewKey \/ Events \/ Rest

Spec == Init /\ [][Next]_vars

-----------------------------------------------------------------------------
(* Properties. *)

(* Every variable keeps its type. *)
TypeOK ==
    /\ \A p \in Pane :
          /\ pane[p].entries \in Seq(Entry) /\ pane[p].selected \subseteq Path
          /\ pane[p].load \in {"Loading", "Ready", "Failed"}
          /\ pane[p].place \in Place /\ pane[p].filter \in Filter
          /\ pane[p].cursor \in 0 .. LastRow(pane[p])
    /\ active \in Pane
    /\ panel \in 0 .. MaxFavorites \cup {Nothing}
    /\ prompt.action \in {"none", "Rename", "Create"}
    /\ operation.view \in {"Idle", "Working", "Review", "Reported"}
    /\ operation.job \in {"None", "Planning", "Held", "Executing"}
    /\ preview.state \in {"Closed", "Loading", "Ready", "LoadingWindow", "Failed"}
    /\ favorites \in Seq(Path) /\ Len(favorites) <= MaxFavorites

(* What a pane keeps besides its entries agrees with them after every key and
   every answer: each name is its entry's, the entries are in order, and the
   visible rows are those the filter and the hidden switch let through. *)
RowsAgree ==
    \A p \in Pane :
       LET rows == pane[p] IN
       /\ rows.names = [i \in DOMAIN rows.entries |-> rows.entries[i].path]
       /\ rows.visible = RowsOf(rows)
       /\ \A i, j \in DOMAIN rows.entries : i < j =>
             ~Before(SortFields[rows.sort],
                     [entry |-> rows.entries[j], name |-> rows.names[j]],
                     [entry |-> rows.entries[i], name |-> rows.names[i]])

(* What is selected is listed, and nothing that is only a way to somewhere else
   is selected: an operation never meets a path of an earlier listing. *)
SelectionIsListed ==
    \A p \in Pane : \A path \in pane[p].selected :
       \E i \in DOMAIN pane[p].entries :
          pane[p].entries[i].path = path /\ ~IsVirtual(pane[p].entries[i])

(* Of the things that take the keys at most one is there, none hides another:
   only of an approved operation whose review was abandoned do the events bring
   the view beside what the user has opened since, until its end is dismissed. *)
OneTakesTheKeys ==
    LET there == {i \in 1 .. 6 : Present[i]}
        view == {i \in there : Owners[i] = "operation"}
    IN  Cardinality(IF operation.crossed THEN there \ view ELSE there) <= 1

(* Each pane agrees with itself, and one thing at a time takes the keys. *)
ScreenInvariant == TypeOK /\ RowsAgree /\ SelectionIsListed /\ OneTakesTheKeys

(* Sorting keeps the cursor on its entry. *)
SortKeepsFocus ==
    [][\A p \in Pane : pane'[p].sort # pane[p].sort =>
          FocusedPath(pane'[p]) = FocusedPath(pane[p])]_vars

(* The entry that is awaited is focused when it is listed, whatever the filter,
   unless its name is a hidden one; the filter goes only if it was in the way. *)
AwaitedIsFocused ==
    [][\A p \in Pane :
         LET before == pane[p]  after == pane'[p] IN
         before.load = "Loading" /\ after.load = "Ready" /\ before.restore # Nothing =>
           /\ (\E i \in DOMAIN after.entries :
                  after.entries[i].path = before.restore
                     /\ (after.hidden \/ before.restore \notin Dotted)) =>
                 FocusedPath(after) = before.restore
           /\ before.restore \in Hit[before.filter] \ Dotted =>
                 after.filter = before.filter]_vars

(* The focus is on what the user had it on, or waits for. *)
FocusIsKept == SortKeepsFocus /\ AwaitedIsFocused

(* A submission: the only key that puts a view of a new operation there. *)
Submitted == keys' # keys /\ operation' # operation /\ operation'.view = "Working"

(* An operation works on what one pane lists, and a transfer goes to the
   directory the other pane shows.  Only where an operation whose review was
   abandoned too late has put its view behind an open prompt, and may have had
   the pane read again, is it what the pane has listed when the prompt was opened. *)
IntentIsOnScreen ==
    [][Submitted =>
         LET from == pane[intent'.from]
             other == pane[Other(intent'.from)]
             listed == {from.entries[i].path : i \in DOMAIN from.entries}
         IN  /\ intent'.sources # {}
             /\ intent'.kind # "Create" => intent'.sources \subseteq Path
             /\ intent'.kind = "Create" => intent'.destination = from.place
             /\ operation.view = "Idle" =>
                   IF intent'.kind = "Create" THEN from.load = "Ready"
                   ELSE intent'.sources \subseteq listed
             /\ operation.view # "Idle" =>
                   operation.crossed /\ intent'.kind \in {"Rename", "Create"}
             /\ intent'.kind = "Transfer" =>
                   /\ other.load = "Ready" /\ other.place \in Directory
                   /\ intent'.destination = other.place
                   /\ Active.selected # {} => intent'.from = active]_vars

(* The list of drives shows the favorites of now, in both panes. *)
FavoritesAreShown ==
    \A p \in Pane : pane[p].place = Drives /\ pane[p].load = "Ready" =>
       {entry.path : entry \in {e \in ToSet(pane[p].entries) : e.kind = "Favorite"}}
          = ToSet(favorites) \ {Home}

(* Memory, file and screen have the same favorites.  Both lists of drives show the
   list in use after every step; and whenever it or the file changes, it is the one
   the next start of the program finds, from the first change on even where the file
   could not be read at the start.  A save that fails changes neither. *)
FavoritesAgree ==
    [][/\ FavoritesAreShown'
       /\ favorites' # favorites \/ saved' # saved =>
             favorites' = LoadFavorites(saved')]_vars

(* The results of a search are those of its query in the text that is shown;
   while the query is no expression, they are those of an earlier one in this
   same text, or none. *)
ResultsAreCurrent ==
    preview.state \in {"Ready", "LoadingWindow"} =>
       LET search == Session.search
           FoundBy(query, options) == Found(Session.document, Side(Session), query, options)
       IN IF ~search.error
          THEN search.matches = IF search.query = NoQuery THEN <<>>
                                ELSE FoundBy(search.query, search.options)
          ELSE \/ search.matches = <<>>
               \/ \E query \in Query \ {NoQuery}, options \in SUBSET Options :
                     search.matches = FoundBy(query, options)

(* There is a current result exactly when there are results. *)
CurrentIsAResult ==
    preview.state \in {"Ready", "LoadingWindow"} =>
       LET search == Session.search IN
       /\ search.current \in 0 .. Len(search.matches)
       /\ search.current = 0 <=> search.matches = <<>>

(* A representation is one the document has, and each is scrolled to one of its
   own lines, also after a search, in the other half of a split, or in another
   window. *)
ShowsALine ==
    preview.state \in {"Ready", "LoadingWindow"} =>
       /\ Supports(Session.document, Session.mode)
       /\ \A side \in {"raw", "formatted"} :
             Session.scroll[side] <= Max({0, LinesOn(Session.document, side) - 1})

(* Find, the representation and the scrolling belong to the text that is shown. *)
SearchIsSound == ResultsAreCurrent /\ CurrentIsAResult /\ ShowsALine

(* The windows of a file meet: the next one begins no later than the shown one
   ends, and goes further; so backwards; and none that is shown begins or ends
   inside of a character.  Where a run of more than three continuation bytes is no
   text, a window may begin within it, and the one before may end up to three bytes
   earlier.  That is about the bytes of the windows: of one with more than MaxLines
   lines only MaxLines are shown, and no other window shows the rest (README, 4). *)
WindowsMeet ==
    [][preview.state = "LoadingWindow" /\ preview'.state = "Ready"
          /\ preview'.session # Session =>
         LET shown == Session.document  new == preview'.session.document
             file == File[new.path]
         IN
         /\ preview.direction = "Next" => new.start <= shown.end /\ new.end > shown.end
         /\ preview.direction = "Previous" =>
               /\ new.start < shown.start
               /\ IsText(file) => new.end >= shown.start
         /\ preview.direction = "First" => new.start = 0
         /\ preview.direction = "Last" => new.end = new.size
         /\ IsText(file) => {new.start, new.end} \cap file.continuation = {}]_vars

(* That the window a key asks for can be decoded; of UTF-16 with surrogate pairs
   this does not hold (README, 4). *)
WindowsDecode == preview.state = "LoadingWindow" => Decodes(Adjacent)
=============================================================================
