--------------------------- MODULE ScreenInductive ---------------------------
(***************************************************************************)
(* The invariant of Screen that its actions keep: what the properties of   *)
(* Screen say of a pane and of an open preview, and what they rest on.     *)
(***************************************************************************)
EXTENDS Screen

(* A pane. *)
PaneRecord ==
    [place : Place, entries : Seq(Entry), names : Seq(Path \cup {Drives}),
     visible : Seq(Nat), cursor : Nat, selected : SUBSET Path, filter : Filter,
     hidden : BOOLEAN, sort : DOMAIN SortFields,
     load : {"Loading", "Ready", "Failed"}, restore : Path \cup {Drives, Nothing}]

(* An entry: what is no way out has a path, and what can be entered is a
   directory. *)
IsListable(entry) ==
    /\ entry.kind # "Parent" => entry.path \in Path
    /\ entry.kind \in {"Home", "Favorite", "Drive", "Directory"}
          => entry.path \in Directory

NamesAgree(p) == p.names = [i \in DOMAIN p.entries |-> p.entries[i].path]
InOrder(p) ==
    \A i, j \in DOMAIN p.entries : i < j => ~RowBefore(p, j, i)
SelectedAreListed(p) ==
    \A path \in p.selected : \E i \in DOMAIN p.entries :
       p.entries[i].path = path /\ ~IsVirtual(p.entries[i])

(* Only a pane that is ready has entries. *)
PaneKept(p) ==
    /\ p \in PaneRecord
    /\ \A i \in DOMAIN p.entries : IsListable(p.entries[i])
    /\ NamesAgree(p) /\ InOrder(p) /\ SelectedAreListed(p)
    /\ p.visible = RowsOf(p) /\ p.cursor <= LastRow(p)
    /\ p.load # "Ready" => p.entries = <<>>

-----------------------------------------------------------------------------
(* An offset in the file, of text between two characters. *)
IsBoundary(file, offset) ==
    offset \in 0 .. file.size /\ (IsText(file) => offset \notin file.continuation)

(* The document is a window of its file. *)
IsWindow(document) ==
    /\ document \in Documents
    /\ document.path \in DOMAIN File
    /\ LET file == File[document.path] IN
       /\ IsBoundary(file, document.start) /\ IsBoundary(file, document.end)
       /\ document.size = file.size
       /\ file.size <= RichLimit => document.start = 0 /\ document.end = file.size

SearchRecord ==
    [editing : BOOLEAN, query : Query, options : SUBSET Options, matches : Seq(Nat),
     current : Nat, error : BOOLEAN]
SessionRecord ==
    [document : Documents, mode : {"Raw", "Split", "Formatted"},
     region : {"raw", "formatted"}, scroll : [raw : Nat, formatted : Nat],
     search : SearchRecord, help : BOOLEAN, changed : BOOLEAN]

MatchesAreFound(s) ==
    LET search == s.search
        FoundBy(query, options) == Found(s.document, Side(s), query, options)
    IN IF ~search.error
       THEN search.matches = IF search.query = NoQuery THEN <<>>
                             ELSE FoundBy(search.query, search.options)
       ELSE \/ search.matches = <<>>
            \/ \E query \in Query \ {NoQuery}, options \in SUBSET Options :
                  search.matches = FoundBy(query, options)
CurrentIsAMatch(s) ==
    /\ s.search.current \in 0 .. Len(s.search.matches)
    /\ s.search.current = 0 <=> s.search.matches = <<>>
LinesAreShown(s) ==
    /\ Supports(s.document, s.mode)
    /\ \A side \in {"raw", "formatted"} :
          s.scroll[side] <= Max({0, LinesOn(s.document, side) - 1})
SessionKept(s) ==
    /\ s \in SessionRecord /\ IsWindow(s.document)
    /\ MatchesAreFound(s) /\ CurrentIsAMatch(s) /\ LinesAreShown(s)

(* A window is only waited for where there is one. *)
Awaits(document, direction) ==
    \/ direction \in {"Previous", "First"} /\ HasPrevious(document)
    \/ direction \in {"Next", "Last"} /\ HasNext(document)

PreviewRecord ==
    [state : {"Closed", "Loading", "Ready", "LoadingWindow", "Failed"},
     path : Path \cup {Nothing},
     direction : {"none", "Previous", "Next", "First", "Last"},
     session : SessionRecord \cup {Nothing}]
PreviewKept ==
    /\ preview \in PreviewRecord
    /\ preview.state \in {"Ready", "LoadingWindow"} =>
          SessionKept(Session) /\ Session.document.path = preview.path
    /\ preview.state = "LoadingWindow" => Awaits(Session.document, preview.direction)

-----------------------------------------------------------------------------
(* The favorites are directories, each of them once. *)
FavoritesKept ==
    /\ favorites \in Seq(Directory) /\ saved \in Seq(Directory)
    /\ Len(favorites) <= MaxFavorites
    /\ IsInjective(favorites)
    /\ FavoritesAreShown

(* Of what takes the keys, no two things are there but the operation's view, and
   that one alone as long as no abandonment has crossed an approved operation. *)
OneIsThere ==
    \A i, j \in 1 .. 6 :
       Present[i] /\ Present[j] /\ (operation.crossed => 4 \notin {i, j}) => i = j

(* As long as none has, the view goes only with the operation. *)
OperationRecord ==
    [view : {"Idle", "Working", "Review", "Reported"},
     job : {"None", "Planning", "Held", "Executing"},
     older : {"None", "Planning", "Executing"}, crossed : BOOLEAN]
OperationKept ==
    /\ operation \in OperationRecord
    /\ operation.view = "Review" => operation.job \in {"Held", "Executing"}
    /\ ~operation.crossed =>
          /\ operation.older = "None"
          /\ operation.job # "None" => operation.view \in {"Working", "Review"}

OverlaysKept ==
    /\ active \in Pane
    /\ filtering \in BOOLEAN /\ help \in BOOLEAN
    /\ panel \in 0 .. MaxFavorites \cup {Nothing}
    /\ prompt \in [action : {"none", "Rename", "Create"},
                   path : Path \cup {Drives, Nothing}, blank : BOOLEAN]
    /\ keys \in Nat
    /\ OperationKept /\ OneIsThere

(* What a prompt is about is on the screen as long as it is open and no view of an
   operation has come behind it. *)
PromptKept ==
    /\ prompt # NoPrompt => prompt.action # "none"
    /\ prompt.action = "Rename" => prompt.path \in Path
    /\ prompt.action = "Create" => prompt.path = Active.place
    /\ prompt.action # "none" /\ operation.view = "Idle" => Active.load = "Ready"
    /\ prompt.action = "Rename" /\ operation.view = "Idle" =>
          \E i \in DOMAIN Active.entries : Active.entries[i].path = prompt.path

ScreenKept ==
    /\ pane \in [Pane -> PaneRecord]
    /\ \A p \in Pane : PaneKept(pane[p])
    /\ OverlaysKept /\ PromptKept /\ PreviewKept /\ FavoritesKept
=============================================================================
