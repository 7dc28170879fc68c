-------------------------- MODULE PreviewSession --------------------------
(***************************************************************************)
(* An open preview (PreviewSession of domain/preview.rs and the functions  *)
(* on it of main.rs) as operators from one state of the session to the     *)
(* next: the representation that is shown, scrolling, the search and the   *)
(* windows of a large file, as fs/preview.rs cuts them.  Screen calls them.*)
(*                                                                         *)
(* Offsets are bytes.  Of its text a document has the number of raw and of *)
(* formatted lines; what a query finds is the operator Found, and a match  *)
(* is the line it is in.  Wrapping, the horizontal scroll, notices and the *)
(* limit of 10,000 matches are left out.                                   *)
(***************************************************************************)
EXTENDS Integers, Sequences, FiniteSetsExt

CONSTANTS
    File,           \* File[path]: kind, size, encoding and lines of a file
    Lines(_, _, _), \* the number of lines from one byte of a path to another
    RichLimit,      \* RICH_PREVIEW_LIMIT: larger files are read in windows
    WindowBytes,    \* TEXT_WINDOW_BYTES
    MaxLines,       \* MAX_PREVIEW_LINES: of a window no more are shown
    Query, NoQuery,
    Options,        \* Regex and case-sensitive search: {"Regex", "Case"}
    Found(_, _, _, _),  \* lines that query and options find in a side of a
                        \* document, or Invalid: no expression, or too long
    Invalid,
    PageRows,       \* lines a page key scrolls by: 20 in the code
    Margin          \* lines kept above a match: 2 in the code

(* continuation: the offsets that are not between two characters.  In UTF-16 that
   is every odd one, and the even one inside of a surrogate pair; in other files
   that of each continuation byte, of which text has at most three in a row. *)
IsText(file) ==
    \/ file.utf16
    \/ \A offset \in file.continuation :
          \E first \in offset - 3 .. offset : first \notin file.continuation

ASSUME PreviewSessionAssumption ==
    /\ \A path \in DOMAIN File :
          /\ File[path].kind \in {"Markdown", "Json", "Log", "Text"}
          /\ File[path].size \in Nat /\ File[path].utf16 \in BOOLEAN
          /\ File[path].continuation \subseteq 1 .. File[path].size - 1
          /\ File[path].utf16 =>
                \A offset \in 1 .. File[path].size - 1 :
                   offset % 2 = 1 => offset \in File[path].continuation
          /\ File[path].formatted \in Nat
          /\ \A start, end \in 0 .. File[path].size : Lines(path, start, end) \in Nat
    /\ RichLimit \in Nat /\ WindowBytes \in Nat \ 0 .. 3 /\ MaxLines \in Nat
    /\ NoQuery \in Query /\ PageRows \in Nat \ {0} /\ Margin \in Nat

-----------------------------------------------------------------------------
(* select_window and align_boundary: a window begins and ends on a unit of UTF-16
   or where the last character begins, looking back over at most three bytes. *)

Unaligned(file, offset) == offset                                  \* mutant
AlignBoundary(file, offset) ==
    LET back == Max({0, offset - 3}) .. offset IN
    CASE offset \in {0, file.size} -> offset
      [] offset \notin {0, file.size} /\ file.utf16 -> offset - (offset % 2)
      [] OTHER -> Max({Min(back)} \cup (back \ file.continuation))

StartingAt(start) == [from |-> "start", at |-> start]
EndingAt(end) == [from |-> "end", at |-> end]
InitialTarget(file) == IF file.kind = "Log" THEN EndingAt(file.size) ELSE StartingAt(0)

WindowRange(file, target) ==
    LET at == Min({target.at, file.size})
        first == IF target.from = "start" THEN at ELSE Max({0, at - WindowBytes})
        last == IF target.from = "start" THEN Min({at + WindowBytes, file.size}) ELSE at
        start == AlignBoundary(file, first)
        end == AlignBoundary(file, last)
    IN  IF start >= end /\ start < file.size
        THEN <<start, Min({file.size, start + WindowBytes})>>
        ELSE <<start, end>>

(* load_preview and split_lines: of the lines at most MaxLines are kept, the last
   ones at the end of a file and else the first; only a file that is read whole,
   with no line left out, has a formatted text. *)
Document(path, target) ==
    LET file == File[path]  complete == file.size <= RichLimit
        range == IF complete THEN <<0, file.size>> ELSE WindowRange(file, target)
        lines == Lines(path, range[1], range[2])
    IN  [path |-> path, kind |-> file.kind, size |-> file.size,
         start |-> range[1], end |-> range[2],
         raw |-> Min({lines, MaxLines}),
         formatted |-> IF complete /\ lines <= MaxLines THEN file.formatted ELSE 0]

(* decode_text refuses UTF-16 that is cut inside of a surrogate pair. *)
Decodes(document) ==
    LET file == File[document.path] IN
    file.utf16 => {document.start, document.end} \cap file.continuation = {}

-----------------------------------------------------------------------------
(* PreviewSession::new *)

NoSearch == [editing |-> FALSE, query |-> NoQuery, options |-> {},
             matches |-> <<>>, current |-> 0, error |-> FALSE]

SessionNew(document) ==
    [document |-> document,
     mode |-> IF document.formatted > 0 THEN "Formatted" ELSE "Raw",
     region |-> "formatted",
     scroll |-> [raw |-> 0, formatted |-> 0],
     search |-> NoSearch, help |-> FALSE, changed |-> FALSE]

-----------------------------------------------------------------------------
(* The representation the keys act on; a document without a formatted one has
   no formatted lines. *)

Side(s) == IF s.mode = "Raw" \/ s.region = "raw" THEN "raw" ELSE "formatted"
LinesOn(document, side) ==
    IF side = "raw" \/ document.formatted = 0 THEN document.raw
    ELSE document.formatted
LastLine(s) == Max({0, LinesOn(s.document, Side(s)) - 1})

Documents ==
    UNION {{Document(path, target) :
               target \in [from : {"start", "end"}, at : 0 .. File[path].size]} :
           path \in DOMAIN File}
(* Only an expression is found, and in lines of the text that is searched. *)
ASSUME FoundAssumption ==
    /\ Invalid \notin Seq(Nat)
    /\ \A document \in Documents, side \in {"raw", "formatted"},
          query \in Query \ {NoQuery}, options \in SUBSET Options :
             \/ Found(document, side, query, options) = Invalid
             \/ Found(document, side, query, options)
                   \in Seq(0 .. Max({0, LinesOn(document, side) - 1}))

Scroll(s) == s.scroll[Side(s)]
ScrollTo(s, line) == [s EXCEPT !.scroll[Side(s)] = line]
ScrollPreview(s, delta) == ScrollTo(s, Min({LastLine(s), Max({0, Scroll(s) + delta})}))

-----------------------------------------------------------------------------
(* Searching.  current is 0 or the number of a match. *)

JumpToCurrent(s) ==
    IF s.search.current \notin DOMAIN s.search.matches THEN s
    ELSE ScrollTo(s, Max({0, s.search.matches[s.search.current] - Margin}))

(* An invalid pattern leaves the results of the one before. *)
RecomputeSearch(s) ==
    LET found == Found(s.document, Side(s), s.search.query, s.search.options) IN
    CASE s.search.query = NoQuery ->
           [s EXCEPT !.search.matches = <<>>, !.search.current = 0,
                     !.search.error = FALSE]
      [] s.search.query # NoQuery /\ found = Invalid ->
           [s EXCEPT !.search.error = TRUE]
      [] OTHER ->
           JumpToCurrent([s EXCEPT !.search.matches = found,
                                   !.search.current = Min({1, Len(found)}),
                                   !.search.error = FALSE])

MoveMatch(s, delta) ==
    LET count == Len(s.search.matches) IN
    IF count = 0 THEN s
    ELSE JumpToCurrent([s EXCEPT !.search.current = ((@ - 1 + delta) % count) + 1])

EditSearch(s) == RecomputeSearch([s EXCEPT !.search.editing = TRUE])
EndSearch(s) == [s EXCEPT !.search.editing = FALSE]
EditQuery(s, query) == RecomputeSearch([s EXCEPT !.search.query = query])
ToggleOption(s, option) ==
    RecomputeSearch([s EXCEPT !.search.options = SymDiff(@, {option})])

ForgetMatches(s) == [s EXCEPT !.search.matches = <<>>, !.search.current = 0]

-----------------------------------------------------------------------------
(* Representations. *)

Supports(document, mode) ==
    CASE mode = "Raw" -> TRUE
      [] mode = "Split" -> document.kind = "Markdown" /\ document.formatted > 0
      [] mode = "Formatted" -> document.formatted > 0

InMode(s, mode) ==
    [s EXCEPT !.mode = mode, !.region = IF mode = "Raw" THEN "raw" ELSE "formatted"]

SetModeOnly(s, mode) ==                                            \* mutant
    IF Supports(s.document, mode) THEN InMode(s, mode) ELSE s
SetMode(s, mode) ==
    IF Supports(s.document, mode)
    THEN RecomputeSearch(ForgetMatches(InMode(s, mode))) ELSE s

CycleMode(s) ==
    SetMode(s, CASE s.document.kind = "Markdown" /\ s.mode = "Raw" -> "Split"
                 [] s.document.kind = "Markdown" /\ s.mode = "Split" -> "Formatted"
                 [] s.document.kind = "Json" /\ s.mode = "Raw" -> "Formatted"
                 [] OTHER -> "Raw")

OtherRegion(s) ==
    RecomputeSearch(ForgetMatches(
        [s EXCEPT !.region = IF @ = "raw" THEN "formatted" ELSE "raw"]))

-----------------------------------------------------------------------------
(* The windows of a large file. *)

HasPrevious(document) == document.start > 0
HasNext(document) == document.end < document.size

(* preview_window_command: the direction a key asks for while neither help nor
   the search has the keys.  Where it asks for none it scrolls, or does nothing. *)
Reads(s) == ~s.help /\ ~s.search.editing
Direction(s, key) ==
    LET previous == HasPrevious(s.document)  next == HasNext(s.document)
        line == Scroll(s)  last == LastLine(s)
    IN
    CASE previous /\ key \in {"["} \cup (IF line = 0 THEN {"Up", "PageUp"} ELSE {})
           -> "Previous"
      [] next /\ \/ key = "]"
                 \/ key = "Down" /\ line >= last
                 \/ key = "PageDown" /\ line + PageRows >= last
           -> "Next"
      [] previous /\ key = "g" -> "First"
      [] next /\ key = "G" -> "Last"
      [] OTHER -> "none"

ScrollKeys == {"Up", "Down", "PageUp", "PageDown", "g", "G", "Home", "End"}
ScrollBy(s, key) ==
    CASE key = "Up" -> ScrollPreview(s, -1)
      [] key = "Down" -> ScrollPreview(s, 1)
      [] key = "PageUp" -> ScrollPreview(s, -PageRows)
      [] key = "PageDown" -> ScrollPreview(s, PageRows)
      [] key \in {"g", "Home"} -> ScrollTo(s, 0)
      [] key \in {"G", "End"} -> ScrollTo(s, LastLine(s))

(* begin_preview_window *)
TargetOf(document, direction) ==
    CASE direction = "Previous" -> EndingAt(document.start)
      [] direction = "Next" -> StartingAt(document.end)
      [] direction = "First" -> StartingAt(0)
      [] direction = "Last" -> EndingAt(document.size)

(* session_for_new_window: the query is run again in the new window. *)
NewWindow(previous, document, direction) ==
    RecomputeSearch(
        [SessionNew(document) EXCEPT
            !.search = [NoSearch EXCEPT !.query = previous.search.query,
                                        !.options = previous.search.options],
            !.scroll.raw = IF direction \in {"Previous", "Last"}
                           THEN Max({0, document.raw - PageRows}) ELSE 0])
=============================================================================
