------------------------- MODULE PreviewLoaderProofs -------------------------
(***************************************************************************)
(* Proofs about PreviewLoader: for any files, windows, writes and channel, *)
(* a preview shows what was asked for last, in windows of one version, and *)
(* is watched.                                                             *)
(***************************************************************************)
EXTENDS PreviewLoader, SequenceTheorems, TLAPS

Previews == [state : {"Closed", "Loading", "LoadingWindow", "Ready", "Failed"},
             document : Document \cup {Nothing}, changed : BOOLEAN]
Readers == [step : {"take", "inspect", "read", "done", "send"},
            request : Request \cup {Nothing}, version : Version,
            content : Version, answer : Answer \cup {Nothing}]
Watchers == [step : {"wait", "look", "disarm", "tell"},
             watched : Identity \cup {Nothing}]

\* A request was asked for, and is the last one or older.
Known(request, last) ==
    /\ request \in Request /\ last # Nothing
    /\ request.id <= last.id
    /\ request.id = last.id => request = last

\* A version is of the past of a file.
Past(path, version, versions) == version <= versions[path]
Sound(request, versions) ==
    request.expected # Nothing => Past(request.path, request.expected, versions)

\* What an answer says about the file is so.
Truthful(answer, request, version, versions) ==
    /\ Past(request.path, version, versions)
    /\ answer = "document" /\ request.expected # Nothing => version = request.expected
    /\ answer = "changed" => versions[request.path] > 0

HasDocument == preview.state \in {"Ready", "LoadingWindow"}

AskedIsTheLast ==
    /\ asked # Nothing => asked.id <= current /\ Sound(asked, disk)
    /\ preview.state # "Closed" => asked # Nothing
    /\ Waiting => current = asked.id

SlotIsKnown == slot # Nothing => Known(slot, asked) /\ Sound(slot, disk)

ReaderIsKnown ==
    /\ reader.step = "take" => reader.request = Nothing
    /\ reader.step # "take" => Known(reader.request, asked) /\ Sound(reader.request, disk)
    /\ reader.step = "inspect" => reader.version = 0
    /\ reader.step = "read" =>
          Truthful("document", reader.request, reader.version, disk)
    /\ reader.step \in {"done", "send"} =>
          /\ reader.answer \in Answer
          /\ Truthful(reader.answer, reader.request, reader.version, disk)

ResultsAreKnown ==
    \A i \in 1 .. Len(results) :
        /\ Known(results[i].request, asked)
        /\ Truthful(results[i].answer, results[i].request, results[i].version, disk)

ScreenIsSound ==
    /\ ~HasDocument => preview.document = Nothing /\ ~preview.changed
    /\ HasDocument =>
          /\ preview.document \in Document
          /\ Past(preview.document.request.path, preview.document.version, disk)
    /\ preview.state = "LoadingWindow" =>
          /\ asked.expected = preview.document.version
          /\ asked.path = preview.document.request.path
    /\ ui = "fill" => Waiting
    /\ ui = "clear" => preview.state = "Closed"

WatchIsSound ==
    /\ watch # Nothing => Past(watch.path, watch.version, disk)
    /\ watch # Nothing /\ HasDocument => watch.path = preview.document.request.path
    /\ watcher.step # "wait" =>
          /\ watcher.watched \in Identity
          /\ Past(watcher.watched.path, watcher.watched.version, disk)
    /\ watcher.step \in {"disarm", "tell"} => disk[watcher.watched.path] > 0
    /\ \A i \in 1 .. Len(changes) : disk[changes[i]] > 0
    /\ HasDocument /\ lost = preview.document.request.path /\ watcher.step # "wait" =>
          watcher.watched.path = lost

\* The inductive invariant.
Agreement ==
    /\ TypeOK
    /\ AskedIsTheLast
    /\ SlotIsKnown
    /\ ReaderIsKnown
    /\ ResultsAreKnown
    /\ ScreenIsSound
    /\ WatchIsSound
    /\ NoRequestIsLost
    /\ NoForeignNotice
    /\ ShownIsWatched

-----------------------------------------------------------------------------
\* TypeOK with names for the types of the records.
Types ==
    /\ disk \in [Path -> Version]
    /\ preview \in Previews
    /\ ui \in {"results", "changes", "key", "fill", "clear"}
    /\ asked \in Request \cup {Nothing} /\ slot \in Request \cup {Nothing}
    /\ current \in Nat /\ watch \in Identity \cup {Nothing}
    /\ results \in Seq(Event) /\ Len(results) <= Capacity
    /\ changes \in Seq(Path) /\ Len(changes) <= 1
    /\ reader \in Readers
    /\ watcher \in Watchers
    /\ keys \in 0 .. Keys /\ lost \in Path \cup {Nothing}

LEMMA Typed == TypeOK <=> Types
  BY DEF Types, TypeOK, Previews, Readers, Watchers

LEMMA TypedNext == TypeOK' <=> Types'
  BY DEF Types, TypeOK, Previews, Readers, Watchers

LEMMA Sequences ==
    ASSUME TypeOK
    PROVE  /\ \A i \in 1 .. Len(results) : results[i] \in Event
           /\ DOMAIN results = 1 .. Len(results)
           /\ \A i \in 1 .. Len(changes) : changes[i] \in Path
  BY Typed DEF Types

LEMMA InitAgrees == Init => Agreement
<1> SUFFICES ASSUME Init PROVE Agreement
  OBVIOUS
<1> USE PreviewAssumption
<1>1. TypeOK
  <2>1. disk \in [Path -> Version]
    BY DEF Init, Version
  <2>2. preview \in Previews /\ watcher \in Watchers
    BY DEF Init, Closed, Previews, Watchers
  <2>3. reader \in Readers
    BY DEF Init, Resting, Readers, Version
  <2>4. results \in Seq(Event) /\ Len(results) <= Capacity
    BY DEF Init
  <2>5. changes \in Seq(Path) /\ Len(changes) <= 1
    BY DEF Init
  <2>6. keys \in 0 .. Keys /\ current \in Nat
    BY DEF Init
  <2> QED
    BY <2>1, <2>2, <2>3, <2>4, <2>5, <2>6, Typed DEF Types, Init
<1>2. AskedIsTheLast /\ SlotIsKnown
  BY DEF Init, Closed, AskedIsTheLast, SlotIsKnown, Waiting
<1>3. ReaderIsKnown /\ ResultsAreKnown
  BY DEF Init, Resting, ReaderIsKnown, ResultsAreKnown
<1>4. ScreenIsSound
  BY DEF Init, Closed, ScreenIsSound, HasDocument
<1>5. WatchIsSound
  BY DEF Init, Closed, WatchIsSound, HasDocument
<1>6. NoRequestIsLost /\ NoForeignNotice /\ ShownIsWatched
  BY DEF Init, Closed, Waiting, NoRequestIsLost, NoForeignNotice, ShownIsWatched
<1> QED
  BY <1>1, <1>2, <1>3, <1>4, <1>5, <1>6 DEF Agreement

-----------------------------------------------------------------------------
(* The loop goes on. *)

LEMMA TurnAgrees ==
    ASSUME Agreement, ui' \in {"results", "changes", "key"},
           ui \notin {"fill", "clear"},
           UNCHANGED <<disk, preview, asked, loader, channels, threads, keys, lost>>
    PROVE  Agreement'
<1> USE DEF loader, channels, threads
<1>1. TypeOK'
  BY Typed, TypedNext DEF Agreement, Types
<1>2. AskedIsTheLast' /\ SlotIsKnown'
  BY DEF Agreement, AskedIsTheLast, SlotIsKnown, Waiting
<1>3. ReaderIsKnown' /\ ResultsAreKnown'
  BY DEF Agreement, ReaderIsKnown, ResultsAreKnown
<1>4. ScreenIsSound' /\ WatchIsSound'
  BY DEF Agreement, ScreenIsSound, WatchIsSound, HasDocument, Waiting
<1>5. NoRequestIsLost'
  BY DEF Agreement, NoRequestIsLost, Waiting
<1>6. NoForeignNotice' /\ ShownIsWatched'
  BY DEF Agreement, NoForeignNotice, ShownIsWatched, Watching, IdentityOf
<1> QED
  BY <1>1, <1>2, <1>3, <1>4, <1>5, <1>6 DEF Agreement

LEMMA DrainChangeAgrees ==
    ASSUME Agreement, DrainChange
    PROVE  Agreement'
<1> USE DEF loader, threads
<1>0. Types
  BY Typed DEF Agreement
<1>1. /\ changes # <<>> /\ changes' = Tail(changes)
      /\ preview' = [preview EXCEPT !.changed = @ \/ IsShown(Head(changes))]
      /\ ui = "changes"
      /\ UNCHANGED <<disk, ui, asked, loader, results, threads, keys, lost>>
  BY DEF DrainChange
<1>2. /\ changes' \in Seq(Path) /\ Len(changes') <= 1
      /\ \A i \in 1 .. Len(changes') : changes'[i] = changes[i + 1]
      /\ Len(changes') = Len(changes) - 1 /\ Len(changes) \in Nat
      /\ Head(changes) = changes[1] /\ 1 \in 1 .. Len(changes)
      /\ Head(changes) \in Path
      /\ changes = <<Head(changes)>>
  <2>1. changes \in Seq(Path) /\ Len(changes) <= 1 /\ Len(changes) \in Nat
    BY <1>0 DEF Types
  <2>2. Len(changes) = 1
    <3>1. Tail(changes) \in Seq(Path) /\ Len(Tail(changes)) = Len(changes) - 1
      BY <1>1, <2>1, HeadTailProperties
    <3>2. Len(Tail(changes)) \in Nat
      BY <3>1
    <3> QED
      BY <2>1, <3>1, <3>2
  <2>3. /\ changes' \in Seq(Path) /\ Len(changes') = 0
        /\ Head(changes) = changes[1] /\ Head(changes) \in Path
    BY <1>1, <2>1, <2>2, HeadTailProperties
  <2>4. changes = <<Head(changes)>>
    BY <2>1, <2>2, <2>3
  <2> QED
    BY <2>1, <2>2, <2>3, <2>4
<1>3. /\ preview'.state = preview.state
      /\ preview'.document = preview.document
      /\ preview'.changed \in BOOLEAN
      /\ preview'.changed <=> preview.changed \/ IsShown(Head(changes))
      /\ preview' \in Previews
  <2>1. IsShown(Head(changes)) \in BOOLEAN /\ preview.changed \in BOOLEAN
    BY <1>0 DEF IsShown, Types, Previews
  <2> QED
    BY <1>0, <1>1, <2>1 DEF Types, Previews
<1>4. disk[Head(changes)] > 0
  BY <1>2 DEF Agreement, WatchIsSound
<1>5. TypeOK'
  BY <1>0, <1>1, <1>2, <1>3, TypedNext DEF Types
<1>6. AskedIsTheLast' /\ SlotIsKnown' /\ NoRequestIsLost'
  BY <1>1, <1>3 DEF Agreement, AskedIsTheLast, SlotIsKnown, NoRequestIsLost, Waiting
<1>7. ReaderIsKnown' /\ ResultsAreKnown'
  BY <1>1 DEF Agreement, ReaderIsKnown, ResultsAreKnown
<1>8. ScreenIsSound'
  BY <1>1, <1>3, PreviewAssumption
     DEF Agreement, ScreenIsSound, HasDocument, Waiting, IsShown
<1>9. WatchIsSound'
  BY <1>1, <1>2, <1>3 DEF Agreement, WatchIsSound, HasDocument
<1>10. NoForeignNotice'
  BY <1>1, <1>3, <1>4 DEF Agreement, NoForeignNotice, IsShown
<1>11. ShownIsWatched'
  <2> SUFFICES ASSUME preview.state = "Ready", ~preview'.changed
               PROVE  ShownIsWatched!2'
    BY <1>3 DEF ShownIsWatched
  <2>1. preview.document \in Document
    BY DEF Agreement, ScreenIsSound, HasDocument
  <2>2. changes # <<preview.document.request.path>>
    BY <1>3, <2>1, PreviewAssumption DEF IsShown
  <2> QED
    BY <1>1, <1>3, <2>2 DEF Agreement, ShownIsWatched, IdentityOf, Watching
<1> QED
  BY <1>5, <1>6, <1>7, <1>8, <1>9, <1>10, <1>11 DEF Agreement

\* The answer that the screen waits for is taken, or an older one dropped.
LEMMA DrainResultAgrees ==
    ASSUME Agreement, DrainResult
    PROVE  Agreement'
<1> USE DEF threads
<1> DEFINE event == Head(results)
<1>0. Types
  BY Typed DEF Agreement
<1>1. /\ results # <<>> /\ results' = Tail(results) /\ ui = "results"
      /\ UNCHANGED <<disk, ui, asked, slot, current, changes, threads, keys>>
  BY DEF DrainResult
<1>2. /\ results' \in Seq(Event) /\ Len(results') <= Capacity
      /\ \A i \in 1 .. Len(results') : results'[i] = results[i + 1]
      /\ Len(results') = Len(results) - 1 /\ Len(results) \in Nat
      /\ event = results[1] /\ 1 \in 1 .. Len(results)
      /\ event \in Event
  BY <1>0, <1>1, HeadTailProperties, PreviewAssumption DEF Types
<1>3. /\ Known(event.request, asked)
      /\ Truthful(event.answer, event.request, event.version, disk)
  BY <1>2 DEF Agreement, ResultsAreKnown
<1> HIDE DEF event
<1>4. IsCurrent(event) => Waiting /\ event.request = asked /\ asked \in Request
  BY <1>3 DEF IsCurrent, Known
<1>5. ReaderIsKnown' /\ SlotIsKnown'
  BY <1>1 DEF Agreement, ReaderIsKnown, SlotIsKnown
<1>6. ResultsAreKnown'
  <2> SUFFICES ASSUME NEW i \in 1 .. Len(results')
               PROVE  /\ Known(results'[i].request, asked)
                      /\ Truthful(results'[i].answer, results'[i].request,
                                  results'[i].version, disk)
    BY <1>1 DEF ResultsAreKnown
  <2>1. i + 1 \in 1 .. Len(results) /\ results'[i] = results[i + 1]
    BY <1>2
  <2> QED
    BY <2>1 DEF Agreement, ResultsAreKnown
<1>7. CASE ~IsCurrent(event) /\ UNCHANGED <<preview, watch, lost>>
  <2>1. TypeOK'
    BY <1>0, <1>1, <1>2, <1>7, TypedNext DEF Types
  <2>2. AskedIsTheLast' /\ ScreenIsSound' /\ WatchIsSound'
    BY <1>1, <1>7 DEF Agreement, AskedIsTheLast, ScreenIsSound, WatchIsSound,
                      HasDocument, Waiting
  <2>3. NoForeignNotice' /\ ShownIsWatched'
    BY <1>1, <1>7 DEF Agreement, NoForeignNotice, ShownIsWatched, Watching, IdentityOf
  <2>4. NoRequestIsLost'
    <3> SUFFICES ASSUME Waiting
                 PROVE  NoRequestIsLost!2'
      BY <1>7 DEF NoRequestIsLost, Waiting
    <3>1. event.request # asked
      BY <1>7 DEF IsCurrent
    <3>2. ASSUME NEW i \in 1 .. Len(results), results[i].request = asked
          PROVE  \E j \in DOMAIN results' : results'[j].request = asked
      <4>1. i # 1
        BY <1>2, <3>1, <3>2
      <4>2. i - 1 \in 1 .. Len(results') /\ results'[i - 1] = results[i]
        BY <1>2, <4>1
      <4>3. DOMAIN results' = 1 .. Len(results')
        BY <1>2
      <4> QED
        BY <3>2, <4>2, <4>3
    <3>3. DOMAIN results = 1 .. Len(results)
      BY <1>0 DEF Types
    <3> QED
      BY <1>1, <3>2, <3>3 DEF Agreement, NoRequestIsLost
  <2> QED
    BY <1>5, <1>6, <2>1, <2>2, <2>3, <2>4 DEF Agreement
<1>8. CASE IsCurrent(event) /\ event.answer = "document" /\ Shown(DocumentOf(event))
  <2>1. /\ preview' = [state |-> "Ready", document |-> DocumentOf(event), changed |-> FALSE]
        /\ watch' = IdentityOf(DocumentOf(event)) /\ lost' = Nothing
    BY <1>8 DEF Shown
  <2>2. /\ DocumentOf(event) \in Document
        /\ DocumentOf(event).request = asked
        /\ DocumentOf(event).version = event.version
        /\ IdentityOf(DocumentOf(event)) \in Identity
        /\ IdentityOf(DocumentOf(event)).path = asked.path
        /\ IdentityOf(DocumentOf(event)).version = event.version
        /\ Past(asked.path, event.version, disk)
        /\ asked.path \in Path
    BY <1>2, <1>3, <1>4, <1>8
       DEF DocumentOf, Document, Event, IdentityOf, Identity, Truthful, Request
  <2>3. preview' \in Previews
    BY <2>1, <2>2 DEF Previews
  <2>4. TypeOK'
    BY <1>0, <1>1, <1>2, <2>1, <2>2, <2>3, TypedNext DEF Types
  <2>5. AskedIsTheLast' /\ ScreenIsSound'
    BY <1>1, <1>4, <1>8, <2>1, <2>2
       DEF Agreement, AskedIsTheLast, ScreenIsSound, HasDocument, Waiting
  <2>6. WatchIsSound'
    BY <1>1, <2>1, <2>2, PreviewAssumption DEF Agreement, WatchIsSound, HasDocument
  <2>7. NoRequestIsLost' /\ NoForeignNotice' /\ ShownIsWatched'
    BY <2>1 DEF NoRequestIsLost, NoForeignNotice, ShownIsWatched, Waiting
  <2> QED
    BY <1>5, <1>6, <2>4, <2>5, <2>6, <2>7 DEF Agreement
<1>9. CASE /\ IsCurrent(event) /\ event.answer # "document"
           /\ preview.state = "LoadingWindow" /\ KeptWindow(event.answer)
  <2>1. /\ preview' = [preview EXCEPT !.state = "Ready",
                                      !.changed = @ \/ event.answer = "changed"]
        /\ watch' = IF event.answer = "changed" THEN watch
                    ELSE IdentityOf(preview.document)
        /\ lost' = lost
    BY <1>9 DEF KeptWindow
  <2>2. /\ preview'.state = "Ready" /\ preview'.document = preview.document
        /\ preview'.changed <=> preview.changed \/ event.answer = "changed"
        /\ preview' \in Previews
    <3>1. preview.changed \in BOOLEAN /\ (event.answer = "changed") \in BOOLEAN
      BY <1>0 DEF Types, Previews
    <3> QED
      BY <1>0, <2>1, <3>1 DEF Types, Previews
  <2>3. /\ preview.document \in Document
        /\ Past(preview.document.request.path, preview.document.version, disk)
        /\ asked.path = preview.document.request.path
    BY <1>9 DEF Agreement, ScreenIsSound, HasDocument
  <2>4. /\ IdentityOf(preview.document) \in Identity
        /\ IdentityOf(preview.document).path = preview.document.request.path
        /\ IdentityOf(preview.document).version = preview.document.version
    BY <2>3 DEF IdentityOf, Identity, Document, Request
  <2>5. TypeOK'
    BY <1>0, <1>1, <1>2, <2>1, <2>2, <2>4, TypedNext DEF Types
  <2>6. AskedIsTheLast' /\ ScreenIsSound'
    BY <1>1, <1>9, <2>2, <2>3
       DEF Agreement, AskedIsTheLast, ScreenIsSound, HasDocument, Waiting
  <2>7. WatchIsSound'
    BY <1>1, <1>9, <2>1, <2>2, <2>3, <2>4 DEF Agreement, WatchIsSound, HasDocument
  <2>8. NoRequestIsLost'
    BY <2>2 DEF NoRequestIsLost, Waiting
  <2>9. NoForeignNotice'
    BY <1>1, <1>3, <1>4, <1>9, <2>2, <2>3 DEF Agreement, NoForeignNotice, Truthful
  <2>10. ShownIsWatched'
    BY <2>1, <2>2, <2>4 DEF ShownIsWatched, IdentityOf
  <2> QED
    BY <1>5, <1>6, <2>5, <2>6, <2>7, <2>8, <2>9, <2>10 DEF Agreement
<1>10. CASE /\ IsCurrent(event) /\ event.answer # "document"
            /\ preview' = [Closed EXCEPT !.state = "Failed"]
            /\ UNCHANGED <<watch, lost>>
  <2>1. /\ preview'.state = "Failed" /\ preview'.document = Nothing
        /\ preview'.changed = FALSE /\ preview' \in Previews
    BY <1>10 DEF Closed, Previews
  <2>2. TypeOK'
    BY <1>0, <1>1, <1>2, <1>10, <2>1, TypedNext DEF Types
  <2>3. AskedIsTheLast' /\ ScreenIsSound' /\ WatchIsSound'
    BY <1>1, <1>4, <1>10, <2>1
       DEF Agreement, AskedIsTheLast, ScreenIsSound, WatchIsSound, HasDocument, Waiting
  <2>4. NoRequestIsLost' /\ NoForeignNotice' /\ ShownIsWatched'
    BY <2>1 DEF NoRequestIsLost, NoForeignNotice, ShownIsWatched, Waiting
  <2> QED
    BY <1>5, <1>6, <2>2, <2>3, <2>4 DEF Agreement
<1> QED
  BY <1>7, <1>8, <1>9, <1>10 DEF DrainResult, event

-----------------------------------------------------------------------------
(* Keys.  A new request makes every other one an older one. *)

\* What was known stays known when something newer is asked for.
LEMMA KnownStays ==
    ASSUME NEW request, Known(request, asked), asked \in Request,
           asked.id <= current, current \in Nat,
           asked' \in Request, asked'.id = current + 1
    PROVE  Known(request, asked')
  BY PreviewAssumption DEF Known, Request

LEMMA AskAgrees ==
    ASSUME Agreement, NEW path \in Path, NEW window \in 1 .. Windows,
           NEW expected \in Version \cup {Nothing},
           Ask(path, window, expected),
           expected # Nothing => expected <= disk[path],
           preview' \in Previews,
           \/ /\ preview'.state = "Loading" /\ preview'.document = Nothing
              /\ preview'.changed = FALSE
           \/ /\ preview'.state = "LoadingWindow" /\ HasDocument
              /\ preview'.document = preview.document
              /\ preview'.changed = preview.changed
              /\ expected = preview.document.version
              /\ path = preview.document.request.path
    PROVE  Agreement'
<1> USE DEF channels, threads
<1>0. Types
  BY Typed DEF Agreement
<1>1. /\ current' = current + 1 /\ ui' = "fill" /\ watch' = Nothing
      /\ asked' = [id |-> current + 1, path |-> path, window |-> window,
                   expected |-> expected]
      /\ keys > 0 /\ keys' = keys - 1
      /\ UNCHANGED <<disk, slot, channels, threads, lost>>
  BY DEF Ask, Pressed
<1>2. /\ asked' \in Request /\ asked'.id = current + 1 /\ asked' # Nothing
      /\ asked'.path = path /\ asked'.expected = expected
  BY <1>0, <1>1, PreviewAssumption DEF Types, Request
<1>3. TypeOK'
  <2>1. keys' \in 0 .. Keys /\ current' \in Nat
    BY <1>0, <1>1, PreviewAssumption DEF Types
  <2> QED
    BY <1>0, <1>1, <1>2, <2>1, TypedNext DEF Types
<1>4. AskedIsTheLast'
  BY <1>0, <1>1, <1>2 DEF AskedIsTheLast, Waiting, Types, Sound, Past
<1>5. \A request : Known(request, asked) => Known(request, asked')
  <2> SUFFICES ASSUME NEW request, Known(request, asked)
               PROVE  Known(request, asked')
    OBVIOUS
  <2>1. asked \in Request /\ asked.id <= current /\ current \in Nat
    BY <1>0 DEF Agreement, AskedIsTheLast, Known, Types
  <2> QED
    BY <1>2, <2>1, KnownStays
<1>6. SlotIsKnown' /\ ReaderIsKnown' /\ ResultsAreKnown'
  BY <1>1, <1>5 DEF Agreement, SlotIsKnown, ReaderIsKnown, ResultsAreKnown
<1>7. ScreenIsSound'
  BY <1>1, <1>2 DEF Agreement, ScreenIsSound, HasDocument, Waiting
<1>8. WatchIsSound'
  BY <1>1 DEF Agreement, WatchIsSound, HasDocument
<1>9. NoRequestIsLost' /\ ShownIsWatched'
  BY <1>1 DEF NoRequestIsLost, ShownIsWatched
<1>10. NoForeignNotice'
  BY <1>1 DEF Agreement, NoForeignNotice
<1> QED
  BY <1>3, <1>4, <1>6, <1>7, <1>8, <1>9, <1>10 DEF Agreement

LEMMA PressAgrees ==
    ASSUME Agreement, Press
    PROVE  Agreement'
<1> USE PreviewAssumption
<1>0. Types
  BY Typed DEF Agreement
<1>1. /\ [Closed EXCEPT !.state = "Loading"] \in Previews
      /\ [Closed EXCEPT !.state = "Loading"].state = "Loading"
      /\ [Closed EXCEPT !.state = "Loading"].document = Nothing
      /\ [Closed EXCEPT !.state = "Loading"].changed = FALSE
  BY DEF Closed, Previews
<1>2. ASSUME NEW path \in Path, Ask(path, 1, Nothing),
             preview' = [Closed EXCEPT !.state = "Loading"]
      PROVE  Agreement'
  <2>1. 1 \in 1 .. Windows /\ Nothing \in Version \cup {Nothing}
    OBVIOUS
  <2>2. /\ preview' \in Previews /\ preview'.state = "Loading"
        /\ preview'.document = Nothing /\ preview'.changed = FALSE
    BY <1>1, <1>2
  <2> QED
    BY <1>2, <2>1, <2>2, AskAgrees
<1>3. CASE Reload
  <2>1. asked.path \in Path
    BY <1>0, <1>3 DEF Reload, Agreement, AskedIsTheLast, Types, Request
  <2> QED
    BY <1>2, <1>3, <2>1 DEF Reload
<1>4. ASSUME NEW window \in 1 .. Windows, Page(window) PROVE Agreement'
  <2>1. HasDocument /\ preview.document \in Document
    BY <1>4 DEF Page, Agreement, ScreenIsSound, HasDocument
  <2>2. /\ preview.document.request.path \in Path
        /\ preview.document.version \in Version
        /\ preview.document.version <= disk[preview.document.request.path]
    BY <2>1 DEF Document, Request, Agreement, ScreenIsSound, Past
  <2>3. /\ preview' \in Previews /\ preview'.state = "LoadingWindow"
        /\ preview'.document = preview.document
        /\ preview'.changed = preview.changed
    BY <1>0, <1>4 DEF Page, Types, Previews
  <2> QED
    BY <1>4, <2>1, <2>2, <2>3, AskAgrees DEF Page, ExpectedVersion
<1>5. CASE Close
  <2> USE DEF channels, threads
  <2>1. /\ keys > 0 /\ keys' = keys - 1 /\ current' = current + 1
        /\ ui' = "clear" /\ preview' = Closed
        /\ UNCHANGED <<disk, asked, slot, watch, channels, threads, lost>>
    BY <1>5 DEF Close, Pressed
  <2>2. /\ preview'.state = "Closed" /\ preview'.document = Nothing
        /\ preview'.changed = FALSE /\ preview' \in Previews
    BY <2>1 DEF Closed, Previews
  <2>3. keys' \in 0 .. Keys /\ current' \in Nat
    BY <1>0, <2>1 DEF Types
  <2>4. TypeOK'
    BY <1>0, <2>1, <2>2, <2>3, TypedNext DEF Types
  <2>5. AskedIsTheLast'
    BY <1>0, <2>1, <2>2 DEF Agreement, AskedIsTheLast, Waiting, Types, Request
  <2>6. SlotIsKnown' /\ ReaderIsKnown' /\ ResultsAreKnown'
    BY <2>1 DEF Agreement, SlotIsKnown, ReaderIsKnown, ResultsAreKnown
  <2>7. ScreenIsSound' /\ WatchIsSound'
    BY <2>1, <2>2 DEF Agreement, ScreenIsSound, WatchIsSound, HasDocument, Waiting
  <2>8. NoRequestIsLost' /\ NoForeignNotice' /\ ShownIsWatched'
    BY <2>2 DEF NoRequestIsLost, NoForeignNotice, ShownIsWatched, Waiting
  <2> QED
    BY <2>4, <2>5, <2>6, <2>7, <2>8 DEF Agreement
<1> QED
  BY <1>2, <1>3, <1>4, <1>5 DEF Press, Open

LEMMA SlotAgrees ==
    ASSUME Agreement, FillSlot \/ ClearSlot
    PROVE  Agreement'
<1> USE DEF channels, threads
<1>0. Types
  BY Typed DEF Agreement
<1>1. /\ ui \in {"fill", "clear"} /\ ui' = "results"
      /\ \/ ui = "fill" /\ slot' = asked /\ watch' = watch
         \/ ui = "clear" /\ slot' = Nothing /\ watch' = Nothing
      /\ UNCHANGED <<disk, preview, asked, current, channels, threads, keys, lost>>
  BY DEF FillSlot, ClearSlot
<1>2. ui = "fill" => asked # Nothing /\ asked \in Request
  BY <1>0 DEF Agreement, ScreenIsSound, AskedIsTheLast, Waiting, Types
<1>3. TypeOK'
  BY <1>0, <1>1, TypedNext DEF Types
<1>4. AskedIsTheLast'
  BY <1>1 DEF Agreement, AskedIsTheLast, Waiting
<1>5. SlotIsKnown'
  BY <1>1, <1>2 DEF Agreement, AskedIsTheLast, SlotIsKnown, Known, Request
<1>6. ReaderIsKnown' /\ ResultsAreKnown' /\ ScreenIsSound'
  BY <1>1 DEF Agreement, ReaderIsKnown, ResultsAreKnown, ScreenIsSound, HasDocument, Waiting
<1>7. WatchIsSound'
  BY <1>1 DEF Agreement, WatchIsSound, HasDocument
<1>8. NoRequestIsLost' /\ NoForeignNotice' /\ ShownIsWatched'
  BY <1>1 DEF Agreement, NoRequestIsLost, NoForeignNotice, ShownIsWatched, ScreenIsSound, Waiting
<1> QED
  BY <1>3, <1>4, <1>5, <1>6, <1>7, <1>8 DEF Agreement

-----------------------------------------------------------------------------
(* The reader. *)

\* A step of the reader with the request it has, or one that drops an old one.
LEMMA ReaderAgrees ==
    ASSUME Agreement, reader' \in Readers, ReaderIsKnown',
           UNCHANGED <<disk, screen, loader, channels, watcher, lost>>,
           \/ reader'.request = reader.request
           \/ reader'.request = Nothing /\ ~InForce
    PROVE  Agreement'
<1> USE DEF screen, loader, channels
<1>0. Types
  BY Typed DEF Agreement
<1>1. TypeOK'
  BY <1>0, TypedNext DEF Types
<1>2. AskedIsTheLast' /\ SlotIsKnown' /\ ResultsAreKnown'
  BY DEF Agreement, AskedIsTheLast, SlotIsKnown, ResultsAreKnown, Waiting
<1>3. ScreenIsSound' /\ WatchIsSound'
  BY DEF Agreement, ScreenIsSound, WatchIsSound, HasDocument, Waiting
<1>4. NoRequestIsLost'
  BY DEF Agreement, NoRequestIsLost, AskedIsTheLast, Waiting, InForce
<1>5. NoForeignNotice' /\ ShownIsWatched'
  BY DEF Agreement, NoForeignNotice, ShownIsWatched, Watching, IdentityOf
<1> QED
  BY <1>1, <1>2, <1>3, <1>4, <1>5 DEF Agreement

LEMMA TakeRequestAgrees ==
    ASSUME Agreement, TakeRequest
    PROVE  Agreement'
<1> USE DEF screen, channels
<1>0. Types
  BY Typed DEF Agreement
<1>1. /\ reader.step = "take" /\ slot # Nothing /\ slot' = Nothing
      /\ UNCHANGED <<disk, screen, current, watch, channels, watcher, lost>>
  BY DEF TakeRequest, Reading
<1>2. /\ reader'.step = "inspect" /\ reader'.request = slot /\ reader'.version = 0
      /\ reader' \in Readers
  <2>1. Resting \in Readers /\ Resting.version = 0
    BY PreviewAssumption DEF Resting, Readers, Version
  <2>2. reader' = [Resting EXCEPT !.step = "inspect", !.request = slot]
    BY DEF TakeRequest
  <2>3. slot \in Request \cup {Nothing}
    BY <1>0 DEF Types
  <2> QED
    BY <2>1, <2>2, <2>3 DEF Readers
<1>3. TypeOK'
  BY <1>0, <1>1, <1>2, TypedNext DEF Types
<1>4. AskedIsTheLast' /\ SlotIsKnown' /\ ResultsAreKnown'
  BY <1>1 DEF Agreement, AskedIsTheLast, SlotIsKnown, ResultsAreKnown, Waiting
<1>5. ReaderIsKnown'
  BY <1>1, <1>2 DEF Agreement, SlotIsKnown, ReaderIsKnown
<1>6. ScreenIsSound' /\ WatchIsSound'
  BY <1>1 DEF Agreement, ScreenIsSound, WatchIsSound, HasDocument, Waiting
<1>7. NoRequestIsLost'
  BY <1>1, <1>2 DEF Agreement, NoRequestIsLost, ReaderIsKnown, AskedIsTheLast, Waiting
<1>8. NoForeignNotice' /\ ShownIsWatched'
  BY <1>1 DEF Agreement, NoForeignNotice, ShownIsWatched, Watching, IdentityOf
<1> QED
  BY <1>3, <1>4, <1>5, <1>6, <1>7, <1>8 DEF Agreement

LEMMA SendAgrees ==
    ASSUME Agreement, Send
    PROVE  Agreement'
<1> USE DEF screen, loader
<1>0. Types
  BY Typed DEF Agreement
<1>1. /\ reader.step = "send" /\ Len(results) < Capacity
      /\ results' = Append(results, Answered) /\ reader' = Resting
      /\ UNCHANGED <<disk, screen, loader, changes, watcher, lost>>
  BY DEF Send, Reading
<1>2. /\ Known(reader.request, asked) /\ reader.answer \in Answer
      /\ Truthful(reader.answer, reader.request, reader.version, disk)
  BY <1>1 DEF Agreement, ReaderIsKnown
<1>3. /\ Answered \in Event
      /\ Answered.request = reader.request /\ Answered.answer = reader.answer
      /\ Answered.version = reader.version
  BY <1>0, <1>2 DEF Answered, Event, Known, Types, Readers
<1>4. /\ results' \in Seq(Event) /\ Len(results') = Len(results) + 1
      /\ \A i \in 1 .. Len(results) : results'[i] = results[i]
      /\ results'[Len(results) + 1] = Answered
      /\ Len(results) \in Nat
  BY <1>0, <1>1, <1>3, AppendProperties DEF Types
<1>5. reader' \in Readers /\ reader'.step = "take" /\ reader'.request = Nothing
  BY <1>1, PreviewAssumption DEF Resting, Readers, Version
<1>6. TypeOK'
  <2>1. Len(results') <= Capacity
    BY <1>1, <1>4, PreviewAssumption
  <2> QED
    BY <1>0, <1>1, <1>4, <1>5, <2>1, TypedNext DEF Types
<1>7. AskedIsTheLast' /\ SlotIsKnown' /\ ReaderIsKnown'
  BY <1>1, <1>5 DEF Agreement, AskedIsTheLast, SlotIsKnown, ReaderIsKnown, Waiting
<1>8. ResultsAreKnown'
  <2> SUFFICES ASSUME NEW i \in 1 .. Len(results')
               PROVE  /\ Known(results'[i].request, asked)
                      /\ Truthful(results'[i].answer, results'[i].request,
                                  results'[i].version, disk)
    BY <1>1 DEF ResultsAreKnown
  <2>1. CASE i \in 1 .. Len(results)
    BY <1>4, <2>1 DEF Agreement, ResultsAreKnown
  <2>2. CASE i = Len(results) + 1
    BY <1>2, <1>3, <1>4, <2>2
  <2> QED
    BY <1>4, <2>1, <2>2
<1>9. ScreenIsSound' /\ WatchIsSound'
  BY <1>1 DEF Agreement, ScreenIsSound, WatchIsSound, HasDocument, Waiting
<1>10. NoRequestIsLost'
  <2> SUFFICES ASSUME Waiting, ui # "fill"
               PROVE  NoRequestIsLost!2'
    BY <1>1 DEF NoRequestIsLost, Waiting
  <2>1. DOMAIN results = 1 .. Len(results) /\ DOMAIN results' = 1 .. Len(results')
    BY <1>0, <1>4 DEF Types
  <2>2. CASE slot = asked
    BY <1>1, <2>2
  <2>3. CASE reader.request = asked
    BY <1>1, <1>3, <1>4, <2>1, <2>3
  <2>4. CASE \E i \in DOMAIN results : results[i].request = asked
    BY <1>1, <1>4, <2>1, <2>4
  <2> QED
    BY <2>2, <2>3, <2>4 DEF Agreement, NoRequestIsLost
<1>11. NoForeignNotice' /\ ShownIsWatched'
  BY <1>1 DEF Agreement, NoForeignNotice, ShownIsWatched, Watching, IdentityOf
<1> QED
  BY <1>6, <1>7, <1>8, <1>9, <1>10, <1>11 DEF Agreement

LEMMA ReadAgrees ==
    ASSUME Agreement, Read
    PROVE  Agreement'
<1>0. Types /\ ReaderIsKnown
  BY Typed DEF Agreement
<1>2. CASE Abandon
  <2>1. /\ reader' = Resting /\ ~InForce
        /\ UNCHANGED <<disk, screen, loader, channels, watcher, lost>>
    BY <1>2 DEF Abandon
  <2>2. reader' \in Readers /\ reader'.step = "take" /\ reader'.request = Nothing
    BY <2>1, PreviewAssumption DEF Resting, Readers, Version
  <2>3. ReaderIsKnown'
    BY <2>2 DEF ReaderIsKnown
  <2> QED
    BY <2>1, <2>2, <2>3, ReaderAgrees
<1>3. ASSUME reader.step \in {"inspect", "read", "done"},
             NEW step \in {"read", "done", "send"}, NEW version \in Version,
             NEW content \in Version, NEW answer \in Answer \cup {Nothing},
             reader' = [step |-> step, request |-> reader.request, version |-> version,
                        content |-> content, answer |-> answer],
             step = "read" => Truthful("document", reader.request, version, disk),
             step # "read" => /\ answer \in Answer
                              /\ Truthful(answer, reader.request, version, disk),
             UNCHANGED <<disk, screen, loader, channels, watcher, lost>>
      PROVE  Agreement'
  <2>1. reader' \in Readers /\ reader'.request = reader.request
    BY <1>0, <1>3 DEF Types, Readers
  <2>2. ReaderIsKnown'
    BY <1>0, <1>3 DEF ReaderIsKnown, screen
  <2> QED
    BY <1>3, <2>1, <2>2, ReaderAgrees
<1>4. /\ reader = [step |-> reader.step, request |-> reader.request,
                   version |-> reader.version, content |-> reader.content,
                   answer |-> reader.answer]
      /\ reader.version \in Version /\ reader.content \in Version
      /\ reader.answer \in Answer \cup {Nothing}
  BY <1>0 DEF Types, Readers
<1>5. reader.step # "take" =>
        /\ reader.request \in Request /\ reader.request.path \in Path
        /\ disk[reader.request.path] \in Version
        /\ 0 \in Version /\ reader.version \in Nat
  BY <1>0, <1>4, PreviewAssumption DEF ReaderIsKnown, Known, Request, Types, Version
<1>6. CASE Inspect
  <2> DEFINE version == disk[reader.request.path]
  <2>1. /\ reader.step = "inspect"
        /\ UNCHANGED <<disk, screen, loader, channels, watcher, lost>>
    BY <1>6 DEF Inspect, Reading
  <2>2. CASE Unexpected(version)
    <3>1. reader' = [step |-> "done", request |-> reader.request, version |-> reader.version,
                     content |-> reader.content, answer |-> "changed"]
      BY <1>4, <1>6, <2>2 DEF Inspect, Answers
    <3>2. version > 0
      BY <1>0, <1>5, <2>1, <2>2 DEF Unexpected, ReaderIsKnown, Sound, Past, Known, Request, Version
    <3>3. Truthful("changed", reader.request, reader.version, disk)
      BY <1>0, <1>5, <2>1, <3>2 DEF Truthful, Past, ReaderIsKnown, Version
    <3> QED
      BY <1>3, <1>4, <2>1, <3>1, <3>3 DEF Answer
  <2>3. CASE ~Unexpected(version)
    <3>1. reader' = [step |-> "read", request |-> reader.request, version |-> version,
                     content |-> reader.content, answer |-> reader.answer]
      BY <1>4, <1>6, <2>3 DEF Inspect
    <3>2. Truthful("document", reader.request, version, disk)
      BY <1>5, <2>1, <2>3 DEF Truthful, Past, Unexpected, Version
    <3> QED
      BY <1>3, <1>4, <1>5, <2>1, <3>1, <3>2
  <2> QED
    BY <2>2, <2>3
<1>7. CASE ReadWindow
  <2>1. /\ reader.step = "read"
        /\ UNCHANGED <<disk, screen, loader, channels, watcher, lost>>
    BY <1>7 DEF ReadWindow, Reading
  <2>2. reader' = [step |-> "done", request |-> reader.request, version |-> reader.version,
                   content |-> disk[reader.request.path], answer |-> "document"]
    BY <1>4, <1>7 DEF ReadWindow
  <2> QED
    BY <1>0, <1>3, <1>4, <1>5, <2>1, <2>2 DEF Answer, ReaderIsKnown
<1>8. CASE LoadFails
  <2>1. /\ reader.step \in {"inspect", "read"}
        /\ UNCHANGED <<disk, screen, loader, channels, watcher, lost>>
    BY <1>8 DEF LoadFails, Reading
  <2>2. reader' = [step |-> "done", request |-> reader.request, version |-> reader.version,
                   content |-> reader.content, answer |-> "failed"]
    BY <1>4, <1>8 DEF LoadFails, Answers
  <2>3. Truthful("failed", reader.request, reader.version, disk)
    BY <1>0, <1>5, <2>1 DEF ReaderIsKnown, Truthful, Past, Version
  <2> QED
    BY <1>3, <1>4, <2>1, <2>2, <2>3 DEF Answer
<1>9. CASE Conclude
  <2>1. /\ reader.step = "done"
        /\ UNCHANGED <<disk, screen, loader, channels, watcher, lost>>
    BY <1>9 DEF Conclude, Reading
  <2>2. reader' = [step |-> "send", request |-> reader.request, version |-> reader.version,
                   content |-> reader.content, answer |-> reader.answer]
    BY <1>4, <1>9 DEF Conclude
  <2> QED
    BY <1>0, <1>3, <1>4, <2>1, <2>2 DEF ReaderIsKnown
<1> QED
  BY <1>2, <1>6, <1>7, <1>8, <1>9, TakeRequestAgrees, SendAgrees DEF Read

-----------------------------------------------------------------------------
(* The watcher. *)

\* The parts that do not see the watcher, the watch or a notice.
LEMMA WatcherLeaves ==
    ASSUME Agreement, Types',
           UNCHANGED <<disk, screen, slot, current, results, reader>>
    PROVE  /\ TypeOK' /\ AskedIsTheLast' /\ SlotIsKnown' /\ ReaderIsKnown'
           /\ ResultsAreKnown' /\ ScreenIsSound' /\ NoRequestIsLost'
           /\ NoForeignNotice'
<1> USE DEF screen
<1>1. TypeOK'
  BY TypedNext
<1>2. AskedIsTheLast' /\ SlotIsKnown' /\ ScreenIsSound' /\ NoRequestIsLost'
  BY DEF Agreement, AskedIsTheLast, SlotIsKnown, ScreenIsSound, NoRequestIsLost,
         HasDocument, Waiting
<1>3. ReaderIsKnown' /\ ResultsAreKnown' /\ NoForeignNotice'
  BY DEF Agreement, ReaderIsKnown, ResultsAreKnown, NoForeignNotice
<1> QED
  BY <1>1, <1>2, <1>3

LEMMA WatchAgrees ==
    ASSUME Agreement, Watch
    PROVE  Agreement'
<1> USE DEF screen, loader, channels
<1>0. Types /\ WatchIsSound
  BY Typed DEF Agreement
<1>1. ASSUME Types', WatchIsSound', ShownIsWatched',
             UNCHANGED <<disk, screen, slot, current, results, reader>>
      PROVE  Agreement'
  BY <1>1, WatcherLeaves DEF Agreement
<1>2. CASE CopyWatch
  <2>1. /\ watcher.step = "wait" /\ watch # Nothing /\ watch \in Identity
        /\ watcher' = [step |-> "look", watched |-> watch]
        /\ UNCHANGED <<disk, screen, loader, channels, reader, lost>>
    BY <1>0, <1>2 DEF CopyWatch, Watching, Types
  <2>2. Types'
    BY <1>0, <2>1 DEF Types, Watchers
  <2>3. WatchIsSound'
    BY <1>0, <2>1 DEF WatchIsSound, HasDocument
  <2>4. ShownIsWatched'
    BY <2>1 DEF Agreement, ShownIsWatched, Watching, IdentityOf
  <2> QED
    BY <1>1, <2>1, <2>2, <2>3, <2>4
<1>3. CASE Look
  <2>1. /\ watcher.step = "look"
        /\ UNCHANGED <<disk, screen, loader, channels, reader, lost>>
    BY <1>3 DEF Look, Watching
  <2>2. /\ watcher'.watched = watcher.watched
        /\ watcher'.step = (IF disk[watcher.watched.path] = watcher.watched.version
                            THEN "wait" ELSE "disarm")
        /\ watcher' \in Watchers
    BY <1>0, <1>3 DEF Look, Watches, Types, Watchers
  <2>3. watcher'.step = "disarm" => disk[watcher.watched.path] > 0
    <3> SUFFICES ASSUME disk[watcher.watched.path] # watcher.watched.version
                 PROVE  disk[watcher.watched.path] > 0
      BY <2>2
    <3>1. /\ watcher.watched.version \in Nat /\ disk[watcher.watched.path] \in Nat
          /\ watcher.watched.version <= disk[watcher.watched.path]
      BY <1>0, <2>1, PreviewAssumption DEF WatchIsSound, Identity, Past, Types, Version
    <3> QED
      BY <3>1
  <2>4. Types'
    BY <1>0, <2>1, <2>2 DEF Types
  <2>5. WatchIsSound'
    BY <1>0, <2>1, <2>2, <2>3 DEF WatchIsSound, HasDocument
  <2>6. ShownIsWatched'
    BY <2>1, <2>2 DEF Agreement, ShownIsWatched, Watching, IdentityOf
  <2> QED
    BY <1>1, <2>1, <2>4, <2>5, <2>6
<1>4. CASE Disarm
  <2>1. /\ watcher.step = "disarm"
        /\ UNCHANGED <<disk, screen, slot, current, channels, reader, lost>>
    BY <1>4 DEF Disarm, Watching
  <2>2. CASE StillWatched /\ watch' = Nothing /\ Watches("tell")
    <3>1. /\ watcher'.step = "tell" /\ watcher'.watched = watcher.watched
          /\ watcher' \in Watchers
      BY <1>0, <2>2 DEF Watches, Types, Watchers
    <3>2. Types'
      BY <1>0, <2>1, <2>2, <3>1 DEF Types
    <3>3. WatchIsSound'
      BY <1>0, <2>1, <2>2, <3>1 DEF WatchIsSound, HasDocument
    <3>4. ShownIsWatched'
      BY <2>1, <2>2, <3>1 DEF Agreement, ShownIsWatched, Watching, IdentityOf, StillWatched
    <3> QED
      BY <1>1, <2>1, <3>2, <3>3, <3>4
  <2>3. CASE watch' = watch /\ Watches("wait")
    <3>1. /\ watcher'.step = "wait" /\ watcher'.watched = watcher.watched
          /\ watcher' \in Watchers
      BY <1>0, <2>3 DEF Watches, Types, Watchers
    <3>2. Types'
      BY <1>0, <2>1, <2>3, <3>1 DEF Types
    <3>3. WatchIsSound'
      BY <1>0, <2>1, <2>3, <3>1 DEF WatchIsSound, HasDocument
    <3>4. ShownIsWatched'
      BY <2>1, <2>3, <3>1 DEF Agreement, ShownIsWatched, Watching, IdentityOf
    <3> QED
      BY <1>1, <2>1, <3>2, <3>3, <3>4
  <2> QED
    BY <1>4, <2>2, <2>3 DEF Disarm
<1>5. CASE Tell
  <2> DEFINE path == watcher.watched.path
  <2>1. /\ watcher.step = "tell"
        /\ UNCHANGED <<disk, screen, loader, results, reader>>
        /\ path \in Path /\ disk[path] > 0
    BY <1>0, <1>5 DEF Tell, Watching, WatchIsSound, Identity
  <2>2. /\ watcher'.step = "wait" /\ watcher'.watched = watcher.watched
        /\ watcher' \in Watchers
    BY <1>0, <1>5 DEF Tell, Watches, Types, Watchers
  <2>3. \/ changes = <<>> /\ changes' = <<path>> /\ lost' = lost
        \/ changes' = changes /\ lost' \in {lost, path} /\ (changes # <<path>> => lost' = path)
    BY <1>5 DEF Tell
  <2>4. /\ changes' \in Seq(Path) /\ Len(changes') <= 1
        /\ \A i \in 1 .. Len(changes') : disk[changes'[i]] > 0
    <3>1. CASE changes' = changes
      BY <1>0, <3>1 DEF Types, WatchIsSound
    <3>2. CASE changes' = <<path>>
      BY <2>1, <3>2
    <3> QED
      BY <2>3, <3>1, <3>2
  <2>5. Types'
    BY <1>0, <2>1, <2>2, <2>3, <2>4 DEF Types
  <2>6. WatchIsSound'
    BY <1>0, <2>1, <2>2, <2>4 DEF WatchIsSound, HasDocument
  <2>7. ShownIsWatched'
    <3> SUFFICES ASSUME preview.state = "Ready", ~preview.changed, ui # "fill"
                 PROVE  ShownIsWatched!2'
      BY <2>1 DEF ShownIsWatched
    <3>1. CASE watch = IdentityOf(preview.document)
      BY <2>1, <3>1 DEF IdentityOf
    <3>2. CASE watcher.watched = IdentityOf(preview.document)
      <4>1. path = preview.document.request.path
        BY <3>2 DEF IdentityOf
      <4> QED
        BY <2>1, <2>3, <4>1
    <3>3. CASE changes = <<preview.document.request.path>>
      <4>1. changes # <<>>
        BY <3>3
      <4> QED
        BY <2>1, <2>3, <3>3, <4>1
    <3>4. CASE lost = preview.document.request.path
      <4>1. path = lost
        BY <1>0, <2>1, <3>4 DEF WatchIsSound, HasDocument
      <4> QED
        BY <2>1, <2>3, <3>4, <4>1
    <3> QED
      BY <3>1, <3>2, <3>3, <3>4 DEF Agreement, ShownIsWatched
  <2> QED
    BY <1>1, <2>1, <2>5, <2>6, <2>7
<1> QED
  BY <1>2, <1>3, <1>4, <1>5 DEF Watch

-----------------------------------------------------------------------------
(* Another program: versions of the past stay there. *)

LEMMA WriteAgrees ==
    ASSUME Agreement, NEW path \in Path, Write(path)
    PROVE  Agreement'
<1> USE DEF screen, loader, channels, threads
<1>0. Types
  BY Typed DEF Agreement
<1>1. UNCHANGED <<screen, loader, channels, threads, lost>>
  BY DEF Write
<1>2. /\ disk' \in [Path -> Version]
      /\ \A p \in Path : disk[p] <= disk'[p] /\ disk[p] \in Nat /\ disk'[p] \in Nat
  BY <1>0, PreviewAssumption DEF Write, Types, Version
<1>3. TypeOK'
  BY <1>0, <1>1, <1>2, TypedNext DEF Types
<1>4. ASSUME NEW p \in Path, NEW version \in Version, Past(p, version, disk)
      PROVE  Past(p, version, disk')
  BY <1>2, <1>4, PreviewAssumption DEF Past, Version
<1>5. ASSUME NEW request \in Request, Sound(request, disk)
      PROVE  Sound(request, disk')
  BY <1>4, <1>5 DEF Sound, Request
<1>6. ASSUME NEW request \in Request, NEW answer, NEW version \in Version,
             Truthful(answer, request, version, disk)
      PROVE  Truthful(answer, request, version, disk')
  <2>1. request.path \in Path
    BY DEF Request
  <2> QED
    BY <1>2, <1>4, <1>6, <2>1 DEF Truthful
<1>7. AskedIsTheLast' /\ SlotIsKnown'
  BY <1>0, <1>1, <1>5 DEF Agreement, AskedIsTheLast, SlotIsKnown, Types, Waiting
<1>8. ReaderIsKnown'
  <2>1. reader.version \in Version
    BY <1>0 DEF Types, Readers
  <2> QED
    BY <1>1, <1>5, <1>6, <2>1 DEF Agreement, ReaderIsKnown, Known
<1>9. ResultsAreKnown'
  <2>1. \A i \in 1 .. Len(results) : results[i].version \in Version
    <3> SUFFICES ASSUME NEW i \in 1 .. Len(results) PROVE results[i].version \in Version
      OBVIOUS
    <3>1. results[i] \in Event
      BY <1>0 DEF Types
    <3> QED
      BY <3>1 DEF Event
  <2> QED
    BY <1>1, <1>6, <2>1 DEF Agreement, ResultsAreKnown, Known
<1>10. ScreenIsSound' /\ NoForeignNotice'
  <2>1. HasDocument => /\ preview.document.request.path \in Path
                       /\ preview.document.version \in Version
    BY DEF Agreement, ScreenIsSound, Document, Request
  <2>2. ScreenIsSound'
    BY <1>1, <1>4, <2>1 DEF Agreement, ScreenIsSound, HasDocument, Waiting
  <2>3. NoForeignNotice'
    BY <1>1, <1>2, <2>1 DEF Agreement, NoForeignNotice, ScreenIsSound
  <2> QED
    BY <2>2, <2>3
<1>11. WatchIsSound'
  <2>1. \A i \in 1 .. Len(changes) : changes[i] \in Path
    BY <1>0 DEF Types
  <2>2. /\ watch # Nothing => watch.path \in Path /\ watch.version \in Version
        /\ watcher.watched \in Identity =>
              watcher.watched.path \in Path /\ watcher.watched.version \in Version
    BY <1>0 DEF Types, Identity
  <2>3. /\ watch # Nothing => Past(watch.path, watch.version, disk')
        /\ watcher.step # "wait" =>
              Past(watcher.watched.path, watcher.watched.version, disk')
    BY <1>4, <2>2 DEF Agreement, WatchIsSound
  <2>4. /\ watcher.step \in {"disarm", "tell"} => disk'[watcher.watched.path] > 0
        /\ \A i \in 1 .. Len(changes) : disk'[changes[i]] > 0
    BY <1>2, <2>1, <2>2 DEF Agreement, WatchIsSound
  <2> QED
    BY <1>1, <2>3, <2>4 DEF Agreement, WatchIsSound, HasDocument
<1>12. NoRequestIsLost' /\ ShownIsWatched'
  BY <1>1 DEF Agreement, NoRequestIsLost, ShownIsWatched, Waiting, Watching, IdentityOf
<1> QED
  BY <1>3, <1>7, <1>8, <1>9, <1>10, <1>11, <1>12 DEF Agreement

-----------------------------------------------------------------------------
LEMMA NextAgrees == Agreement /\ [Next]_vars => Agreement'
<1> SUFFICES ASSUME Agreement, [Next]_vars PROVE Agreement'
  OBVIOUS
<1>1. CASE UNCHANGED vars
  <2> USE DEF vars, screen, loader, channels, threads
  <2>1. TypeOK' /\ AskedIsTheLast' /\ SlotIsKnown' /\ ScreenIsSound'
    BY <1>1, Typed, TypedNext DEF Agreement, Types, AskedIsTheLast, SlotIsKnown,
       ScreenIsSound, Waiting, HasDocument
  <2>2. ReaderIsKnown' /\ ResultsAreKnown' /\ WatchIsSound'
    BY <1>1 DEF Agreement, ReaderIsKnown, ResultsAreKnown, WatchIsSound, HasDocument
  <2>3. NoRequestIsLost' /\ NoForeignNotice' /\ ShownIsWatched'
    BY <1>1 DEF Agreement, NoRequestIsLost, NoForeignNotice, ShownIsWatched,
       Waiting, Watching, IdentityOf
  <2> QED
    BY <2>1, <2>2, <2>3 DEF Agreement
<1>2. CASE Loop
  <2>1. CASE EndResults \/ EndChanges \/ NoKey
    BY <2>1, TurnAgrees DEF EndResults, EndChanges, NoKey
  <2> QED
    BY <1>2, <2>1, DrainResultAgrees, DrainChangeAgrees, SlotAgrees DEF Loop
<1> QED
  BY <1>1, <1>2, PressAgrees, ReadAgrees, WatchAgrees, WriteAgrees DEF Next

LEMMA AlwaysAgrees == Spec => []Agreement
  BY InitAgrees, NextAgrees, PTL DEF Spec

-----------------------------------------------------------------------------
(* A preview that is loading is being loaded, one that is shown is watched or
   its notice is on its way, and no notice marks another file's preview. *)
THEOREM PreviewIsKept == Spec => []PreviewInvariant
<1>1. Agreement => PreviewInvariant
  BY DEF Agreement, PreviewInvariant
<1> QED
  BY <1>1, AlwaysAgrees, PTL

\* Only an answer brings a document: the one to what was asked for last, and of
\* the version that the windows before it have.
LEMMA DocumentsAreAnswers ==
    ASSUME Agreement, [Next]_vars
    PROVE  \/ preview'.document \in {preview.document, Nothing}
           \/ /\ Waiting /\ preview'.document.request = asked
              /\ preview.document # Nothing =>
                    preview'.document.version = preview.document.version
<1> USE DEF screen, loader, channels, threads
<1>0. Types
  BY Typed DEF Agreement
<1>1. CASE DrainResult
  <2> DEFINE event == Head(results)
  <2>1. /\ Known(event.request, asked)
        /\ Truthful(event.answer, event.request, event.version, disk)
    <3>1. results \in Seq(Event) /\ results # <<>>
      BY <1>0, <1>1 DEF DrainResult, Types
    <3>2. event = results[1] /\ 1 \in 1 .. Len(results)
      BY <3>1, HeadTailProperties
    <3> QED
      BY <3>2 DEF Agreement, ResultsAreKnown
  <2> HIDE DEF event
  <2>2. CASE IsCurrent(event) /\ event.answer = "document" /\ Shown(DocumentOf(event))
    <3>1. Waiting /\ event.request = asked
      BY <2>1, <2>2 DEF IsCurrent, Known
    <3>2. /\ preview'.document.request = event.request
          /\ preview'.document.version = event.version
      BY <2>2 DEF Shown, DocumentOf
    <3>3. ASSUME preview.document # Nothing
          PROVE  event.version = preview.document.version
      <4>1. preview.state = "LoadingWindow" /\ preview.document \in Document
        BY <3>1, <3>3 DEF Agreement, ScreenIsSound, HasDocument, Waiting
      <4>2. /\ asked.expected = preview.document.version
            /\ preview.document.version \in Version
        BY <4>1 DEF Agreement, ScreenIsSound, Document
      <4> QED
        BY <2>1, <2>2, <3>1, <4>2, PreviewAssumption DEF Truthful
    <3> QED
      BY <3>1, <3>2, <3>3
  <2>3. ASSUME NEW answer, KeptWindow(answer) PROVE preview'.document = preview.document
    BY <1>0, <2>3 DEF KeptWindow, Types, Previews
  <2>4. CASE preview' = [Closed EXCEPT !.state = "Failed"]
    BY <2>4 DEF Closed
  <2> QED
    BY <1>1, <2>2, <2>3, <2>4 DEF DrainResult, event
<1>2. CASE DrainChange
  BY <1>0, <1>2 DEF DrainChange, Types, Previews
<1>3. CASE Press
  BY <1>0, <1>3 DEF Press, Open, Reload, Page, Close, Closed, Types, Previews
<1>4. CASE UNCHANGED preview
  BY <1>4
<1>5. CASE EndResults \/ EndChanges \/ NoKey \/ FillSlot \/ ClearSlot
  BY <1>4, <1>5 DEF EndResults, EndChanges, NoKey, FillSlot, ClearSlot
<1>6. CASE Read
  BY <1>4, <1>6 DEF Read, TakeRequest, Abandon, Inspect, ReadWindow, LoadFails, Conclude, Send
<1>7. CASE Watch \/ \E path \in Path : Write(path)
  BY <1>4, <1>7 DEF Watch, CopyWatch, Look, Disarm, Tell, Write
<1> QED
  BY <1>1, <1>2, <1>3, <1>4, <1>5, <1>6, <1>7 DEF Next, Loop, vars

(* A document appears only as the answer to what was asked for last. *)
THEOREM TheLastIsShown == Spec => ShowsWhatWasAskedLast
<1>1. Agreement /\ [Next]_vars =>
        [preview'.document \notin {preview.document, Nothing} =>
            Waiting /\ preview'.document.request = asked]_vars
  BY DocumentsAreAnswers
<1> QED
  BY <1>1, AlwaysAgrees, PTL DEF Spec, ShowsWhatWasAskedLast

(* Paging never mixes windows from before and after a write. *)
THEOREM OneVersionIsShown == Spec => WindowsAreOfOneVersion
<1>1. Agreement /\ [Next]_vars =>
        [preview.document # Nothing /\ preview'.document # Nothing =>
            preview'.document.version = preview.document.version]_vars
  BY DocumentsAreAnswers
<1> QED
  BY <1>1, AlwaysAgrees, PTL DEF Spec, WindowsAreOfOneVersion
=============================================================================
