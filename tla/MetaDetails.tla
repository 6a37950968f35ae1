---------------------------- MODULE MetaDetails -----------------------------
(***************************************************************************)
(* The page of a title (src/models/meta_details.rs): what each add-on says *)
(* of it, the streams of one of its videos, the stream last used for it,   *)
(* its library item and how the user rated it.                             *)
(*                                                                         *)
(* The add-ons in use and the account come from the profile; both change   *)
(* while answers are under way.                                            *)
(***************************************************************************)
EXTENDS Loadables, Sequences, SequencesExt

CONSTANTS
  Titles,
  Loads,      \* bound: the selections that are loaded
  Savable,    \* bound: those the library may hold
  Rateable,   \* those whose id and type can be rated
  Bases,      \* add-ons, each of which is asked for titles and for streams
  Collections,\* bound: the add-ons a profile may have, in order
  Users,
  Contents,   \* of each title: what an add-on may say of it
  LastUsed    \* of each title: the add-on of the stream last used, or None

\* A MetaItem, of its videos: the default one, all, and those with streams of their own.
MetaItems == UNION {Contents[t] : t \in Titles}
Videos == Titles \cup ((UNION {m.videos \cup {m.default} : m \in MetaItems}) \ {None})

Selection == [title : Titles, video : Option(Videos), guess : BOOLEAN]
Rating == [of : Titles, user : Users]
Call ==
  [kind : {"meta", "stream"}, base : Bases, of : Videos] \cup
  [kind : {"get", "send"}, of : Titles, user : Users]

\* An add-on is in a profile once.
ProfilesAssumption ==
  /\ \A list \in Collections : list \in Seq(Bases) /\ IsInjective(list)
  /\ None \notin Users
SelectionsAssumption == Loads \subseteq Selection /\ Savable \subseteq Titles
MarksAssumption ==
  /\ \A mark \in {None, Loading, Failed} :
       mark # "streams" /\ mark \notin MetaItems /\ mark \notin Selection /\ mark \notin Rating
  /\ Free \notin Call

MetaRequest(base, title) == [kind |-> "meta", base |-> base, of |-> title]
StreamRequest(base, video) == [kind |-> "stream", base |-> base, of |-> video]
GetRating(title, user) == [kind |-> "get", of |-> title, user |-> user]
SendRating(title, user) == [kind |-> "send", of |-> title, user |-> user]

VARIABLES
  addons, auth,   \* of ctx.profile
  library,        \* the titles in ctx.library
  selected,       \* the title, the video of its stream_path and guess_stream, or None
  meta_items,     \* requests with their contents, in the order of the add-ons
  meta_streams,   \* those the title came with: the video they are of, or None
  streams,        \* requests with their contents
  last_used_stream,
  library_item,   \* whether it is in the library, and the add-on its details are from
  rating_info,    \* the title it is of, and the user
  calls,
  stale,          \* history: whether, with this selection, the profile changed
  guessed         \* history: whether its video was guessed

detailsVars ==
  <<addons, auth, library, selected, meta_items, meta_streams, streams, last_used_stream,
    library_item, rating_info, calls, stale, guessed>>

LoadingOf(resources) == {r \in Range(resources) : r.content = Loading}

TypeOK ==
  /\ addons \in Collections /\ auth \in Option(Users) /\ library \subseteq Titles
  /\ selected \in Option(Selection)
  /\ \A r \in Range(meta_items) : r.content \in Loadable(Contents[r.request.of])
  /\ meta_streams \in Option(Videos)
  /\ \A r \in Range(streams) : r.request.of \in Videos /\ r.content \in Loadable({"streams"})
  /\ calls \in [Slots -> Call \cup {Free}]
  /\ rating_info \in Option(Loadable(Rating)) /\ {stale, guessed} \subseteq BOOLEAN
-----------------------------------------------------------------------------
\* resources_update(ResourcesRequested): what is there for a request is kept.  No
\* request is there twice.
Requested(resources, requests) ==
  [i \in DOMAIN requests |->
     IF \E r \in Range(resources) : r.request = requests[i]
       THEN CHOOSE r \in Range(resources) : r.request = requests[i]
       ELSE [request |-> requests[i], content |-> Loading]]

Unasked(resources, requests) == Range(requests) \ {r.request : r \in Range(resources)}

\* Changed: the request of the result is not compared.
Answered_AnyRequest(resources, request, result) ==
  [i \in DOMAIN resources |->
     IF resources[i].content = Loading THEN [resources[i] EXCEPT !.content = result] ELSE resources[i]]

\* resources_update(ResourceRequestResult)
Answered(resources, request, result) ==
  [i \in DOMAIN resources |->
     IF resources[i].request = request /\ resources[i].content = Loading
       THEN [resources[i] EXCEPT !.content = result] ELSE resources[i]]

Ready(r) == r.content \notin {Loading, Failed}

\* The first add-on's answer, None without any.
FirstReady(items) ==
  LET ready == {i \in DOMAIN items : Ready(items[i])}
  IN IF ready = {} THEN None ELSE items[Min(ready)]

MetaRequests(sel, list) == [i \in DOMAIN list |-> MetaRequest(list[i], sel.title)]

StreamRequests(sel, list) ==
  IF sel.video = None THEN <<>> ELSE [i \in DOMAIN list |-> StreamRequest(list[i], sel.video)]

\* Changed: the first answer is taken though others are still to come.
Guessed_Early(sel, items) ==
  LET first == FirstReady(items) IN
  IF sel.video # None \/ ~sel.guess \/ first = None THEN sel
  ELSE IF first.content.default # None
    THEN [sel EXCEPT !.video = first.content.default, !.guess = FALSE]
    ELSE IF first.content.videos = {}
      THEN [sel EXCEPT !.video = sel.title, !.guess = FALSE] ELSE sel

\* selected_guess_stream_update, once all add-ons answered.
Guessed(sel, items) ==
  LET first == FirstReady(items) IN
  IF sel.video # None \/ ~sel.guess \/ LoadingOf(items) # {} \/ first = None THEN sel
  ELSE IF first.content.default # None
    THEN [sel EXCEPT !.video = first.content.default, !.guess = FALSE]
    ELSE IF first.content.videos = {}
      THEN [sel EXCEPT !.video = sel.title, !.guess = FALSE] ELSE sel

\* meta_streams_update: without a video they are left as they are.
MetaStreams(old, sel, items) ==
  LET first == FirstReady(items) IN
  IF sel.video = None THEN old
  ELSE IF first # None /\ sel.video \in first.content.inline THEN sel.video ELSE None

\* last_used_stream_update: what the add-on of the stream last used answered, or
\* Ready(None), here "none", if it was not asked.
LastUsedStream(sel, items, inline, list) ==
  LET used == {r \in Range(list) : r.request.base = LastUsed[sel.title]} IN
  IF sel = None \/ FirstReady(items) = None THEN None
  ELSE IF sel.video = None \/ (inline = None /\ list = <<>>) THEN None
  ELSE IF inline # None /\ FirstReady(items).request.base = LastUsed[sel.title] THEN "streams"
  ELSE IF used = {} THEN "none" ELSE (CHOOSE r \in used : TRUE).content

\* library_item_update
LibraryItem(sel, items, saved) ==
  LET first == FirstReady(items) IN
  IF sel = None \/ (first = None /\ sel.title \notin saved) THEN None
  ELSE [saved |-> sel.title \in saved, named |-> IF first = None THEN None ELSE first.request.base]

\* rating_info_update: whether the rating is asked for, and what there is then.
AsksRating(sel, user) ==
  /\ user # None /\ sel # None /\ sel.title \in Rateable
  /\ rating_info \in {None, Loading, Failed} \/ rating_info.of # sel.title

RatingInfo(sel, user) ==
  IF user = None \/ sel = None \/ sel.title \notin Rateable THEN None
  ELSE IF AsksRating(sel, user) THEN Loading ELSE rating_info

\* What last_used_stream_update and library_item_update make of the rest.
Derived ==
  /\ last_used_stream' = LastUsedStream(selected', meta_items', meta_streams', streams')
  /\ library_item' = LibraryItem(selected', meta_items', library)

\* The updates Load and ProfileChanged share, with the selection made before them.
Refreshed(sel, before, list, user) ==
  /\ meta_streams' = MetaStreams(meta_streams, sel, meta_items')
  /\ streams' = Requested(streams, StreamRequests(sel, list))
  /\ rating_info' = RatingInfo(sel, user)
  /\ calls' \in SentAll(calls, Unasked(meta_items, MetaRequests(before, list))
                               \cup Unasked(streams, StreamRequests(sel, list))
                               \cup IF AsksRating(sel, user) THEN {GetRating(sel.title, user)} ELSE {})
-----------------------------------------------------------------------------
\* ActionLoad::MetaDetails.  The message library_item_sync emits is LibrarySync's.
Load(title, video, guess) ==
  LET sel == [title |-> title, video |-> video, guess |-> guess] IN
  /\ meta_items' = Requested(meta_items, MetaRequests(sel, addons))
  /\ selected' = Guessed(sel, meta_items')
  /\ Refreshed(selected', sel, addons, auth)
  /\ Derived /\ stale' = FALSE /\ guessed' = (selected' # sel)
  /\ UNCHANGED <<addons, auth, library>>

\* Action::Unload
Unload ==
  /\ selected' = None /\ meta_items' = <<>> /\ meta_streams' = None /\ streams' = <<>>
  /\ last_used_stream' = None /\ library_item' = None /\ rating_info' = None
  /\ stale' = FALSE /\ guessed' = FALSE
  /\ UNCHANGED <<addons, auth, library, calls>>

\* LibraryChanged, after a change of whether a title is in the library.
LibraryChanged(saved) ==
  /\ library' = saved
  /\ library_item' = LibraryItem(selected, meta_items, saved)
  /\ UNCHANGED <<addons, auth, selected, meta_items, meta_streams, streams, last_used_stream,
                 rating_info, calls, stale, guessed>>

\* MarkAsWatched, MarkVideoAsWatched, MarkSeasonAsWatched: the library item is
\* saved; the latter two need the title's videos.
Mark(kind) ==
  /\ library_item # None /\ (kind = "title" \/ library_item.named # None)
  /\ LibraryChanged(library \cup {selected.title})

\* ActionMetaDetails::Rate
Rate ==
  /\ rating_info # None /\ selected # None /\ auth # None
  /\ rating_info' = Loading
  /\ calls' \in Sent(calls, SendRating(selected.title, auth))
  /\ UNCHANGED <<addons, auth, library, selected, meta_items, meta_streams, streams,
                 last_used_stream, library_item, stale, guessed>>

\* ResourceRequestResult of a title.
MetaResult(s, result) ==
  /\ selected # None
  /\ meta_items' = Answered(meta_items, calls[s], result)
  /\ selected' = Guessed(selected, meta_items')
  /\ meta_streams' = MetaStreams(meta_streams, selected', meta_items')
  /\ IF selected' = selected THEN streams' = streams /\ calls' = Ended(calls, s)
     ELSE /\ streams' = Requested(streams, StreamRequests(selected', addons))
          /\ calls' \in SentAll(Ended(calls, s), Unasked(streams, StreamRequests(selected', addons)))
  /\ Derived /\ guessed' = (guessed \/ selected' # selected)
  /\ UNCHANGED <<addons, auth, library, rating_info, stale>>

\* ResourceRequestResult of streams.
StreamResult(s, result) ==
  /\ selected # None
  /\ streams' = Answered(streams, calls[s], result)
  /\ last_used_stream' = LastUsedStream(selected, meta_items, meta_streams, streams')
  /\ calls' = Ended(calls, s)
  /\ UNCHANGED <<addons, auth, library, selected, meta_items, meta_streams, library_item,
                 rating_info, stale, guessed>>

\* Either, with nothing to take it.
ResultUnseen(s) ==
  /\ selected = None
  /\ calls' = Ended(calls, s)
  /\ UNCHANGED <<addons, auth, library, selected, meta_items, meta_streams, streams,
                 last_used_stream, library_item, rating_info, stale, guessed>>

\* RatingGetStatusResult, RatingSendResult
RatingResult(s, result) ==
  /\ rating_info' = IF selected = None \/ selected.title # calls[s].of THEN rating_info
                    ELSE IF result = Failed THEN Failed ELSE [of |-> calls[s].of, user |-> calls[s].user]
  /\ calls' = Ended(calls, s)
  /\ UNCHANGED <<addons, auth, library, selected, meta_items, meta_streams, streams,
                 last_used_stream, library_item, stale, guessed>>

\* Internal::ProfileChanged, after add-ons or the account changed.
ProfileChanged(list, user) ==
  /\ addons' = list /\ auth' = user
  /\ IF selected = None
       THEN UNCHANGED <<meta_items, meta_streams, streams, calls>> /\ rating_info' = None
       ELSE /\ meta_items' = Requested(meta_items, MetaRequests(selected, list))
            /\ Refreshed(selected, selected, list, user)
  /\ stale' = (selected # None) /\ UNCHANGED <<selected, library, guessed>>
  /\ Derived
-----------------------------------------------------------------------------
Init ==
  /\ addons \in Collections /\ auth \in Option(Users) /\ library = {}
  /\ selected = None /\ meta_items = <<>> /\ meta_streams = None /\ streams = <<>>
  /\ last_used_stream = None /\ library_item = None /\ rating_info = None
  /\ calls = NoFlight /\ stale = FALSE /\ guessed = FALSE

Answer(s) ==
  /\ calls[s] # Free
  /\ \/ calls[s].kind = "meta" /\ \E r \in Contents[calls[s].of] \cup {Failed} : MetaResult(s, r)
     \/ calls[s].kind = "stream" /\ \E r \in {"streams", Failed} : StreamResult(s, r)
     \/ calls[s].kind \in {"meta", "stream"} /\ ResultUnseen(s)
     \/ calls[s].kind \in {"get", "send"} /\ \E r \in {"rating", Failed} : RatingResult(s, r)

Next ==
  \/ \E load \in Loads : Load(load.title, load.video, load.guess)
  \/ Unload \/ Rate
  \/ \E saved \in SUBSET Savable : saved # library /\ LibraryChanged(saved)
  \/ \E kind \in {"title", "video"} : Mark(kind)
  \/ \E s \in Slots : Answer(s)
  \/ \E list \in Collections, user \in Option(Users) :
       <<list, user>> # <<addons, auth>> /\ ProfileChanged(list, user)

Spec == Init /\ [][Next]_detailsVars
-----------------------------------------------------------------------------
\* The streams shown or under way are those that the add-ons in use have for the
\* video that is selected, be it chosen or guessed from answers that came in any order.
StreamsOfVideo ==
  IF selected = None THEN streams = <<>>
  ELSE [i \in DOMAIN streams |-> streams[i].request] = StreamRequests(selected, addons)

\* What is computed of other parts, the stream last used and the library item, is
\* what those parts make of it now: every handler that changes one recomputes both.
DerivedIsCurrent ==
  /\ last_used_stream = LastUsedStream(selected, meta_items, meta_streams, streams)
  /\ library_item = LibraryItem(selected, meta_items, library)

\* What loads has a request under way that ends it.
DetailsAreAnswered ==
  /\ \A r \in LoadingOf(meta_items) \cup LoadingOf(streams) : UnderWay(calls, r.request)
  /\ rating_info = Loading => \E s \in Slots : calls[s] # Free /\ calls[s].kind \in {"get", "send"}
                                               /\ calls[s].of = selected.title

\* The rating shown is of the title shown, though answers for others still arrive.
RatingOfTitle == rating_info \notin {None, Loading, Failed} => selected # None /\ rating_info.of = selected.title

\* The video the first add-on in order proposes, of those that know the title.
Proposed ==
  LET first == FirstReady(meta_items) IN
  IF first = None THEN None
  ELSE IF first.content.default # None THEN first.content.default
  ELSE IF first.content.videos = {} THEN selected.title ELSE None

\* A video that is guessed is that of the first add-on that knows the title, in the
\* order of the profile and not in that of the answers, and none is left to guess
\* once all have answered (meta_details.rs:384), while the profile stays as it is.
GuessIsOfFirst ==
  selected # None /\ ~stale =>
    /\ guessed => selected.video = Proposed
    /\ selected.guess /\ selected.video = None /\ LoadingOf(meta_items) = {} => Proposed = None
=============================================================================
