-------------------------- MODULE PlayerResources ---------------------------
(***************************************************************************)
(* What the player fetches and derives while a video is shown              *)
(* (src/models/player.rs): the title, its subtitles, the next video and    *)
(* its streams, the gaps other users skipped, and the settings kept with   *)
(* the stream (src/models/ctx/update_streams.rs).                          *)
(*                                                                         *)
(* A stream is known by the video it was listed for and its binge group.   *)
(* A stream's settings are a track, delays, of which the stream they were  *)
(* chosen for is noted, and a speed.                                       *)
(***************************************************************************)
EXTENDS Loadables, Sequences, SequencesExt

CONSTANTS
  Titles,
  Videos,     \* of each title, in order: records of an id and a season
  Library,    \* the titles in the library
  Groups,     \* binge groups
  Keys,       \* keys of premium accounts
  Params,     \* what the app finds out about a video
  Lookback,   \* how many videos before one may have settings for it
  States      \* bound: the tracks and speeds the user chooses between

\* Each title of no videos is a film, and its own video.
VideosOf(title) == IF Videos[title] = <<>> THEN {title} ELSE {v.id : v \in Range(Videos[title])}
VideoIds == UNION {VideosOf(title) : title \in Titles}

Stream == [of : VideoIds, group : Option(Groups)]
State == [track : {"embedded", "addon", "default"}, delay : Option(Stream), speed : BOOLEAN]

MetaRequest(title) == [kind |-> "meta", of |-> title]
SubtitlesRequest(video, params) == [kind |-> "subtitles", of |-> video, params |-> params]
StreamRequest(video) == [kind |-> "stream", of |-> video]
GapsRequest(key, video, params, stream) ==
  [kind |-> "gaps", of |-> video, params |-> params, key |-> key, stream |-> stream]

\* Some, Ready and a future are never taken for None, Loading, Err or a free slot.
LookbackAssumption == Lookback \in Nat /\ States \subseteq [track : {"embedded", "addon", "default"}, speed : BOOLEAN]
VideosAssumption == \A title \in Titles : Videos[title] \in Seq(Range(Videos[title]))
ValuesAssumption ==
  /\ {None, Loading, Failed} \cap (Stream \cup {"ready"}) = {}
  /\ None \notin [title : Titles, video : VideoIds, stream : Stream]
  /\ None \notin [request : {MetaRequest(t) : t \in Titles}, content : Loadable({"ready"})]
  /\ \A v \in VideoIds :
       /\ Free # StreamRequest(v)
       /\ \A p \in Params :
            /\ Free # SubtitlesRequest(v, p)
            /\ \A k \in Keys, stream \in Stream : Free # GapsRequest(k, v, p, stream)
  /\ \A t \in Titles : Free # MetaRequest(t)

VARIABLES
  selected,       \* [title, video, stream], or None
  meta_item,      \* its request and its content, here Ready as "ready"
  video_params,
  subtitles,      \* the request and the content, or None without any
  next_video,     \* its id and the stream put into it
  next_streams,   \* the request and the content, of which one stream stands for all
  next_stream,
  skip_gaps,      \* the request and the content
  intro_outro,    \* the request whose gaps it was computed from
  stream_state,
  streams,        \* ctx.streams.items, of each video: its stream and its state
  key,            \* of ctx.profile.auth, None unless premium
  calls,
  blind           \* history: whether settings changed before the title was known

resourceVars ==
  <<selected, meta_item, video_params, subtitles, next_video, next_streams, next_stream, skip_gaps,
    intro_outro, stream_state, streams, key, calls, blind>>

Loaded(requests, R) == Option([request : requests, content : Loadable(R)])

TypeOK ==
  /\ selected = None \/ selected \in [title : Titles, video : VideoIds, stream : Stream]
  /\ meta_item \in Loaded({MetaRequest(t) : t \in Titles}, {"ready"})
  /\ video_params \in Option(Params) /\ key \in Option(Keys)
  /\ subtitles \in Loaded({SubtitlesRequest(v, p) : v \in VideoIds, p \in Params}, {"ready"})
  /\ next_video \in Option([id : VideoIds, stream : Option(Stream)])
  /\ next_streams \in Loaded({StreamRequest(v) : v \in VideoIds}, Stream)
  /\ next_stream \in Option(Stream) /\ stream_state \in Option(State)
  /\ streams \in [VideoIds -> Option([stream : Stream, state : Option(State)])]
  /\ blind \in BOOLEAN
-----------------------------------------------------------------------------
Ready(resource) == resource # None /\ resource.content \notin {Loading, Failed}

\* resource_update(ResourceRequested): whether the request is made.
Fetches(resource, request) == resource = None \/ resource.request # request
Fetched(resource, request) ==
  IF Fetches(resource, request) THEN [request |-> request, content |-> Loading] ELSE resource

\* resource_update(ResourceRequestResult)
Answered(resource, request, result) ==
  IF resource # None /\ resource.request = request /\ resource.content = Loading
    THEN [resource EXCEPT !.content = result] ELSE resource

Position(title, video) == SelectInSeq(Videos[title], LAMBDA v : v.id = video)

\* next_video_update: the one after, unless that begins the specials; the stream
\* chosen for the next video so far is put into it.
NextVideo(sel, meta, stream) ==
  LET list == Videos[sel.title]
      i == Position(sel.title, sel.video)
  IN IF Ready(meta) /\ i \in 1 .. Len(list) - 1 /\ (list[i + 1].season # 0 \/ list[i].season = 0)
       THEN [id |-> list[i + 1].id, stream |-> stream] ELSE None

\* next_streams_update: without a next video the streams are left as they are.
NextStreams(old, video) == IF video = None THEN old ELSE Fetched(old, StreamRequest(video.id))
NextStreamsRequest(old, video) ==
  IF video # None /\ Fetches(old, StreamRequest(video.id)) THEN {StreamRequest(video.id)} ELSE {}

\* Stream::is_binge_match
BingeMatch(a, b) == a.group # None /\ a.group = b.group

\* next_stream_update
NextStream(list, sel) ==
  IF Ready(list) /\ BingeMatch(list.content, sel.stream) THEN list.content ELSE None

\* series_info_update: the season and episode, for which the video stands.
SeriesInfo(sel, meta) ==
  IF sel # None /\ Ready(meta) /\ Position(sel.title, sel.video) # 0 THEN sel.video ELSE None

\* library_item_update: whether there is a library item.
HasItem(sel, meta) == sel # None /\ (Ready(meta) \/ sel.title \in Library)

\* skip_gaps_update: the request that would be made, None unless all that it needs is there.
WantedGaps(sel, meta, params) ==
  IF key = None \/ params = None \/ SeriesInfo(sel, meta) = None THEN None
  ELSE GapsRequest(key, SeriesInfo(sel, meta), params, sel.stream)

Asks(gaps, wanted) == wanted # None /\ (gaps = None \/ gaps.request # wanted)
Gaps(gaps, wanted) == IF Asks(gaps, wanted) THEN [request |-> wanted, content |-> Loading] ELSE gaps
GapsRequests(gaps, wanted) == IF Asks(gaps, wanted) THEN {wanted} ELSE {}

\* intro_outro_update, after skip_gaps_update.
IntroOutro(gaps, sel, meta) == IF Ready(gaps) /\ HasItem(sel, meta) THEN gaps.request ELSE None
-----------------------------------------------------------------------------
\* StreamsItem::adjusted_state
AdjustedState(item, stream) ==
  IF item = None \/ item.state = None THEN None
  ELSE IF item.stream = stream THEN item.state
  ELSE IF BingeMatch(item.stream, stream)
    THEN [item.state EXCEPT !.track = IF @ = "addon" THEN "default" ELSE @, !.delay = None]
    ELSE [item.state EXCEPT !.track = "default", !.delay = None]

\* StreamsBucket::last_stream_item: of the video or the nearest of those before it.
LastStreamItem(title, video) ==
  LET i == Position(title, video)
      known == {j \in Max({1, i - Lookback}) .. i : streams[Videos[title][j].id] # None}
  IN IF Videos[title] = <<>> THEN streams[video]
     ELSE IF i = 0 \/ known = {} THEN None ELSE streams[Videos[title][Max(known)].id]

\* Internal::StreamLoaded, in update_streams: the stream is noted for its video
\* once it is known, or known not to be available, which title it is of.
StreamLoaded(sel, meta) ==
  LET last == IF Ready(meta) THEN LastStreamItem(sel.title, sel.video) ELSE streams[sel.video] IN
  [streams EXCEPT ![sel.video] = [stream |-> sel.stream, state |-> AdjustedState(last, sel.stream)]]

\* stream_state_update, on Internal::StreamsChanged.
StreamState(sel, bucket) ==
  IF sel = None \/ bucket[sel.video] = None THEN None ELSE bucket[sel.video].state

\* The messages StreamLoaded and StreamsChanged, handled right after.
NoteStream(sel, meta, otherwise) ==
  IF sel # None /\ meta # None /\ meta.content # Loading
    THEN streams' = StreamLoaded(sel, meta) /\ stream_state' = StreamState(sel, streams')
    ELSE UNCHANGED streams /\ stream_state' = otherwise
-----------------------------------------------------------------------------
\* ActionLoad::Player
Load(title, video, stream) ==
  /\ selected' = [title |-> title, video |-> video, stream |-> stream]
  /\ meta_item' = Fetched(meta_item, MetaRequest(title))
  /\ video_params' = None /\ subtitles' = None
  /\ next_video' = NextVideo(selected', meta_item', next_stream)
  /\ next_streams' = NextStreams(next_streams, next_video')
  /\ next_stream' = NextStream(next_streams', selected')
  /\ skip_gaps' = None /\ intro_outro' = None
  /\ NoteStream(selected', meta_item', None)
  /\ calls' \in SentAll(calls, (IF Fetches(meta_item, MetaRequest(title)) THEN {MetaRequest(title)} ELSE {})
                               \cup NextStreamsRequest(next_streams, next_video'))
  /\ UNCHANGED <<key, blind>>

\* Action::Unload
Unload ==
  /\ selected' = None /\ meta_item' = None /\ video_params' = None /\ subtitles' = None
  /\ next_video' = None /\ next_streams' = None /\ next_stream' = None
  /\ skip_gaps' = None /\ stream_state' = None
  /\ UNCHANGED <<intro_outro, streams, key, calls, blind>>

\* ActionPlayer::VideoParamsChanged: subtitles are always asked for anew.
VideoParamsChanged(params) ==
  LET wanted == WantedGaps(selected, meta_item, params)
      request == SubtitlesRequest(selected.video, params)
  IN
  /\ selected # None
  /\ video_params' = params
  /\ subtitles' = [request |-> request, content |-> Loading]
  /\ skip_gaps' = Gaps(skip_gaps, wanted)
  /\ calls' \in SentAll(calls, {request} \cup GapsRequests(skip_gaps, wanted))
  /\ UNCHANGED <<selected, meta_item, next_video, next_streams, next_stream, intro_outro,
                 stream_state, streams, key, blind>>

\* ActionPlayer::StreamStateChanged: of the settings shown, some changed.
StreamStateChanged(track, speed, delayed) ==
  LET shown == IF stream_state = None THEN None ELSE stream_state.delay
      state == [track |-> track, speed |-> speed, delay |-> IF delayed THEN selected.stream ELSE shown]
  IN
  /\ selected # None /\ state # stream_state
  /\ IF streams[selected.video] = None THEN UNCHANGED <<streams, stream_state, blind>>
     ELSE /\ streams' = [streams EXCEPT ![selected.video].state = state]
          /\ stream_state' = state
          /\ blind' = (blind \/ meta_item.content = Loading)
  /\ UNCHANGED <<selected, meta_item, video_params, subtitles, next_video, next_streams,
                 next_stream, skip_gaps, intro_outro, key, calls>>

\* Internal::ResourceRequestResult, for a player that is shown.
ResourceRequestResult(s, result) ==
  LET request == calls[s]
      wanted == WantedGaps(selected, meta_item', video_params)
      listed == Answered(next_streams, request, result)
  IN
  /\ selected # None
  /\ meta_item' = Answered(meta_item, request, result)
  /\ subtitles' = Answered(subtitles, request, result)
  /\ next_video' = NextVideo(selected, meta_item', next_stream)
  /\ next_streams' = NextStreams(listed, next_video')
  /\ next_stream' = NextStream(next_streams', selected)
  /\ NoteStream(IF request.kind = "meta" THEN selected ELSE None, meta_item', stream_state)
  /\ skip_gaps' = Gaps(skip_gaps, wanted)
  /\ calls' \in SentAll(Ended(calls, s), NextStreamsRequest(listed, next_video') \cup GapsRequests(skip_gaps, wanted))
  /\ UNCHANGED <<selected, video_params, intro_outro, key, blind>>

\* The same, for one that was unloaded.
ResultUnseen(s) ==
  /\ selected = None
  /\ calls' = Ended(calls, s)
  /\ UNCHANGED <<selected, meta_item, video_params, subtitles, next_video, next_streams, next_stream,
                 skip_gaps, intro_outro, stream_state, streams, key, blind>>

\* Changed: the gaps asked for are not compared with those now wanted.
SkipGapsResult_NotCompared(s, result) ==
  /\ skip_gaps' = [request |-> calls[s], content |-> result]
  /\ intro_outro' = IntroOutro(skip_gaps', selected, meta_item)
  /\ calls' = Ended(calls, s)
  /\ UNCHANGED <<selected, meta_item, video_params, subtitles, next_video, next_streams, next_stream,
                 stream_state, streams, key, blind>>

\* Internal::SkipGapsResult: it replaces what is there, and is itself replaced by
\* a request for what is wanted.
SkipGapsResult(s, result) ==
  LET got == [request |-> calls[s], content |-> result]
      wanted == WantedGaps(selected, meta_item, video_params)
  IN
  /\ skip_gaps' = Gaps(got, wanted)
  /\ intro_outro' = IntroOutro(skip_gaps', selected, meta_item)
  /\ calls' \in SentAll(Ended(calls, s), GapsRequests(got, wanted))
  /\ UNCHANGED <<selected, meta_item, video_params, subtitles, next_video, next_streams, next_stream,
                 stream_state, streams, key, blind>>

\* Logout and CtxAuthResult, in update_streams and the profile.
SessionChanged(new) ==
  /\ key' = new
  /\ streams' = [v \in VideoIds |-> None] /\ stream_state' = None
  /\ UNCHANGED <<selected, meta_item, video_params, subtitles, next_video, next_streams,
                 next_stream, skip_gaps, intro_outro, calls, blind>>
-----------------------------------------------------------------------------
Init ==
  /\ selected = None /\ meta_item = None /\ video_params = None /\ subtitles = None
  /\ next_video = None /\ next_streams = None /\ next_stream = None
  /\ skip_gaps = None /\ intro_outro = None /\ stream_state = None
  /\ streams = [v \in VideoIds |-> None] /\ key \in Option(Keys)
  /\ calls = NoFlight /\ blind = FALSE

Results(request) ==
  {Failed} \cup IF request.kind = "stream" THEN [of : {request.of}, group : Option(Groups)] ELSE {"ready"}

Answer(s) ==
  /\ calls[s] # Free
  /\ IF calls[s].kind = "gaps"
       THEN \E result \in Results(calls[s]) : SkipGapsResult(s, result)
       ELSE ResultUnseen(s) \/ \E result \in Results(calls[s]) : ResourceRequestResult(s, result)

Next ==
  \/ \E title \in Titles : \E video \in VideosOf(title) :
       \E group \in Option(Groups) : Load(title, video, [of |-> video, group |-> group])
  \/ Unload
  \/ \E params \in Params : VideoParamsChanged(params)
  \/ \E state \in States, delayed \in BOOLEAN : StreamStateChanged(state.track, state.speed, delayed)
  \/ \E s \in Slots : Answer(s)
  \/ \E new \in Option(Keys) : SessionChanged(new)

Spec == Init /\ [][Next]_resourceVars
-----------------------------------------------------------------------------
\* The subtitles shown or under way were asked for with what is known of the video
\* that is selected, whatever was shown before it (player.rs:1196).
SubtitlesOfVideo ==
  subtitles # None =>
    selected # None /\ subtitles.request = SubtitlesRequest(selected.video, video_params)

\* The stream that continues a binge is one listed for the next video, however the
\* results of several loads arrive.
NextStreamIsOfNextVideo == next_video # None /\ next_stream # None => next_stream.of = next_video.id

\* What loads has a request under way that ends it.
ResourcesAreAnswered ==
  \A resource \in {meta_item, subtitles, next_streams, skip_gaps} :
    resource # None /\ resource.content = Loading => UnderWay(calls, resource.request)

\* An intro that is taken up while all that gaps are asked for with is known is of
\* the video selected then: an answer that comes late is not taken for the present one.
IntroTakenIsOfVideo ==
  [][LET wanted == WantedGaps(selected, meta_item, video_params)' IN
     intro_outro' \notin {None, intro_outro} /\ wanted # None => intro_outro' = wanted]_resourceVars

\* What streams_item.rs:89 says of delays: they are for one stream only.
DelayIsOfStream == stream_state # None => stream_state.delay \in {None, selected.stream}

\* The same as long as no settings change before the title is known.
KnownDelayIsOfStream == blind \/ DelayIsOfStream
=============================================================================
