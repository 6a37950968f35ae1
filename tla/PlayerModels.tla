---------------------------- MODULE PlayerModels ----------------------------
(***************************************************************************)
(* What is played, and how one comes to it, side by side: the requests to  *)
(* add-ons and their responses, the views an interface is given, the links *)
(* in them, and the two sides of the player, which are what it fetches and *)
(* chooses for the video and the progress it writes into the library item. *)
(* A behaviour is one of them, told by `part'; they share the selection in *)
(* the code and nothing here.                                              *)
(***************************************************************************)
EXTENDS Loadables

CONSTANTS
  Changed, Episodes, Duration, PushEvery, Others, SeekTo, MaxTime, MaxLoads,   \* PlayerProgress
  Titles, Videos, Library, Groups, Keys, Params, Lookback, States,             \* PlayerResources
  Servers, Sources, Playable, Openable, ExternalPlayers, MaxHops,              \* StreamLinks
  Screens, Collections, Lists, Rows, ShownTitles, Title, Entries, ShownVideos, \* WebViews
  MetaAnswers, Streams, Pages, MaxPages, PreviewSize,
  Descriptors, Paths, Numerals, Bodies, Replies, MaxPaths                      \* AddonTransport

VARIABLES
  part,
  now, library, selected, ready, library_item, pushed, todo, pos, rounds, played, loads,
  disturbed, wanted,                                                     \* progress
  chosen, meta_item, video_params, subtitles, next_video, next_streams, next_stream, skip_gaps,
  intro_outro, stream_state, streams, key, calls, blind,                 \* resources
  streaming_server_url, base_url, links, opened, opened_stream,          \* links
  screen, addons, entries, loaded, reachable, shown_field, told, untold, \* views
  addon, manifest, sent, contents, responses                             \* transport

Progress == INSTANCE PlayerProgress
Resources == INSTANCE PlayerResources WITH selected <- chosen
Links == INSTANCE StreamLinks
  WITH Streams <- Sources, Videos <- Playable, Titles <- Openable, PlayerTypes <- ExternalPlayers,
       selected <- opened, stream <- opened_stream
Views == INSTANCE WebViews
  WITH Titles <- ShownTitles, Videos <- ShownVideos, Metas <- MetaAnswers,
       library <- entries, streams <- loaded, base_url <- reachable, model <- shown_field
Transport == INSTANCE AddonTransport WITH requests <- sent

ASSUME ProgressAssumption ==
  Progress!DurationAssumption /\ Progress!LimitsAssumption /\ Progress!MessageAssumption /\
  Progress!EpisodesAssumption /\ Progress!NoneAssumption

ASSUME ResourcesAssumption ==
  Resources!LookbackAssumption /\ Resources!VideosAssumption /\ Resources!ValuesAssumption

ASSUME LinksAssumption == Links!StreamsAssumption /\ Links!MarksAssumption
ASSUME ViewsAssumption == Views!CollectionsAssumption /\ Views!AnswersAssumption
ASSUME TransportAssumption ==
  Transport!PathsAssumption /\ Transport!PropertiesAssumption /\ Transport!BodiesAssumption

progressVars ==
  <<now, library, selected, ready, library_item, pushed, todo, pos, rounds, played, loads, disturbed, wanted>>
resourceVars ==
  <<chosen, meta_item, video_params, subtitles, next_video, next_streams, next_stream, skip_gaps,
    intro_outro, stream_state, streams, key, calls, blind>>
linkVars == <<streaming_server_url, base_url, links, opened, opened_stream>>
viewVars == <<screen, addons, entries, loaded, reachable, shown_field, told, untold>>
transportVars == <<addon, manifest, sent, contents, responses>>

Parts == {"progress", "resources", "links", "views", "transport"}

playerVars == <<part, progressVars, resourceVars, linkVars, viewVars, transportVars>>

\* The variables of the parts that a behaviour is not of, which no step changes.
NoProgress ==
  /\ now = None /\ library = None /\ selected = None /\ ready = None /\ library_item = None
  /\ pushed = None /\ todo = None /\ pos = None /\ rounds = None /\ played = None /\ loads = None
  /\ disturbed = None /\ wanted = None
NoResources ==
  /\ chosen = None /\ meta_item = None /\ video_params = None /\ subtitles = None
  /\ next_video = None /\ next_streams = None /\ next_stream = None /\ skip_gaps = None
  /\ intro_outro = None /\ stream_state = None /\ streams = None /\ key = None /\ calls = None
  /\ blind = None
NoLinks ==
  /\ streaming_server_url = None /\ base_url = None /\ links = None /\ opened = None
  /\ opened_stream = None
NoViews ==
  /\ screen = None /\ addons = None /\ entries = None /\ loaded = None /\ reachable = None
  /\ shown_field = None /\ told = None /\ untold = None
NoTransport ==
  /\ addon = None /\ manifest = None /\ sent = None /\ contents = None /\ responses = None

Init ==
  /\ part \in Parts
  /\ IF part = "progress" THEN Progress!Init ELSE NoProgress
  /\ IF part = "resources" THEN Resources!Init ELSE NoResources
  /\ IF part = "links" THEN Links!Init ELSE NoLinks
  /\ IF part = "views" THEN Views!Init ELSE NoViews
  /\ IF part = "transport" THEN Transport!Init ELSE NoTransport

Next ==
  /\ UNCHANGED part
  /\ IF part = "progress" THEN Progress!Next ELSE UNCHANGED progressVars
  /\ IF part = "resources" THEN Resources!Next ELSE UNCHANGED resourceVars
  /\ IF part = "links" THEN Links!Next ELSE UNCHANGED linkVars
  /\ IF part = "views" THEN Views!Next ELSE UNCHANGED viewVars
  /\ IF part = "transport" THEN Transport!Next ELSE UNCHANGED transportVars

Spec == Init /\ [][Next]_playerVars
-----------------------------------------------------------------------------
TypeOK ==
  /\ part \in Parts
  /\ part = "progress" => Progress!TypeOK
  /\ part = "resources" => Resources!TypeOK
  /\ part = "links" => Links!TypeOK
  /\ part = "views" => Views!TypeOK
  /\ part = "transport" => Transport!TypeOK

\* What the user sets while a video plays is not undone by a copy that the player
\* took before and hands over later (player.rs:870, player.rs:689).
EditsSurvivePlaying == part = "progress" => Progress!EditsSurvivePlaying

\* A video is counted as watched at most once each time it is loaded or begun
\* (player.rs:522).
WatchedOncePerLoad == part = "progress" => Progress!WatchedOncePerLoad

\* What a stop would lose is less than PushEvery of playing, as long as one plays on
\* without seeking (player.rs:876).
LossIsBounded == part = "progress" => Progress!LossIsBounded

\* The time that makes a video count as watched was played: not so after a seek
\* (player.rs:434).
WatchedWasPlayed == part = "progress" => Progress!WatchedWasPlayed

\* What is under way comes to an end: the messages that the player and the library
\* exchange, which cause one another, and whatever is Loading.
PlayerSettles ==
  /\ part = "progress" => Progress!MessagesSettle
  /\ part = "resources" => Resources!ResourcesAreAnswered

\* The subtitles, their delay and the stream that continues a binge are of the video
\* and the stream selected, whatever was shown before (player.rs:1196, :1042,
\* streams_item.rs:98); and an intro that is taken up while all that gaps are asked
\* for with is known is of the video selected then (player.rs:836).
ShownIsOfVideo ==
  /\ [](part = "resources" =>
          /\ Resources!SubtitlesOfVideo /\ Resources!KnownDelayIsOfStream
          /\ Resources!NextStreamIsOfNextVideo)
  /\ Resources!IntroTakenIsOfVideo

\* What is asked of an add-on is asked under its own names, no two things alike
\* (legacy/mod.rs:161), and of its response all that can be read is there, in order
\* (response.rs:91).  The interface is told of every change of what it is shown, and
\* nothing is twice in it, missing, or an error too early (serialize_meta_details.rs:115).
\* A link in it plays what it was shown for, again if followed again, leads nobody to a
\* server that does not answer, and there is one for every title (stream.rs:756, mod.rs:92).
OffersHold ==
  /\ part = "transport" =>
       /\ Transport!OfferedIsAsked /\ Transport!TellsApart
       /\ Transport!ShowsTheResponse /\ Transport!VideosInOrder
  /\ part = "views" => Views!ViewsAreTold /\ Views!AnswerIsShown /\ Views!ListedOnce
  /\ part = "links" =>
       /\ Links!LinkKeepsStream /\ Links!OfflineLinksWork
       /\ Links!PlayedAgainIsTheSame /\ Links!TitleLeadsSomewhere
=============================================================================
