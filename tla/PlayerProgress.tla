--------------------------- MODULE PlayerProgress ---------------------------
(***************************************************************************)
(* Progress while a video plays (src/models/player.rs): the player keeps a *)
(* copy of the title's library item, updates it as the video app reports   *)
(* time and seeks, and hands it to the library once in a while; whenever   *)
(* the library changes or any resource arrives, the copy is taken anew     *)
(* from the library.                                                       *)
(*                                                                         *)
(* The messages a handler emits are delivered before anything else         *)
(* happens; here each delivery is a step, since a delivery emits again.    *)
(* Time is counted in ticks; the video app reports each tick it plays.     *)
(***************************************************************************)
EXTENDS Integers, Sequences, SequencesExt

CONSTANTS
  None,
  Changed,     \* the message Internal::LibraryChanged
  Episodes,    \* the videos of the title, in order
  Duration,    \* of a video
  PushEvery,   \* PUSH_TO_LIBRARY_EVERY
  Others,      \* the versions other devices have: whether their clocks are ahead
  SeekTo,      \* bound: where the user seeks to
  MaxTime,     \* bound: of the clock
  MaxLoads     \* bound: times a video is loaded

DurationAssumption == Duration \in Nat \ {0} /\ PushEvery \in Nat \ {0}
LimitsAssumption == MaxTime \in Nat /\ MaxLoads \in Nat /\ Others \subseteq BOOLEAN /\ SeekTo \subseteq 0 .. Duration

EpisodeIds == Range(Episodes)

\* LibraryItem, of its state: video_id, time_offset, time_watched, flagged_watched,
\* times_watched, duration and no_notif; ahead is an mtime that is not reached yet.
Item ==
  [removed : BOOLEAN, temp : BOOLEAN, video_id : EpisodeIds \cup {None}, time_offset : Nat,
   time_watched : Nat, flagged : BOOLEAN, times_watched : Nat, duration : {0, Duration},
   no_notif : BOOLEAN, ahead : BOOLEAN]

MessageAssumption == None # Changed /\ {None, Changed} \cap Item = {}
EpisodesAssumption == Episodes \in Seq(EpisodeIds) /\ None \notin EpisodeIds
NoneAssumption == None \notin 0 .. Duration

\* A title that was not in the library.
NewItem ==
  [removed |-> TRUE, temp |-> TRUE, video_id |-> None, time_offset |-> 0, time_watched |-> 0,
   flagged |-> FALSE, times_watched |-> 0, duration |-> 0, no_notif |-> FALSE, ahead |-> FALSE]

VARIABLES
  now,            \* E::now()
  library,        \* the title in ctx.library, or None
  selected,       \* selected: the video of its stream_request, or None
  ready,          \* whether meta_item is Ready
  library_item,   \* library_item
  pushed,         \* push_library_item_time
  todo,           \* the message that is delivered next
  pos,            \* where the video app is, None without one
  rounds,         \* history: deliveries since the last message from outside
  played,         \* history: ticks played since time_watched was last 0
  loads,          \* history: how often a video was loaded, or begun on another device
  disturbed,         \* history: whether, since the load, a seek was not handed over
                  \*   or another device's version came
  wanted          \* history: what the user last set no_notif to

playerVars ==
  <<now, library, selected, ready, library_item, pushed, todo, pos, rounds, played, loads, disturbed, wanted>>

TypeOK ==
  /\ {now, rounds, played, loads, pushed} \subseteq Nat
  /\ library \in Item \cup {None} /\ library_item \in Item \cup {None}
  /\ selected \in EpisodeIds \cup {None} /\ ready \in BOOLEAN
  /\ todo \in {None, Changed} \cup Item
  /\ pos \in 0 .. Duration \cup {None} /\ disturbed \in BOOLEAN /\ wanted \in BOOLEAN
-----------------------------------------------------------------------------
\* next_video_update: the one after video, once the title's videos are known.
HasNext(video, known) == known /\ video \in EpisodeIds /\ video # Last(Episodes)
NextOf(video) == Episodes[(CHOOSE i \in DOMAIN Episodes : Episodes[i] = video) + 1]

StartOffset(video, known) == IF HasNext(video, known) THEN 1 ELSE 0

\* library_item_update
FromLibrary(video, known) ==
  IF video = None THEN None ELSE IF library # None THEN library ELSE IF known THEN NewItem ELSE None

\* library_item_state_update: an item that is at another video starts this one.
Restarts(item, video) == item # None /\ video # None /\ item.video_id \notin {None, video}

\* The copy is taken anew; an item at another video is started and handed back.
Refresh(video, known) ==
  LET item == FromLibrary(video, known) IN
  IF Restarts(item, video)
    THEN /\ library_item' = [item EXCEPT !.time_offset = StartOffset(video, known)]
         /\ todo' = library_item'
    ELSE library_item' = item /\ todo' = None

\* item_state_update: an item past the credits is set to the next video's start.
\* One left while another title is loaded instead is taken from the library right
\* after, so that this counts in Unload only.
PastCredits(item, video, known) ==
  IF item.time_offset * 10 <= item.duration * 9 THEN item
  ELSE IF HasNext(video, known)
    THEN [item EXCEPT !.video_id = NextOf(video), !.time_watched = 0, !.flagged = FALSE, !.time_offset = 1]
    ELSE [item EXCEPT !.time_offset = 0]

\* Changed: every report restarts the time.
Push_Restarted(item) ==
  /\ pushed' = now'
  /\ todo' = IF now' - pushed >= PushEvery THEN item ELSE None

\* push_to_library
Push(item) ==
  IF now' - pushed >= PushEvery
    THEN pushed' = now' /\ todo' = item
    ELSE UNCHANGED pushed /\ todo' = None
-----------------------------------------------------------------------------
Outside == todo = None /\ rounds' = 0

\* ActionLoad::Player.  The app starts at the beginning or where the item is.
Load(video) ==
  /\ Outside /\ loads < MaxLoads
  /\ selected' = video
  /\ Refresh(video, ready)
  /\ pos' \in IF library_item' = None THEN {0} ELSE {0} \cup ({library_item'.time_offset} \cap 0 .. Duration)
  /\ loads' = loads + 1 /\ disturbed' = FALSE
  /\ UNCHANGED <<now, library, ready, pushed, played, wanted>>

\* Action::Unload
Unload ==
  /\ Outside /\ selected # None
  /\ todo' = IF library_item = None THEN None ELSE PastCredits(library_item, selected, ready)
  /\ selected' = None /\ ready' = FALSE /\ library_item' = None /\ pos' = None /\ disturbed' = FALSE
  /\ UNCHANGED <<now, library, pushed, played, loads, wanted>>

\* Internal::ResourceRequestResult, of the title or of anything else.
ResourceRequestResult(known) ==
  /\ Outside /\ selected # None
  /\ ready' = (ready \/ known)
  /\ Refresh(selected, ready')
  /\ UNCHANGED <<now, library, selected, pushed, pos, played, loads, disturbed, wanted>>

\* ActionPlayer::Seek
Seek(time) ==
  /\ Outside /\ pos # None /\ time # pos
  /\ pos' = time /\ now' = now
  /\ IF library_item = None THEN UNCHANGED <<library_item, pushed, todo, disturbed>>
     ELSE /\ library_item' = [library_item EXCEPT !.time_offset = time, !.duration = Duration]
          /\ Push(library_item')
          /\ disturbed' = (disturbed \/ pushed' = pushed)
  /\ UNCHANGED <<library, selected, ready, played, loads, wanted>>

\* Changed: a time that is before the last one is subtracted.
Progress_Backwards(item, time) ==
  LET counted == IF item.video_id # selected
                   THEN [item EXCEPT !.video_id = selected, !.time_watched = 0, !.flagged = FALSE]
                   ELSE [item EXCEPT !.time_watched = @ + (time - item.time_offset)]
  IN [counted EXCEPT !.time_offset = time, !.duration = Duration]

\* TimeChanged, up to the flag: the time since the last report counts as watched.
Progress(item, time) ==
  LET counted == IF item.video_id # selected
                   THEN [item EXCEPT !.video_id = selected, !.time_watched = 0, !.flagged = FALSE]
                   ELSE IF time > item.time_offset
                     THEN [item EXCEPT !.time_watched = @ + (time - item.time_offset)]
                     ELSE item
  IN IF time > item.time_offset THEN [counted EXCEPT !.time_offset = time, !.duration = Duration] ELSE counted

\* Changed: a video may be counted more than once.
Flag_Again(item) ==
  IF item.time_watched * 10 > item.duration * 7
    THEN [item EXCEPT !.flagged = TRUE, !.times_watched = @ + 1]
    ELSE item

\* TimeChanged: a video of which enough was watched counts, once.
Flag(item) ==
  IF ~item.flagged /\ item.time_watched * 10 > item.duration * 7
    THEN [item EXCEPT !.flagged = TRUE, !.times_watched = @ + 1]
    ELSE item

\* TimeChanged: a title that is not in the library is one to continue watching.
Kept(item) ==
  LET removed == item.removed \/ (item.temp /\ item.times_watched = 0) IN
  [item EXCEPT !.removed = removed, !.temp = @ \/ removed]

\* The app plays a tick and reports it: ActionPlayer::TimeChanged.
TimeChanged ==
  /\ Outside /\ pos # None /\ pos < Duration /\ now < MaxTime
  /\ now' = now + 1 /\ pos' = pos + 1
  /\ IF library_item = None THEN UNCHANGED <<library_item, pushed, todo, played>>
     ELSE /\ library_item' = Kept(Flag(Progress(library_item, pos')))
          /\ played' = IF library_item.video_id = selected THEN played + 1 ELSE 0
          /\ Push(library_item')
  /\ UNCHANGED <<library, selected, ready, loads, disturbed, wanted>>

\* ActionPlayer::PausedChanged: the copy is handed over, whenever the last was.
PausedChanged ==
  /\ Outside /\ selected # None
  /\ todo' = library_item
  /\ UNCHANGED <<now, library, selected, ready, library_item, pushed, pos, played, loads, disturbed, wanted>>

\* ActionPlayer::NextVideo; the app then loads that video.
NextVideo ==
  /\ Outside /\ selected # None /\ library_item # None
  /\ library_item' = [library_item EXCEPT !.time_offset = StartOffset(selected, ready)]
  /\ todo' = library_item'
  /\ pos' = None
  /\ UNCHANGED <<now, library, selected, ready, pushed, played, loads, disturbed, wanted>>

\* ToggleLibraryItemNotifications, RemoveFromLibrary, see Notifications.
Edit(item) ==
  /\ Outside /\ item # library
  /\ todo' = item /\ wanted' = item.no_notif
  /\ UNCHANGED <<now, library, selected, ready, library_item, pushed, pos, played, loads, disturbed>>

EditItem ==
  /\ library # None
  /\ \/ Edit([library EXCEPT !.no_notif = ~@])
     \/ Edit([library EXCEPT !.removed = TRUE, !.temp = FALSE])

\* LibraryPullResult, with another device's version.
LibraryPullResult(video, no_notif, ahead) ==
  /\ Outside /\ library # None
  /\ library' = [library EXCEPT !.video_id = video, !.no_notif = no_notif, !.ahead = ahead]
  /\ todo' = Changed /\ wanted' = no_notif /\ disturbed' = TRUE
  /\ IF video = library.video_id THEN UNCHANGED <<played, loads>>
     ELSE played' = library.time_watched /\ loads' = loads + 1 /\ loads < MaxLoads
  /\ UNCHANGED <<now, selected, ready, library_item, pushed, pos>>

\* Time passes without playing.
Tick ==
  /\ Outside /\ now < MaxTime /\ now' = now + 1
  /\ UNCHANGED <<library, selected, ready, library_item, pushed, todo, pos, played, loads, disturbed, wanted>>
-----------------------------------------------------------------------------
\* Changed: the item is taken whether or not it differs.
UpdateLibraryItem_Always ==
  /\ todo \in Item /\ rounds' = rounds + 1
  /\ library' = IF library # None /\ library.ahead THEN library ELSE todo
  /\ todo' = Changed
  /\ UNCHANGED <<now, selected, ready, library_item, pushed, pos, played, loads, disturbed, wanted>>

\* Internal::UpdateLibraryItem, of an item that differs from the library's; the
\* merge leaves the library's in place if it is from the future.
UpdateLibraryItem ==
  /\ todo \in Item /\ rounds' = rounds + 1
  /\ IF library = todo THEN todo' = None /\ UNCHANGED library
     ELSE /\ library' = IF library # None /\ library.ahead THEN library ELSE todo
          /\ todo' = Changed
  /\ UNCHANGED <<now, selected, ready, library_item, pushed, pos, played, loads, disturbed, wanted>>

\* Changed: the player keeps its copy.
LibraryChanged_CopyKept ==
  /\ todo = Changed /\ rounds' = rounds + 1
  /\ todo' = None
  /\ UNCHANGED <<now, library, selected, ready, library_item, pushed, pos, played, loads, disturbed, wanted>>

\* Internal::LibraryChanged
LibraryChanged ==
  /\ todo = Changed /\ rounds' = rounds + 1
  /\ Refresh(selected, ready)
  /\ UNCHANGED <<now, library, selected, ready, pushed, pos, played, loads, disturbed, wanted>>

Init ==
  /\ now = PushEvery /\ pushed = 0
  /\ library \in {None, [NewItem EXCEPT !.removed = FALSE, !.temp = FALSE]}
  /\ selected = None /\ ready = FALSE /\ library_item = None /\ todo = None /\ pos = None
  /\ rounds = 0 /\ played = 0 /\ loads = 0 /\ disturbed = FALSE /\ wanted = FALSE

Next ==
  \/ \E video \in EpisodeIds : Load(video)
  \/ \E known \in BOOLEAN : ResourceRequestResult(known)
  \/ \E time \in SeekTo : Seek(time)
  \/ \E video \in EpisodeIds, no_notif \in BOOLEAN, ahead \in Others : LibraryPullResult(video, no_notif, ahead)
  \/ Unload \/ TimeChanged \/ PausedChanged \/ NextVideo \/ EditItem \/ Tick
  \/ UpdateLibraryItem \/ LibraryChanged

Spec == Init /\ [][Next]_playerVars
-----------------------------------------------------------------------------
\* The messages between the player and the library come to an end: a copy handed
\* over changes the library, which is copied anew, and so on, a few times at most.
MessagesSettle == rounds <= 5

\* What the user sets while a video plays is not undone by a copy that the player
\* took before and hands over later.
EditsSurvivePlaying == todo = None /\ library # None => library.no_notif = wanted

\* A video is counted as watched at most once each time it is loaded or begun.
WatchedOncePerLoad == library # None => library.times_watched <= loads

\* What a stop would lose is less than PushEvery of playing, as long as one plays on without seeking.
LossIsBounded ==
  /\ todo = None /\ library # None /\ library_item # None /\ ~disturbed
  /\ library.video_id = library_item.video_id
  => library_item.time_watched < library.time_watched + PushEvery

\* What the comment at player.rs:436 says: seeking does not count as watching.
WatchedWasPlayed == library # None => library.time_watched <= played
=============================================================================
