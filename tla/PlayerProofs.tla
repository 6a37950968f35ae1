---------------------------- MODULE PlayerProofs ----------------------------
(***************************************************************************)
(* Proofs about PlayerModels for any episodes, duration, clock, titles,    *)
(* streams, servers, add-ons and answers, and any number of requests under *)
(* way.                                                                    *)
(*                                                                         *)
(* What the player promises of progress is about the library's item when   *)
(* nothing is under way; the invariants say of the player's copy and of    *)
(* the message under way what that item will be.  Three of them need that  *)
(* no other device's clock is ahead (NoneAhead): an item from the future   *)
(* keeps what the player hands over out of the library, and then they are  *)
(* false.                                                                  *)
(*                                                                         *)
(* Of the transport, the views and the links the invariants are short, and *)
(* the lemmas say what is computed: sets put in order, sequences of which  *)
(* some elements are kept, queries of a request, conversions of a stream.  *)
(***************************************************************************)
EXTENDS PlayerModels, Integers, Sequences, FiniteSetTheorems, SequenceTheorems, WellFoundedInduction, TLAPS

(* Progress *)

Item == Progress!Item

NoneAhead == Others \subseteq {FALSE}

\* The library's item, the player's and the one under way, as far as there are any.
Copies == {library, library_item, todo} \ {None, Changed}

ProgressInv ==
  /\ Progress!TypeOK
  /\ pos # None => selected # None
  /\ todo = Changed => library # None

\* A copy that may be counted again is one that was loaded or begun since.
CountedInv ==
  /\ pos # None => loads > 0
  /\ \A x \in Copies :
       /\ x.times_watched <= loads
       /\ pos # None /\ (x.video_id # selected \/ ~x.flagged) => x.times_watched < loads

AheadInv == \A x \in Copies : ~x.ahead

\* What the user set is in the library, or in the message that brings it there;
\* the player's copy may be older only if it is taken anew before it is handed over.
EditInv ==
  /\ library = None => ~wanted
  /\ todo = None => \A x \in Copies : x.no_notif = wanted
  /\ todo = Changed => library.no_notif = wanted
  /\ todo \in Item =>
       /\ todo.no_notif = wanted
       /\ todo = library /\ library_item # None => library_item.no_notif = wanted

\* How many deliveries there can be after that of an item.
Restarted(x) == ~Progress!Restarts(x, selected) \/ x.time_offset = Progress!StartOffset(selected, ready)

RoundsInv ==
  /\ rounds <= 5
  /\ todo \in Item => rounds + (IF todo = library THEN 1 ELSE IF Restarted(todo) THEN 3 ELSE 5) <= 5
  /\ todo = Changed => rounds + (IF Restarted(library) THEN 2 ELSE 4) <= 5

\* A copy of the video played that is close to where the app is: what was played
\* since is no longer than what passed since the last copy was handed over.
Near(x) ==
  pos # None /\ x.video_id = selected => pos <= x.time_offset + (now - pushed) /\ pos < x.time_offset + PushEvery

\* The copies of one video differ in what was played since.
SameVideo(x, y) ==
  IF pos # None /\ x.video_id = selected
    THEN x.time_watched + y.time_offset = y.time_watched + x.time_offset
         /\ (x.time_offset <= pos \/ x.time_offset <= y.time_offset)
    ELSE x.time_watched = y.time_watched

LossInv ==
  /\ pushed <= now
  /\ disturbed \/
       /\ library_item # None => Near(library_item)
       /\ todo \in Item =>
            /\ Near(todo)
            /\ selected # None => library_item # None
            /\ todo = library /\ library_item # None => library_item = library
       /\ todo \in {None, Changed} /\ library # None => Near(library)
       /\ todo = None /\ library # None =>
            /\ selected # None => library_item # None
            /\ library_item # None =>
                 /\ library_item.video_id \in {library.video_id, selected}
                 /\ library_item.video_id = library.video_id => SameVideo(library_item, library)
-----------------------------------------------------------------------------
(* The operators of PlayerProgress *)

LEMMA ItemFields ==
  ASSUME NEW x \in Item
  PROVE  /\ x \notin {None, Changed}
         /\ x.removed \in BOOLEAN /\ x.temp \in BOOLEAN /\ x.flagged \in BOOLEAN
         /\ x.no_notif \in BOOLEAN /\ x.ahead \in BOOLEAN
         /\ x.video_id \in Progress!EpisodeIds \cup {None}
         /\ x.time_offset \in Nat /\ x.time_watched \in Nat /\ x.times_watched \in Nat
         /\ x.duration \in {0, Duration}
BY ProgressAssumption DEF Progress!MessageAssumption, Item, Progress!Item

LEMMA NewItemFields ==
  /\ Progress!NewItem \in Item
  /\ Progress!NewItem.video_id = None /\ Progress!NewItem.times_watched = 0
  /\ Progress!NewItem.no_notif = FALSE /\ Progress!NewItem.ahead = FALSE
BY DEF Item, Progress!Item, Progress!NewItem

LEMMA NextOfIsEpisode ==
  ASSUME NEW video, NEW known, Progress!HasNext(video, known)
  PROVE  Progress!NextOf(video) \in Progress!EpisodeIds
<1> DEFINE at == CHOOSE i \in DOMAIN Episodes : Episodes[i] = video
<1>1. Episodes \in Seq(Progress!EpisodeIds)
  BY ProgressAssumption DEF Progress!EpisodesAssumption
<1>2. at \in 1 .. Len(Episodes) /\ Episodes[at] = video
  BY <1>1 DEF Progress!HasNext, Progress!EpisodeIds, Progress!Range
<1>3. at # Len(Episodes)
  BY <1>2 DEF Progress!HasNext, Progress!Last
<1>4. at + 1 \in 1 .. Len(Episodes)
  BY <1>1, <1>2, <1>3
<1> QED
  BY <1>1, <1>4 DEF Progress!NextOf

LEMMA StartOffsetIs == \A video, known : Progress!StartOffset(video, known) \in {0, 1}
BY DEF Progress!StartOffset

\* The copy that is taken anew.
LEMMA RefreshIs ==
  ASSUME library \in Item \cup {None}, NEW video, NEW known, Progress!Refresh(video, known)
  PROVE  IF Progress!Restarts(library, video)
           THEN /\ library \in Item
                /\ library_item' = [library EXCEPT !.time_offset = Progress!StartOffset(video, known)]
                /\ library_item' \in Item /\ todo' = library_item'
           ELSE /\ todo' = None
                /\ library_item' = IF video = None THEN None ELSE IF library # None THEN library
                                   ELSE IF known THEN Progress!NewItem ELSE None
<1>1. CASE video = None
  BY <1>1 DEF Progress!Refresh, Progress!FromLibrary, Progress!Restarts
<1>2. CASE video # None /\ library = None
  BY <1>2, NewItemFields DEF Progress!Refresh, Progress!FromLibrary, Progress!Restarts
<1>3. CASE video # None /\ library \in Item
  <2>1. library # None
    BY <1>3, ItemFields
  <2> QED
    BY <1>3, <2>1, StartOffsetIs DEF Progress!Refresh, Progress!FromLibrary, Progress!Restarts, Item, Progress!Item
<1> QED
  BY <1>1, <1>2, <1>3

LEMMA RefreshKeepsTypes ==
  ASSUME library \in Item \cup {None}, NEW video, NEW known, Progress!Refresh(video, known)
  PROVE  library_item' \in Item \cup {None} /\ todo' \in Item \cup {None}
BY RefreshIs, NewItemFields

\* What a copy has in common with the one it was made from.
Like(y, x) ==
  /\ y.video_id = x.video_id /\ y.times_watched = x.times_watched
  /\ y.flagged = x.flagged /\ y.no_notif = x.no_notif /\ y.ahead = x.ahead

\* What is changed of a copy.
LEMMA ItemOffset ==
  ASSUME NEW x \in Item, NEW n \in Nat
  PROVE  LET y == [x EXCEPT !.time_offset = n] IN
         y \in Item /\ y.time_offset = n /\ Like(y, x) /\ y.time_watched = x.time_watched
BY DEF Item, Progress!Item, Like

LEMMA ItemTimed ==
  ASSUME NEW x \in Item, NEW n \in Nat
  PROVE  LET y == [x EXCEPT !.time_offset = n, !.duration = Duration] IN
         /\ y \in Item /\ y.time_offset = n /\ y.flagged = x.flagged
         /\ y.video_id = x.video_id /\ y.no_notif = x.no_notif /\ y.ahead = x.ahead
         /\ y.time_watched = x.time_watched /\ y.times_watched = x.times_watched
BY DEF Item, Progress!Item

LEMMA ItemWatched ==
  ASSUME NEW x \in Item, NEW n \in Nat
  PROVE  LET y == [x EXCEPT !.time_watched = n] IN
         /\ y \in Item /\ y.time_watched = n /\ y.flagged = x.flagged
         /\ y.video_id = x.video_id /\ y.no_notif = x.no_notif /\ y.ahead = x.ahead
         /\ y.time_offset = x.time_offset /\ y.times_watched = x.times_watched
BY DEF Item, Progress!Item

LEMMA ItemBegun ==
  ASSUME NEW x \in Item, NEW v \in Progress!EpisodeIds
  PROVE  LET y == [x EXCEPT !.video_id = v, !.time_watched = 0, !.flagged = FALSE] IN
         /\ y \in Item /\ y.time_watched = 0 /\ y.flagged = FALSE
         /\ y.video_id = v /\ y.no_notif = x.no_notif /\ y.ahead = x.ahead
         /\ y.time_offset = x.time_offset /\ y.times_watched = x.times_watched
BY DEF Item, Progress!Item

LEMMA ItemFlagged ==
  ASSUME NEW x \in Item, NEW n \in Nat
  PROVE  LET y == [x EXCEPT !.flagged = TRUE, !.times_watched = n] IN
         /\ y \in Item /\ y.times_watched = n /\ y.flagged = TRUE
         /\ y.video_id = x.video_id /\ y.no_notif = x.no_notif /\ y.ahead = x.ahead
         /\ y.time_watched = x.time_watched /\ y.time_offset = x.time_offset
BY DEF Item, Progress!Item

\* The copy after a report of the app.
Reported(item, time) == Progress!Kept(Progress!Flag(Progress!Progress(item, time)))

LEMMA ReportedIs ==
  ASSUME NEW item \in Item, NEW time \in Nat, selected \in Progress!EpisodeIds
  PROVE  LET x == Reported(item, time) IN
         /\ x \in Item
         /\ x.video_id = selected /\ x.no_notif = item.no_notif /\ x.ahead = item.ahead
         /\ x.time_offset = IF time > item.time_offset THEN time ELSE item.time_offset
         /\ x.time_watched = IF item.video_id # selected THEN 0
                             ELSE IF time > item.time_offset THEN item.time_watched + (time - item.time_offset)
                             ELSE item.time_watched
         /\ IF item.video_id = selected /\ item.flagged
              THEN x.flagged /\ x.times_watched = item.times_watched
              ELSE x.times_watched = item.times_watched + (IF x.flagged THEN 1 ELSE 0)
<1> DEFINE p == Progress!Progress(item, time)
           f == Progress!Flag(p)
<1>1. /\ p \in Item
      /\ p.video_id = selected /\ p.no_notif = item.no_notif /\ p.ahead = item.ahead
      /\ p.time_offset = IF time > item.time_offset THEN time ELSE item.time_offset
      /\ p.time_watched = IF item.video_id # selected THEN 0
                          ELSE IF time > item.time_offset THEN item.time_watched + (time - item.time_offset)
                          ELSE item.time_watched
      /\ (p.flagged <=> item.video_id = selected /\ item.flagged)
      /\ p.times_watched = item.times_watched
  <2> DEFINE begun == [item EXCEPT !.video_id = selected, !.time_watched = 0, !.flagged = FALSE]
             later == [item EXCEPT !.time_watched = item.time_watched + (time - item.time_offset)]
             at(x) == [x EXCEPT !.time_offset = time, !.duration = Duration]
  <2>0. /\ item.time_offset \in Nat /\ item.time_watched \in Nat
        /\ time > item.time_offset => item.time_watched + (time - item.time_offset) \in Nat
    BY ItemFields
  <2>1. CASE item.video_id # selected
    <3>1. p = IF time > item.time_offset THEN at(begun) ELSE begun
      BY <2>1 DEF Progress!Progress
    <3>2. /\ begun \in Item /\ begun.video_id = selected /\ begun.no_notif = item.no_notif
          /\ begun.ahead = item.ahead /\ begun.times_watched = item.times_watched
          /\ begun.flagged = FALSE /\ begun.time_offset = item.time_offset /\ begun.time_watched = 0
      BY ItemBegun
    <3> HIDE DEF p, begun
    <3>3. /\ at(begun) \in Item /\ at(begun).video_id = selected /\ at(begun).no_notif = item.no_notif
          /\ at(begun).ahead = item.ahead /\ at(begun).times_watched = item.times_watched
          /\ at(begun).flagged = FALSE /\ at(begun).time_offset = time /\ at(begun).time_watched = 0
      BY <3>2, ItemTimed
    <3> HIDE DEF at
    <3>4. CASE time > item.time_offset
      BY <2>1, <3>1, <3>3, <3>4
    <3>5. CASE ~(time > item.time_offset)
      BY <2>1, <3>1, <3>2, <3>5
    <3> QED
      BY <3>4, <3>5
  <2>2. CASE item.video_id = selected
    <3>1. p = IF time > item.time_offset THEN at(later) ELSE item
      BY <2>2 DEF Progress!Progress
    <3> HIDE DEF p
    <3>2. CASE time > item.time_offset
      <4>1. /\ later \in Item /\ later.video_id = selected /\ later.no_notif = item.no_notif
          /\ later.ahead = item.ahead /\ later.times_watched = item.times_watched
          /\ later.flagged = item.flagged /\ later.time_offset = item.time_offset /\ later.time_watched = item.time_watched + (time - item.time_offset)
        BY <2>0, <2>2, <3>2, ItemWatched
      <4> HIDE DEF later
      <4>2. /\ at(later) \in Item /\ at(later).video_id = selected /\ at(later).no_notif = item.no_notif
          /\ at(later).ahead = item.ahead /\ at(later).times_watched = item.times_watched
          /\ at(later).flagged = item.flagged /\ at(later).time_offset = time /\ at(later).time_watched = item.time_watched + (time - item.time_offset)
        BY <4>1, ItemTimed
      <4> HIDE DEF at
      <4> QED
        BY <2>2, <3>1, <3>2, <4>2
    <3>3. CASE ~(time > item.time_offset)
      BY <2>2, <3>1, <3>3
    <3> QED
      BY <3>2, <3>3
  <2> QED
    BY <2>1, <2>2
<1>2. /\ f \in Item
      /\ f.video_id = p.video_id /\ f.no_notif = p.no_notif /\ f.ahead = p.ahead
      /\ f.time_offset = p.time_offset /\ f.time_watched = p.time_watched
      /\ IF p.flagged THEN f.flagged /\ f.times_watched = p.times_watched
         ELSE f.times_watched = p.times_watched + (IF f.flagged THEN 1 ELSE 0)
  <2> HIDE DEF p
  <2>1. p.times_watched \in Nat
    BY <1>1, ItemFields
  <2>2. CASE ~p.flagged /\ p.time_watched * 10 > p.duration * 7
    <3>1. f = [p EXCEPT !.flagged = TRUE, !.times_watched = p.times_watched + 1]
      BY <2>2 DEF Progress!Flag
    <3> HIDE DEF f
    <3>0. /\ p \in Item /\ p.times_watched + 1 \in Nat
      BY <1>1, <2>1
    <3>2. /\ f \in Item
          /\ f.video_id = p.video_id /\ f.no_notif = p.no_notif /\ f.ahead = p.ahead
          /\ f.time_offset = p.time_offset /\ f.time_watched = p.time_watched
          /\ f.flagged = TRUE /\ f.times_watched = p.times_watched + 1
      BY <3>0, <3>1, ItemFlagged
    <3> QED
      BY <2>2, <3>2
  <2>3. CASE ~(~p.flagged /\ p.time_watched * 10 > p.duration * 7)
    <3>1. f = p
      BY <2>3 DEF Progress!Flag
    <3>2. ~p.flagged => p.times_watched = p.times_watched + 0
      BY <2>1
    <3> QED
      BY <1>1, <3>1, <3>2
  <2> QED
    BY <2>2, <2>3
<1>3. LET x == Progress!Kept(f) IN
      /\ x \in Item
      /\ x.video_id = f.video_id /\ x.no_notif = f.no_notif /\ x.ahead = f.ahead
      /\ x.time_offset = f.time_offset /\ x.time_watched = f.time_watched
      /\ (x.flagged <=> f.flagged) /\ x.times_watched = f.times_watched
  <2> HIDE DEF f
  <2> QED
    BY <1>2 DEF Progress!Kept, Item, Progress!Item
<1> HIDE DEF p, f
<1> QED
  BY <1>1, <1>2, <1>3 DEF Reported, p, f

\* The copy that is handed over when the player is left.
LEMMA PastCreditsIs ==
  ASSUME NEW item \in Item, NEW video, NEW known
  PROVE  LET x == Progress!PastCredits(item, video, known) IN
         /\ x \in Item /\ x.times_watched = item.times_watched
         /\ x.no_notif = item.no_notif /\ x.ahead = item.ahead
BY NextOfIsEpisode DEF Progress!PastCredits, Item, Progress!Item
LEMMA RefreshLike ==
  ASSUME library \in Item \cup {None}, NEW video, NEW known, Progress!Refresh(video, known)
  PROVE  /\ library_item' \in Item \cup {None} /\ todo' \in {None, library_item'}
         /\ library_item' # None =>
              \/ library = None /\ library_item' = Progress!NewItem
              \/ library \in Item /\ Like(library_item', library)
<1>1. CASE Progress!Restarts(library, video)
  <2>1. library \in Item /\ Progress!StartOffset(video, known) \in Nat
    BY <1>1, RefreshIs, StartOffsetIs
  <2> QED
    BY <1>1, <2>1, RefreshIs, ItemOffset
<1>2. CASE ~Progress!Restarts(library, video)
  BY <1>2, RefreshIs, NewItemFields DEF Like
<1> QED
  BY <1>1, <1>2

-----------------------------------------------------------------------------
(* The types of the progress *)

LEMMA ProgressTypes ==
  ASSUME Progress!TypeOK
  PROVE  /\ now \in Nat /\ rounds \in Nat /\ played \in Nat /\ loads \in Nat /\ pushed \in Nat
         /\ library \in Item \cup {None} /\ library_item \in Item \cup {None}
         /\ selected \in Progress!EpisodeIds \cup {None} /\ ready \in BOOLEAN
         /\ todo \in {None, Changed} \cup Item
         /\ pos \in 0 .. Duration \cup {None} /\ disturbed \in BOOLEAN /\ wanted \in BOOLEAN
BY DEF Progress!TypeOK, Item

\* No time is None, no message is an item.
LEMMA ProgressConstants ==
  /\ Duration \in Nat \ {0} /\ PushEvery \in Nat \ {0}
  /\ SeekTo \subseteq 0 .. Duration /\ Others \subseteq BOOLEAN
  /\ None # Changed /\ None \notin Item /\ Changed \notin Item
  /\ None \notin Progress!EpisodeIds /\ None \notin 0 .. Duration
BY ProgressAssumption
   DEF Progress!NoneAssumption, Progress!DurationAssumption, Progress!LimitsAssumption, Progress!MessageAssumption,
       Progress!EpisodesAssumption, Item

LEMMA ProgressStart == Progress!Init => ProgressInv
<1> SUFFICES ASSUME Progress!Init PROVE ProgressInv
  OBVIOUS
<1>1. [Progress!NewItem EXCEPT !.removed = FALSE, !.temp = FALSE] \in Item
  BY DEF Item, Progress!Item, Progress!NewItem
<1>2. {now, rounds, played, loads, pushed} \subseteq Nat
  BY ProgressConstants DEF Progress!Init
<1>3. library \in Progress!Item \cup {None} /\ library_item \in Progress!Item \cup {None}
  BY <1>1 DEF Progress!Init, Item
<1>4. selected \in Progress!EpisodeIds \cup {None} /\ todo \in {None, Changed} \cup Progress!Item
      /\ pos \in 0 .. Duration \cup {None}
  BY DEF Progress!Init
<1>5. ready \in BOOLEAN /\ disturbed \in BOOLEAN /\ wanted \in BOOLEAN
  BY DEF Progress!Init
<1>6. (pos # None => selected # None) /\ (todo = Changed => library # None)
  BY ProgressConstants DEF Progress!Init
<1> QED
  BY <1>2, <1>3, <1>4, <1>5, <1>6 DEF ProgressInv, Progress!TypeOK

LEMMA ProgressNext ==
  ASSUME ProgressInv, Progress!Next
  PROVE  ProgressInv'
<1> USE ProgressTypes, ProgressConstants DEF ProgressInv, Progress!TypeOK, Progress!Outside, Item
<1>1. ASSUME NEW video \in Progress!EpisodeIds, Progress!Load(video)
      PROVE  ProgressInv'
  <2>1. /\ library_item' \in Item \cup {None} /\ todo' \in Item \cup {None}
    BY <1>1, RefreshKeepsTypes DEF Progress!Load
  <2>2. pos' \in 0 .. Duration
    BY <1>1 DEF Progress!Load
  <2>3. disturbed' \in BOOLEAN
    BY <1>1 DEF Progress!Load
  <2> QED
    BY <1>1, <2>1, <2>2, <2>3 DEF Progress!Load
<1>2. ASSUME NEW known \in BOOLEAN, Progress!ResourceRequestResult(known)
      PROVE  ProgressInv'
  <2>1. /\ library_item' \in Item \cup {None} /\ todo' \in Item \cup {None}
    BY <1>2, RefreshKeepsTypes DEF Progress!ResourceRequestResult
  <2> QED
    BY <1>2, <2>1 DEF Progress!ResourceRequestResult
<1>3. ASSUME NEW time \in SeekTo, Progress!Seek(time)
      PROVE  ProgressInv'
  <2>1. CASE library_item = None
    BY <1>3, <2>1 DEF Progress!Seek
  <2>2. CASE library_item # None
    <3>1. library_item \in Item /\ time \in Nat
      BY <2>2
    <3>2. [library_item EXCEPT !.time_offset = time, !.duration = Duration] \in Item
      BY <3>1, ItemTimed
    <3>3. library_item' \in Item
      BY <1>3, <2>2, <3>2 DEF Progress!Seek
    <3>4. disturbed' \in BOOLEAN
      BY <1>3, <2>2 DEF Progress!Seek
    <3> QED
      BY <1>3, <2>2, <3>1, <3>3, <3>4 DEF Progress!Seek, Progress!Push
  <2> QED
    BY <2>1, <2>2
<1>4. ASSUME NEW video \in Progress!EpisodeIds, NEW no_notif \in BOOLEAN, NEW ahead \in Others,
             Progress!LibraryPullResult(video, no_notif, ahead)
      PROVE  ProgressInv'
  <2>1. library' \in Item
    BY <1>4 DEF Progress!LibraryPullResult, Progress!Item
  <2>2. library.time_watched \in Nat
    BY <1>4, ItemFields DEF Progress!LibraryPullResult
  <2> QED
    BY <1>4, <2>1, <2>2 DEF Progress!LibraryPullResult
<1>5. CASE Progress!Unload
  <2>1. todo' \in Item \cup {None}
    BY <1>5, PastCreditsIs DEF Progress!Unload
  <2>2. ready' \in BOOLEAN /\ disturbed' \in BOOLEAN
    BY <1>5 DEF Progress!Unload
  <2> QED
    BY <1>5, <2>1, <2>2 DEF Progress!Unload
<1>6. CASE Progress!TimeChanged
  <2>1. CASE library_item = None
    BY <1>6, <2>1 DEF Progress!TimeChanged
  <2>2. CASE library_item # None
    <3>1. library_item' \in Item
      BY <1>6, <2>2, ReportedIs DEF Progress!TimeChanged, Reported
    <3> QED
      BY <1>6, <2>2, <3>1 DEF Progress!TimeChanged, Progress!Push
  <2> QED
    BY <2>1, <2>2
<1>7. CASE Progress!PausedChanged
  BY <1>7 DEF Progress!PausedChanged
<1>8. CASE Progress!NextVideo
  <2>1. library_item' \in Item
    BY <1>8, StartOffsetIs DEF Progress!NextVideo, Progress!Item
  <2> QED
    BY <1>8, <2>1 DEF Progress!NextVideo
<1>9. CASE Progress!EditItem
  <2>1. PICK item \in {[library EXCEPT !.no_notif = ~@], [library EXCEPT !.removed = TRUE, !.temp = FALSE]} :
          library # None /\ Progress!Edit(item)
    BY <1>9 DEF Progress!EditItem
  <2>2. item \in Item
    BY <2>1 DEF Progress!Item
  <2>3. item.no_notif \in BOOLEAN
    BY <2>2, ItemFields
  <2> QED
    BY <2>1, <2>2, <2>3 DEF Progress!Edit
<1>10. CASE Progress!Tick
  BY <1>10 DEF Progress!Tick
<1>11. CASE Progress!UpdateLibraryItem
  BY <1>11 DEF Progress!UpdateLibraryItem
<1>12. CASE Progress!LibraryChanged
  <2>1. /\ library_item' \in Item \cup {None} /\ todo' \in Item \cup {None}
    BY <1>12, RefreshKeepsTypes DEF Progress!LibraryChanged
  <2> QED
    BY <1>12, <2>1 DEF Progress!LibraryChanged
<1> QED
  BY <1>1, <1>2, <1>3, <1>4, <1>5, <1>6, <1>7, <1>8, <1>9, <1>10, <1>11, <1>12 DEF Progress!Next

\* What a step does to the player's copy is seen by the library later, if at all.
LEMMA SeekLike ==
  ASSUME ProgressInv, NEW time \in SeekTo, Progress!Seek(time)
  PROVE  /\ library_item = None => library_item' = None /\ todo' = None
         /\ library_item # None => Like(library_item', library_item) /\ todo' \in {None, library_item'}
<1>1. CASE library_item = None
  BY <1>1 DEF Progress!Seek, Progress!Outside
<1>2. CASE library_item # None
  <2>1. library_item \in Item /\ time \in Nat
    BY <1>2, ProgressTypes, ProgressConstants DEF ProgressInv
  <2>2. Like([library_item EXCEPT !.time_offset = time, !.duration = Duration], library_item)
    BY <2>1, ItemTimed DEF Like
  <2> QED
    BY <1>2, <2>2 DEF Progress!Seek, Progress!Push
<1> QED
  BY <1>1, <1>2

LEMMA NextVideoLike ==
  ASSUME ProgressInv, Progress!NextVideo
  PROVE  library_item \in Item /\ library_item' \in Item /\ Like(library_item', library_item) /\ todo' = library_item'
<1>1. library_item \in Item /\ Progress!StartOffset(selected, ready) \in Nat
  BY ProgressTypes, StartOffsetIs DEF ProgressInv, Progress!NextVideo
<1> QED
  BY <1>1, ItemOffset DEF Progress!NextVideo

LEMMA EditLike ==
  ASSUME ProgressInv, Progress!EditItem
  PROVE  /\ library \in Item /\ todo' \in Item /\ todo' # library
         /\ todo'.video_id = library.video_id /\ todo'.times_watched = library.times_watched
         /\ todo'.flagged = library.flagged /\ todo'.ahead = library.ahead
         /\ todo'.time_offset = library.time_offset /\ todo'.time_watched = library.time_watched
         /\ wanted' = todo'.no_notif
<1>1. PICK item \in {[library EXCEPT !.no_notif = ~@], [library EXCEPT !.removed = TRUE, !.temp = FALSE]} :
        library # None /\ Progress!Edit(item)
  BY DEF Progress!EditItem
<1>2. library \in Item
  BY <1>1, ProgressTypes DEF ProgressInv
<1>3. /\ item \in Item
      /\ item.video_id = library.video_id /\ item.times_watched = library.times_watched
      /\ item.flagged = library.flagged /\ item.ahead = library.ahead
      /\ item.time_offset = library.time_offset /\ item.time_watched = library.time_watched
  BY <1>2 DEF Item, Progress!Item
<1> QED
  BY <1>1, <1>2, <1>3 DEF Progress!Edit
-----------------------------------------------------------------------------
(* A video counts once each time it is loaded *)

LEMMA CountedNext ==
  ASSUME ProgressInv, ProgressInv', CountedInv, Progress!Next
  PROVE  CountedInv'
<1> USE ProgressTypes, ProgressConstants DEF ProgressInv, CountedInv, Copies, Progress!Outside
<1>0. \A x \in Item : x.times_watched \in Nat
  BY ItemFields
<1>1. ASSUME NEW video \in Progress!EpisodeIds, Progress!Load(video)
      PROVE  CountedInv'
  <2>1. /\ loads' = loads + 1 /\ library' = library
        /\ library_item' # None =>
             library_item' \in Item /\ library_item'.times_watched <= loads
        /\ todo' \in {None, library_item'}
    BY <1>1, RefreshLike, NewItemFields DEF Progress!Load, Like
  <2> QED
    BY <1>0, <2>1
<1>2. ASSUME NEW known \in BOOLEAN, Progress!ResourceRequestResult(known)
      PROVE  CountedInv'
  <2>1. /\ UNCHANGED <<loads, library, selected, pos>>
        /\ library_item' # None =>
             \/ library_item' \in Item /\ library_item'.times_watched = 0
             \/ library \in Item /\ Like(library_item', library)
        /\ todo' \in {None, library_item'}
    BY <1>2, RefreshLike, NewItemFields DEF Progress!ResourceRequestResult
  <2> QED
    BY <1>0, <2>1 DEF Like
<1>3. ASSUME NEW time \in SeekTo, Progress!Seek(time)
      PROVE  CountedInv'
  <2>1. UNCHANGED <<loads, library, selected>> /\ pos # None
    BY <1>3 DEF Progress!Seek
  <2> QED
    BY <1>0, <1>3, <2>1, SeekLike DEF Like
<1>4. ASSUME NEW video \in Progress!EpisodeIds, NEW no_notif \in BOOLEAN, NEW ahead \in Others,
             Progress!LibraryPullResult(video, no_notif, ahead)
      PROVE  CountedInv'
  <2>1. /\ library \in Item /\ library'.times_watched = library.times_watched /\ library'.video_id = video
        /\ library'.flagged = library.flagged
    BY <1>4 DEF Progress!LibraryPullResult, Item, Progress!Item
  <2>2. todo' = Changed /\ UNCHANGED <<selected, library_item, pos>>
    BY <1>4 DEF Progress!LibraryPullResult
  <2>3. IF video = library.video_id THEN loads' = loads ELSE loads' = loads + 1
    BY <1>4 DEF Progress!LibraryPullResult
  <2>4. library_item # None => library_item.times_watched \in Nat
    BY <1>0
  <2> QED
    BY <1>0, <2>1, <2>2, <2>3, <2>4
<1>5. CASE Progress!Unload
  <2>1. /\ UNCHANGED <<loads, library>> /\ library_item' = None /\ pos' = None
        /\ todo' # None => library_item \in Item /\ todo'.times_watched = library_item.times_watched
    BY <1>5, PastCreditsIs DEF Progress!Unload
  <2> QED
    BY <2>1
<1>6. CASE Progress!TimeChanged
  <2>1. UNCHANGED <<loads, library, selected>> /\ pos # None /\ pos' \in Nat
    BY <1>6 DEF Progress!TimeChanged
  <2>2. CASE library_item = None
    BY <1>6, <2>1, <2>2 DEF Progress!TimeChanged
  <2>3. CASE library_item # None
    <3>1. library_item \in Item /\ library_item' = Reported(library_item, pos') /\ todo' \in {None, library_item'}
      BY <1>6, <2>3 DEF Progress!TimeChanged, Progress!Push, Reported
    <3>2. /\ library_item'.video_id = selected
          /\ IF library_item.video_id = selected /\ library_item.flagged
               THEN library_item'.flagged /\ library_item'.times_watched = library_item.times_watched
               ELSE library_item'.times_watched
                      = library_item.times_watched + (IF library_item'.flagged THEN 1 ELSE 0)
      BY <2>1, <3>1, ReportedIs
    <3>3. library_item.times_watched <= loads /\ library_item.times_watched \in Nat
      BY <1>0, <3>1
    <3>4. library_item.video_id # selected \/ ~library_item.flagged => library_item.times_watched < loads
      BY <2>1, <3>1
    <3>5. library_item'.times_watched <= loads /\ (~library_item'.flagged => library_item'.times_watched < loads)
      BY <3>2, <3>3, <3>4
    <3> QED
      BY <2>1, <3>1, <3>2, <3>5
  <2> QED
    BY <2>2, <2>3
<1>7. CASE Progress!PausedChanged
  BY <1>7 DEF Progress!PausedChanged
<1>8. CASE Progress!NextVideo
  BY <1>8, NextVideoLike DEF Progress!NextVideo, Like
<1>9. CASE Progress!EditItem
  <2>1. UNCHANGED <<loads, library, selected, library_item, pos>>
    BY <1>9 DEF Progress!EditItem, Progress!Edit
  <2> QED
    BY <1>9, <2>1, EditLike
<1>10. CASE Progress!Tick
  BY <1>10 DEF Progress!Tick
<1>11. CASE Progress!UpdateLibraryItem
  BY <1>11 DEF Progress!UpdateLibraryItem, Item
<1>12. CASE Progress!LibraryChanged
  <2>1. /\ UNCHANGED <<loads, library, selected, pos>>
        /\ library_item' # None =>
             \/ library_item' \in Item /\ library_item'.times_watched = 0
             \/ library \in Item /\ Like(library_item', library)
        /\ todo' \in {None, library_item'}
    BY <1>12, RefreshLike, NewItemFields DEF Progress!LibraryChanged
  <2> QED
    BY <1>0, <2>1 DEF Like
<1> QED
  BY <1>1, <1>2, <1>3, <1>4, <1>5, <1>6, <1>7, <1>8, <1>9, <1>10, <1>11, <1>12 DEF Progress!Next
-----------------------------------------------------------------------------
(* Edits survive while no clock is ahead *)

LEMMA AheadNext ==
  ASSUME NoneAhead, ProgressInv, ProgressInv', AheadInv, Progress!Next
  PROVE  AheadInv'
<1> USE ProgressTypes, ProgressConstants DEF ProgressInv, AheadInv, Copies, Progress!Outside
<1>1. ASSUME NEW video, NEW known, library' = library, Progress!Refresh(video, known)
      PROVE  AheadInv'
  BY <1>1, RefreshLike, NewItemFields DEF Like
<1>2. ASSUME NEW time \in SeekTo, Progress!Seek(time)
      PROVE  AheadInv'
  <2>1. library' = library
    BY <1>2 DEF Progress!Seek
  <2> QED
    BY <1>2, <2>1, SeekLike DEF Like
<1>3. ASSUME NEW video \in Progress!EpisodeIds, NEW no_notif \in BOOLEAN, NEW ahead \in Others,
             Progress!LibraryPullResult(video, no_notif, ahead)
      PROVE  AheadInv'
  <2>1. ~library'.ahead /\ todo' = Changed /\ library_item' = library_item
    BY <1>3 DEF Progress!LibraryPullResult, Item, Progress!Item, NoneAhead
  <2> QED
    BY <2>1
<1>4. CASE Progress!Unload
  BY <1>4, PastCreditsIs DEF Progress!Unload
<1>5. CASE Progress!TimeChanged
  <2>1. library_item # None => Reported(library_item, pos').ahead = library_item.ahead
    BY <1>5, ReportedIs DEF Progress!TimeChanged
  <2> QED
    BY <1>5, <2>1 DEF Progress!TimeChanged, Progress!Push, Reported
<1>6. CASE Progress!PausedChanged
  BY <1>6 DEF Progress!PausedChanged
<1>7. CASE Progress!NextVideo
  BY <1>7, NextVideoLike DEF Progress!NextVideo, Like
<1>8. CASE Progress!EditItem
  <2>1. UNCHANGED <<library, library_item>>
    BY <1>8 DEF Progress!EditItem, Progress!Edit
  <2> QED
    BY <1>8, <2>1, EditLike
<1>9. CASE Progress!Tick
  BY <1>9 DEF Progress!Tick
<1>10. CASE Progress!UpdateLibraryItem
  BY <1>10 DEF Progress!UpdateLibraryItem
<1> QED
  BY <1>1, <1>2, <1>3, <1>4, <1>5, <1>6, <1>7, <1>8, <1>9, <1>10
     DEF Progress!Next, Progress!Load, Progress!ResourceRequestResult, Progress!LibraryChanged

LEMMA EditNext ==
  ASSUME ProgressInv, ProgressInv', AheadInv, EditInv, Progress!Next
  PROVE  EditInv'
<1> USE ProgressTypes, ProgressConstants DEF ProgressInv, EditInv, Copies, Progress!Outside
<1>0. wanted \in BOOLEAN
  OBVIOUS
\* The library's item is as the user wanted it, and it is taken anew.
<1>1. ASSUME NEW video, NEW known, UNCHANGED <<library, wanted>>,
             todo \in {None, Changed}, Progress!Refresh(video, known)
      PROVE  EditInv'
  <2>1. library # None => library.no_notif = wanted
    BY <1>1
  <2>2. library = None => wanted = FALSE
    BY <1>0
  <2>3. library_item' # None => library_item'.no_notif = wanted
    BY <1>1, <2>1, <2>2, RefreshLike, NewItemFields DEF Like
  <2> QED
    BY <1>1, <2>1, <2>2, <2>3, RefreshLike, RefreshIs
<1>2. ASSUME NEW time \in SeekTo, Progress!Seek(time)
      PROVE  EditInv'
  <2>1. UNCHANGED <<library, wanted>> /\ todo = None
    BY <1>2 DEF Progress!Seek
  <2>2. library_item' # None => library_item # None /\ library_item'.no_notif = library_item.no_notif
    BY <1>2, SeekLike DEF Like
  <2>3. library_item' # None => library_item'.no_notif = wanted
    BY <2>1, <2>2
  <2> QED
    BY <1>2, <2>1, <2>3, SeekLike
<1>3. ASSUME NEW video \in Progress!EpisodeIds, NEW no_notif \in BOOLEAN, NEW ahead \in Others,
             Progress!LibraryPullResult(video, no_notif, ahead)
      PROVE  EditInv'
  <2>1. library'.no_notif = wanted' /\ todo' = Changed /\ library' # None
    BY <1>3 DEF Progress!LibraryPullResult, Item, Progress!Item
  <2> QED
    BY <2>1
<1>4. CASE Progress!Unload
  BY <1>4, PastCreditsIs DEF Progress!Unload
<1>5. CASE Progress!TimeChanged
  <2>1. library_item # None => Reported(library_item, pos').no_notif = library_item.no_notif
    BY <1>5, ReportedIs DEF Progress!TimeChanged
  <2> QED
    BY <1>5, <2>1 DEF Progress!TimeChanged, Progress!Push, Reported
<1>6. CASE Progress!PausedChanged
  BY <1>6 DEF Progress!PausedChanged
<1>7. CASE Progress!NextVideo
  BY <1>7, NextVideoLike DEF Progress!NextVideo, Like
<1>8. CASE Progress!EditItem
  <2>1. UNCHANGED <<library, library_item>>
    BY <1>8 DEF Progress!EditItem, Progress!Edit
  <2> QED
    BY <1>8, <2>1, EditLike
<1>9. CASE Progress!Tick
  BY <1>9 DEF Progress!Tick
<1>10. CASE Progress!UpdateLibraryItem
  <2>1. CASE library = todo
    BY <1>10, <2>1 DEF Progress!UpdateLibraryItem, Item
  <2>2. CASE library # todo
    <3>1. library' = todo /\ todo' = Changed /\ UNCHANGED <<library_item, wanted>>
      BY <1>10, <2>2 DEF Progress!UpdateLibraryItem, AheadInv
    <3> QED
      BY <1>10, <3>1 DEF Progress!UpdateLibraryItem, Item
  <2> QED
    BY <2>1, <2>2
<1> QED
  BY <1>1, <1>2, <1>3, <1>4, <1>5, <1>6, <1>7, <1>8, <1>9, <1>10
     DEF Progress!Next, Progress!Load, Progress!ResourceRequestResult, Progress!LibraryChanged
-----------------------------------------------------------------------------
(* The messages come to an end *)

LEMMA RoundsNext ==
  ASSUME ProgressInv, ProgressInv', AheadInv, RoundsInv, Progress!Next
  PROVE  RoundsInv'
<1> USE ProgressTypes, ProgressConstants DEF ProgressInv, RoundsInv
<1>1. CASE rounds' = 0
  BY <1>1
<1>2. CASE Progress!UpdateLibraryItem
  <2>1. rounds' = rounds + 1 /\ todo \in Item /\ UNCHANGED <<selected, ready>>
    BY <1>2 DEF Progress!UpdateLibraryItem, Item
  <2>2. CASE library = todo
    BY <1>2, <2>1, <2>2 DEF Progress!UpdateLibraryItem
  <2>3. CASE library # todo
    <3>1. library' = todo /\ todo' = Changed
      BY <1>2, <2>3 DEF Progress!UpdateLibraryItem, AheadInv, Copies
    <3>2. Restarted(library)' <=> Restarted(todo)
      BY <2>1, <3>1 DEF Restarted
    <3> QED
      BY <2>1, <2>3, <3>1, <3>2
  <2> QED
    BY <2>2, <2>3
<1>3. CASE Progress!LibraryChanged
  <2>1. rounds' = rounds + 1 /\ todo = Changed /\ UNCHANGED <<library, selected, ready>>
    BY <1>3 DEF Progress!LibraryChanged
  <2>2. Progress!Refresh(selected, ready)
    BY <1>3 DEF Progress!LibraryChanged
  <2>3. CASE Progress!Restarts(library, selected)
    <3> DEFINE offset == Progress!StartOffset(selected, ready)
    <3>1. library \in Item /\ offset \in Nat /\ todo' = [library EXCEPT !.time_offset = offset]
      BY <2>2, <2>3, RefreshIs, StartOffsetIs
    <3>2. todo' \in Item /\ todo'.time_offset = offset
      BY <3>1, ItemOffset
    <3>3. Restarted(todo)'
      BY <2>1, <3>2 DEF Restarted
    <3>4. CASE library.time_offset = offset
      <4>1. todo' = library
        BY <3>1, <3>4 DEF Item, Progress!Item
      <4> QED
        BY <2>1, <3>2, <3>3, <4>1
    <3>5. CASE library.time_offset # offset
      <4>1. ~Restarted(library)
        BY <2>3, <3>5 DEF Restarted
      <4> QED
        BY <2>1, <3>2, <3>3, <4>1
    <3> QED
      BY <3>4, <3>5
  <2>4. CASE ~Progress!Restarts(library, selected)
    BY <2>1, <2>2, <2>4, RefreshIs
  <2> QED
    BY <2>3, <2>4
<1> QED
  BY <1>1, <1>2, <1>3
     DEF Progress!Next, Progress!Outside, Progress!Load, Progress!ResourceRequestResult, Progress!Seek,
         Progress!LibraryPullResult, Progress!Unload, Progress!TimeChanged, Progress!PausedChanged,
         Progress!NextVideo, Progress!EditItem, Progress!Edit, Progress!Tick
-----------------------------------------------------------------------------
(* What a stop would lose *)

\* The copy is taken anew from an item that is close to where the app is.
LEMMA LossRefreshed ==
  ASSUME ProgressInv, ProgressInv', UNCHANGED <<library, now, pushed>>, pushed <= now,
         library # None => Near(library)', NEW known, Progress!Refresh(selected', known)
  PROVE  LossInv'
<1> USE ProgressTypes, ProgressConstants DEF ProgressInv, Progress!TypeOK, Item
<1>1. CASE Progress!Restarts(library, selected')
  <2>1. /\ library \in Item /\ Progress!StartOffset(selected', known) \in Nat
        /\ library_item' = [library EXCEPT !.time_offset = Progress!StartOffset(selected', known)]
        /\ library_item' \in Item /\ todo' = library_item'
    BY <1>1, RefreshIs, StartOffsetIs
  <2>2. library_item'.video_id = library.video_id
    BY <2>1, ItemOffset DEF Like
  <2>3. library_item'.video_id # selected'
    BY <1>1, <2>2 DEF Progress!Restarts
  <2>4. Near(library_item)'
    BY <2>3 DEF Near
  <2> QED
    BY <2>1, <2>4 DEF LossInv, Near
<1>2. CASE ~Progress!Restarts(library, selected') /\ library = None
  <2>1. library' = None /\ todo' = None /\ library_item' \in {None, Progress!NewItem}
    BY <1>2, RefreshIs
  <2>2. library_item' # None => library_item'.video_id = None
    BY <2>1, NewItemFields
  <2>3. library_item' # None => Near(library_item)'
    BY <2>2 DEF Near
  <2> QED
    BY <2>1, <2>3 DEF LossInv
<1>3. CASE ~Progress!Restarts(library, selected') /\ library # None
  <2>1. todo' = None /\ library' = library /\ library \in Item
        /\ library_item' = IF selected' = None THEN None ELSE library
    BY <1>3, RefreshIs
  <2>2. library.time_offset \in Nat /\ library.time_watched \in Nat
    BY <2>1, ItemFields
  <2>3. library_item' # None => SameVideo(library_item, library)' /\ Near(library_item)'
    BY <2>1, <2>2 DEF SameVideo, Near
  <2> QED
    BY <2>1, <2>3 DEF LossInv
<1> QED
  BY <1>1, <1>2, <1>3

LEMMA LossReported ==
  ASSUME ProgressInv, ProgressInv', LossInv, Progress!TimeChanged
  PROVE  LossInv'
<1> USE ProgressTypes, ProgressConstants DEF ProgressInv
<1>0. now \in Nat /\ pushed \in Nat
  OBVIOUS
<1>1. /\ todo = None /\ pos \in Nat /\ pos # None /\ pos' = pos + 1 /\ pos' # None /\ now' = now + 1
      /\ UNCHANGED <<library, selected, disturbed>> /\ selected \in Progress!EpisodeIds
  BY DEF Progress!TimeChanged, Progress!Outside
<1>2. CASE library_item = None
  <2>1. library_item' = None /\ todo' = None /\ pushed' = pushed
    BY <1>1, <1>2 DEF Progress!TimeChanged
  <2> QED
    BY <1>1, <1>2, <2>1 DEF LossInv
<1>3. CASE library_item # None
  <2>0. library_item' = Reported(library_item, pos')
    BY <1>3 DEF Progress!TimeChanged, Reported
  <2>1. library_item \in Item /\ pos' \in Nat /\ selected \in Progress!EpisodeIds
    BY <1>1, <1>3
  <2>2. /\ library_item' \in Item /\ library_item'.video_id = selected
        /\ library_item'.time_offset
             = IF pos' > library_item.time_offset THEN pos' ELSE library_item.time_offset
        /\ library_item'.time_watched
             = IF library_item.video_id # selected THEN 0
               ELSE IF pos' > library_item.time_offset
                 THEN library_item.time_watched + (pos' - library_item.time_offset)
               ELSE library_item.time_watched
    BY <2>0, <2>1, ReportedIs
  <2>3. library_item.time_offset \in Nat /\ library_item.time_watched \in Nat
    BY <2>1, ItemFields
  <2>4. pushed' <= now' /\ library_item' # None
        /\ IF now' - pushed >= PushEvery THEN pushed' = now' /\ todo' = library_item' ELSE pushed' = pushed /\ todo' = None
    BY <1>0, <1>1, <1>3, <2>2 DEF Progress!TimeChanged, Progress!Push, LossInv
  <2>5. Near(library_item)'
    BY <1>0, <1>1, <2>2, <2>3, <2>4 DEF Near
  <2>6. CASE todo' = library_item'
    BY <1>1, <2>2, <2>4, <2>5, <2>6 DEF LossInv, Near
  <2>7. CASE todo' = None
    <3>1. now' - pushed < PushEvery /\ pushed' = pushed
      BY <1>0, <1>1, <2>2, <2>4, <2>7
    <3>2. ASSUME library # None, ~disturbed
          PROVE  Near(library)' /\ (library.video_id = selected => SameVideo(library_item, library)')
      <4>1. library \in Item /\ library.time_offset \in Nat /\ library.time_watched \in Nat
        BY <3>2, ItemFields
      <4>2. Near(library) /\ pushed <= now
        BY <1>1, <3>2 DEF LossInv
      <4>3. Near(library)'
        <5>1. library' = library /\ selected' = selected
          BY <1>1
        <5>2. CASE library.video_id # selected
          BY <5>1, <5>2 DEF Near
        <5>3. CASE library.video_id = selected
          <6>1. pos <= library.time_offset + (now - pushed)
            BY <1>1, <4>2, <5>3, ProgressConstants DEF Near
          <6>2. pos' <= library.time_offset + (now' - pushed) /\ now' - pushed < PushEvery
            BY <1>0, <1>1, <3>1, <4>1, <6>1
          <6>3. pos' < library.time_offset + PushEvery
            BY <1>0, <1>1, <4>1, <6>2, ProgressConstants
          <6> QED
            BY <3>1, <5>1, <6>2, <6>3 DEF Near
        <5> QED
          BY <5>2, <5>3
      <4>4. ASSUME library.video_id = selected
            PROVE  SameVideo(library_item, library)'
        <5>1. library_item.video_id = library.video_id
          BY <1>1, <1>3, <3>2, <4>4 DEF LossInv
        <5>2. SameVideo(library_item, library)
          BY <1>1, <1>3, <3>2, <5>1 DEF LossInv
        <5>3. /\ library_item.time_watched + library.time_offset = library.time_watched + library_item.time_offset
              /\ library_item.time_offset <= pos \/ library_item.time_offset <= library.time_offset
          BY <1>1, <4>4, <5>1, <5>2, ProgressConstants DEF SameVideo
        <5>4. library' = library /\ selected' = selected /\ pos' # None
          BY <1>1, <2>1, <4>4, ProgressConstants
        <5>5. /\ library_item'.time_watched + library.time_offset
                    = library.time_watched + library_item'.time_offset
              /\ library_item'.time_offset <= pos' \/ library_item'.time_offset <= library.time_offset
          <6>1. CASE pos' > library_item.time_offset
            BY <1>1, <2>1, <2>2, <2>3, <4>1, <4>4, <5>1, <5>3, <6>1
          <6>2. CASE ~(pos' > library_item.time_offset)
            BY <1>1, <2>1, <2>2, <2>3, <4>1, <4>4, <5>1, <5>3, <6>2
          <6> QED
            BY <6>1, <6>2
        <5> QED
          BY <2>2, <4>4, <5>4, <5>5 DEF SameVideo
      <4> QED
        BY <4>3, <4>4
    <3> QED
      BY <1>1, <2>2, <2>4, <2>5, <2>7, <3>2 DEF LossInv
  <2> QED
    BY <2>4, <2>6, <2>7
<1> QED
  BY <1>2, <1>3

LEMMA LossNext ==
  ASSUME ProgressInv, ProgressInv', AheadInv, LossInv, Progress!Next
  PROVE  LossInv'
<1> USE ProgressTypes, ProgressConstants DEF ProgressInv
<1>0. now \in Nat /\ pushed \in Nat /\ pushed <= now
  BY DEF LossInv
\* The app starts where the copy is, or before.
<1>1. ASSUME NEW video \in Progress!EpisodeIds, Progress!Load(video)
      PROVE  LossInv'
  <2>1. /\ UNCHANGED <<library, now, pushed>> /\ selected' = video /\ video # None
        /\ Progress!Refresh(selected', ready) /\ pos' \in Nat
    BY <1>1 DEF Progress!Load
  <2>2. ASSUME library # None
        PROVE  Near(library)'
    <3>1. CASE Progress!Restarts(library, video)
      BY <2>1, <3>1 DEF Near, Progress!Restarts
    <3>2. CASE ~Progress!Restarts(library, video)
      <4>1. library_item' = library /\ library \in Item
        BY <2>1, <2>2, <3>2, RefreshIs
      <4>2. library.time_offset \in Nat
        BY <4>1, ItemFields
      <4>3. pos' <= library.time_offset
        BY <1>1, <2>2, <4>1, <4>2 DEF Progress!Load
      <4> QED
        BY <1>0, <2>1, <4>2, <4>3 DEF Near
    <3> QED
      BY <3>1, <3>2
  <2> QED
    BY <1>0, <2>1, <2>2, LossRefreshed
<1>2. ASSUME NEW known, UNCHANGED <<library, selected, pos, now, pushed, disturbed>>,
             todo \in {None, Changed}, Progress!Refresh(selected, known)
      PROVE  LossInv'
  <2>1. CASE disturbed
    BY <1>0, <1>2, <2>1 DEF LossInv
  <2>2. CASE ~disturbed
    <3>1. library # None => Near(library)
      BY <1>2, <2>2 DEF LossInv
    <3>2. library # None => Near(library)'
      BY <1>2, <3>1 DEF Near
    <3>3. Progress!Refresh(selected', known)
      BY <1>2
    <3> QED
      BY <1>0, <1>2, <3>2, <3>3, LossRefreshed
  <2> QED
    BY <2>1, <2>2
<1>3. ASSUME NEW time \in SeekTo, Progress!Seek(time)
      PROVE  LossInv'
  <2>1. UNCHANGED <<now, library, selected>> /\ pos # None /\ pos' = time /\ time \in Nat /\ todo = None
    BY <1>3 DEF Progress!Seek, Progress!Outside
  <2>2. CASE library_item = None
    <3>1. UNCHANGED <<library_item, pushed, todo, disturbed>>
      BY <1>3, <2>2 DEF Progress!Seek
    <3> QED
      BY <1>0, <2>1, <2>2, <3>1 DEF LossInv
  <2>3. CASE library_item # None
    <3> DEFINE item == [library_item EXCEPT !.time_offset = time, !.duration = Duration]
    <3>1. item \in Item /\ item.time_offset = time
      BY <2>1, <2>3, ItemTimed
    <3>2. library_item' = item /\ Progress!Push(library_item') /\ disturbed' = (disturbed \/ pushed' = pushed)
      BY <1>3, <2>3 DEF Progress!Seek
    <3> HIDE DEF item
    <3>3. CASE pushed' = pushed
      BY <1>0, <2>1, <3>2, <3>3 DEF LossInv
    <3>4. CASE pushed' # pushed
      <4>1. pushed' = now /\ todo' = item
        BY <2>1, <3>2, <3>4 DEF Progress!Push
      <4>2. Near(library_item)'
        BY <1>0, <2>1, <3>1, <3>2, <4>1 DEF Near
      <4> QED
        BY <1>0, <2>1, <3>1, <3>2, <4>1, <4>2 DEF LossInv, Near
    <3> QED
      BY <3>3, <3>4
  <2> QED
    BY <2>2, <2>3
<1>4. ASSUME NEW video \in Progress!EpisodeIds, NEW no_notif \in BOOLEAN, NEW ahead \in Others,
             Progress!LibraryPullResult(video, no_notif, ahead)
      PROVE  LossInv'
  BY <1>0, <1>4 DEF Progress!LibraryPullResult, LossInv
<1>5. CASE Progress!Unload
  <2>1. selected' = None /\ library_item' = None /\ pos' = None /\ UNCHANGED <<now, pushed>>
    BY <1>5 DEF Progress!Unload
  <2> QED
    BY <1>0, <2>1 DEF LossInv, Near
<1>6. CASE Progress!TimeChanged
  BY <1>6, LossReported
<1>7. CASE Progress!PausedChanged
  <2>1. /\ UNCHANGED <<now, library, selected, library_item, pushed, pos, disturbed>>
        /\ todo = None /\ todo' = library_item /\ selected # None
    BY <1>7 DEF Progress!PausedChanged, Progress!Outside
  <2> QED
    BY <2>1 DEF LossInv, Near, SameVideo
<1>8. CASE Progress!NextVideo
  <2>1. UNCHANGED <<now, library, selected, pushed, disturbed>> /\ pos' = None
    BY <1>8 DEF Progress!NextVideo
  <2> QED
    BY <1>0, <1>8, <2>1, NextVideoLike DEF LossInv, Near
<1>9. CASE Progress!EditItem
  <2>1. UNCHANGED <<now, library, selected, library_item, pushed, pos, disturbed>> /\ todo = None
    BY <1>9 DEF Progress!EditItem, Progress!Edit, Progress!Outside
  <2>2. /\ library \in Item /\ todo' \in Item /\ todo' # library
        /\ todo'.video_id = library.video_id /\ todo'.time_offset = library.time_offset
    BY <1>9, EditLike
  <2>3. Near(library) => Near(todo)'
    BY <2>1, <2>2 DEF Near
  <2>4. library_item # None /\ Near(library_item) => Near(library_item)'
    BY <2>1 DEF Near
  <2> QED
    BY <1>0, <2>1, <2>2, <2>3, <2>4 DEF LossInv
<1>10. CASE Progress!Tick
  <2>1. /\ UNCHANGED <<library, selected, library_item, pushed, todo, pos, disturbed>> /\ now' = now + 1
        /\ todo = None
    BY <1>10 DEF Progress!Tick, Progress!Outside
  <2>2. \A x \in Item : Near(x) /\ pos # None /\ x.video_id = selected =>
          pos <= x.time_offset + (now' - pushed) /\ pos < x.time_offset + PushEvery
    BY <1>0, <2>1, ItemFields DEF Near
  <2>3. /\ library_item # None /\ Near(library_item) => Near(library_item)'
        /\ library # None /\ Near(library) => Near(library)'
    BY <2>1, <2>2 DEF Near
  <2>4. library # None /\ library_item # None /\ SameVideo(library_item, library) => SameVideo(library_item, library)'
    BY <2>1 DEF SameVideo
  <2> QED
    BY <1>0, <2>1, <2>3, <2>4 DEF LossInv
<1>11. CASE Progress!UpdateLibraryItem
  <2>1. todo \in Item /\ UNCHANGED <<now, selected, library_item, pushed, pos, disturbed>>
    BY <1>11 DEF Progress!UpdateLibraryItem, Item
  <2>2. CASE library = todo
    <3>1. todo' = None /\ library' = library
      BY <1>11, <2>2 DEF Progress!UpdateLibraryItem
    <3>2. library.time_offset \in Nat
      BY <2>1, <2>2, ItemFields
    <3>3. SameVideo(library, library)
      BY <3>2 DEF SameVideo
    <3> QED
      BY <2>1, <2>2, <3>1, <3>3 DEF LossInv, Near, SameVideo
  <2>3. CASE library # todo
    <3>1. library' = todo /\ todo' = Changed
      BY <1>11, <2>3 DEF Progress!UpdateLibraryItem, AheadInv, Copies
    <3> QED
      BY <2>1, <3>1 DEF LossInv, Near
  <2> QED
    BY <2>2, <2>3
<1> QED
  BY <1>1, <1>2, <1>3, <1>4, <1>5, <1>6, <1>7, <1>8, <1>9, <1>10, <1>11
     DEF Progress!Next, Progress!Outside, Progress!ResourceRequestResult, Progress!LibraryChanged
-----------------------------------------------------------------------------
(* Resources *)

\* A resource is asked for by requests of one kind, and while it loads one is under way.
Waits(resource, kind) ==
  resource # None =>
    /\ resource.request.kind = kind
    /\ (resource.content = Loading => resource.request # Free /\ UnderWay(calls, resource.request))

WaitInv ==
  /\ Waits(meta_item, "meta") /\ Waits(subtitles, "subtitles")
  /\ Waits(next_streams, "stream") /\ Waits(skip_gaps, "gaps")

\* The streams are those of the video they were asked for, the stream taken from
\* them is theirs, and they were asked for the next video if there is one.
NextInv ==
  /\ Resources!Ready(next_streams) => next_streams.content.of = next_streams.request.of
  /\ next_stream # None => Resources!Ready(next_streams) /\ next_stream = next_streams.content
  /\ next_video # None => next_streams.request = Resources!StreamRequest(next_video.id)

\* The settings kept with a stream have a delay of that stream, and the stream kept
\* for the video selected is the one selected once the title is known.
DelaysKept(bucket) ==
  \A v \in Resources!VideoIds :
    bucket[v] # None /\ bucket[v].state # None => bucket[v].state.delay \in {None, bucket[v].stream}

DelayInv ==
  \/ blind
  \/ /\ Resources!DelayIsOfStream /\ DelaysKept(streams)
     /\ chosen # None /\ meta_item.content # Loading /\ streams[chosen.video] # None =>
          streams[chosen.video].stream = chosen.stream

\* A player that is not shown has nothing of a title.
NoneSelected == chosen = None => meta_item = None /\ subtitles = None /\ next_streams = None

ResourceInv ==
  /\ Resources!TypeOK /\ calls = [s \in Slots |-> calls[s]]
  /\ chosen # None => meta_item # None
  /\ NoneSelected
  /\ Resources!SubtitlesOfVideo
  /\ WaitInv /\ NextInv /\ DelayInv
-----------------------------------------------------------------------------
(* The operators of PlayerResources *)

LEMMA LeastExists ==
  ASSUME NEW S, S \subseteq Nat, S # {}
  PROVE  \E x \in S : \A y \in S : x <= y
<1>1. PICK x \in S : \A y \in S : ~(<<y, x>> \in OpToRel(<, Nat))
  BY NatLessThanWellFounded, WFMin
<1>2. \A y \in S : ~(y < x)
  BY <1>1 DEF OpToRel
<1> QED
  BY <1>2

LEMMA GreatestExists ==
  ASSUME NEW S, NEW n \in Nat, S \subseteq 0 .. n, S # {}
  PROVE  \E x \in S : \A y \in S : x >= y
<1> DEFINE T == {n - x : x \in S}
<1>0. \A x \in S : n - x \in Nat
  OBVIOUS
<1>1. T \subseteq Nat /\ T # {}
  BY <1>0
<1>2. PICK t \in T : \A u \in T : t <= u
  BY <1>1, LeastExists
<1>3. PICK x \in S : t = n - x
  BY <1>2
<1>4. \A y \in S : n - x <= n - y
  BY <1>2, <1>3
<1> QED
  BY <1>3, <1>4

LEMMA GreatestIs ==
  ASSUME NEW S, NEW n \in Nat, S \subseteq 0 .. n, S # {}
  PROVE  Resources!Max(S) \in S /\ \A y \in S : Resources!Max(S) >= y
BY GreatestExists DEF Resources!Max

LEMMA PositionIs ==
  ASSUME NEW title \in Titles, NEW video
  PROVE  Resources!Position(title, video) \in 0 .. Len(Videos[title])
<1> DEFINE list == Videos[title]
           at == {i \in 1 .. Len(list) : list[i].id = video}
<1>1. Len(list) \in Nat
  BY ResourcesAssumption DEF Resources!VideosAssumption
<1>2. Resources!Position(title, video) = IF at # {} THEN Resources!Min(at) ELSE 0
  BY DEF Resources!Position, Resources!SelectInSeq
<1>3. at # {} => Resources!Min(at) \in at
  <2>1. at \subseteq Nat
    BY <1>1
  <2> HIDE DEF at
  <2> QED
    BY <2>1, LeastExists DEF Resources!Min
<1> QED
  BY <1>1, <1>2, <1>3

LEMMA ResourcesConstants ==
  /\ Lookback \in Nat
  /\ States \subseteq [track : {"embedded", "addon", "default"}, speed : BOOLEAN]
  /\ \A title \in Titles : Len(Videos[title]) \in Nat /\ DOMAIN Videos[title] = 1 .. Len(Videos[title])
  /\ {None, Loading, Failed} \cap (Resources!Stream \cup {"ready"}) = {}
BY ResourcesAssumption
   DEF Resources!LookbackAssumption, Resources!VideosAssumption, Resources!ValuesAssumption

LEMMA VideoOfTitle ==
  ASSUME NEW title \in Titles, NEW j \in 1 .. Len(Videos[title])
  PROVE  Videos[title][j].id \in Resources!VideoIds
<1>1. Videos[title] # <<>> /\ j \in DOMAIN Videos[title]
  BY ResourcesConstants
<1>2. Videos[title][j].id \in Resources!VideosOf(title)
  BY <1>1 DEF Resources!VideosOf, Resources!Range
<1> QED
  BY <1>2 DEF Resources!VideoIds

LEMMA NextVideoIs ==
  ASSUME NEW sel, sel.title \in Titles, NEW meta, NEW stream
  PROVE  \/ Resources!NextVideo(sel, meta, stream) = None
         \/ \E v \in Resources!VideoIds : Resources!NextVideo(sel, meta, stream) = [id |-> v, stream |-> stream]
<1> DEFINE list == Videos[sel.title]
           i == Resources!Position(sel.title, sel.video)
<1>1. CASE i \in 1 .. Len(list) - 1
  <2>1. i + 1 \in 1 .. Len(list)
    BY <1>1, ResourcesConstants
  <2>2. list[i + 1].id \in Resources!VideoIds
    BY <2>1, VideoOfTitle
  <2> QED
    BY <2>2 DEF Resources!NextVideo
<1>2. CASE i \notin 1 .. Len(list) - 1
  BY <1>2 DEF Resources!NextVideo
<1> QED
  BY <1>1, <1>2

\* What is found of the videos before is kept for one of them.
LEMMA LastStreamItemIs ==
  ASSUME NEW title \in Titles, NEW video \in Resources!VideoIds
  PROVE  \/ Resources!LastStreamItem(title, video) = None
         \/ \E v \in Resources!VideoIds : Resources!LastStreamItem(title, video) = streams[v]
<1> DEFINE i == Resources!Position(title, video)
           from == Resources!Max({1, i - Lookback})
           known == {j \in from .. i : streams[Videos[title][j].id] # None}
<1>1. i \in 0 .. Len(Videos[title])
  BY PositionIs
<1>2. i \in Nat /\ Lookback \in Nat /\ Len(Videos[title]) \in Nat
  BY <1>1, ResourcesConstants
<1>3. from \in Int /\ from >= 1
  <2>1. CASE i - Lookback >= 1
    <3>1. \E x \in {1, i - Lookback} : \A y \in {1, i - Lookback} : x >= y
      BY <1>2, <2>1
    <3> QED
      BY <1>2, <3>1 DEF Resources!Max
  <2>2. CASE ~(i - Lookback >= 1)
    <3>1. \E x \in {1, i - Lookback} : \A y \in {1, i - Lookback} : x >= y
      BY <1>2, <2>2
    <3> QED
      BY <1>2, <3>1 DEF Resources!Max
  <2> QED
    BY <2>1, <2>2
<1>4. CASE Videos[title] = <<>> \/ i = 0 \/ known = {}
  BY <1>4 DEF Resources!LastStreamItem
<1>5. CASE ~(Videos[title] = <<>> \/ i = 0 \/ known = {})
  <2>1. Resources!LastStreamItem(title, video) = streams[Videos[title][Resources!Max(known)].id]
    BY <1>5 DEF Resources!LastStreamItem
  <2>2. known \subseteq 0 .. i
    BY <1>2, <1>3
  <2>3. Resources!Max(known) \in known
    <3> HIDE DEF known
    <3> QED
      BY <1>2, <1>5, <2>2, GreatestIs
  <2>4. Resources!Max(known) \in 1 .. Len(Videos[title])
    BY <1>1, <1>2, <1>3, <2>3
  <2> QED
    BY <2>1, <2>4, VideoOfTitle
<1> QED
  BY <1>4, <1>5

LEMMA SentAllIs ==
  ASSUME NEW flight, flight = [s \in Slots |-> flight[s]], NEW requests, NEW next \in SentAll(flight, requests)
  PROVE  /\ next = [s \in Slots |-> next[s]]
         /\ \A s \in Slots : flight[s] # Free => next[s] = flight[s]
         /\ \A r \in requests : UnderWay(next, r)
<1> DEFINE free == {s \in Slots : flight[s] = Free}
<1>1. PICK at \in {a \in [requests -> free] : \A q, r \in requests : a[q] = a[r] => q = r} :
        next = [s \in Slots |-> IF \E r \in requests : at[r] = s
                                  THEN CHOOSE r \in requests : at[r] = s ELSE flight[s]]
  BY DEF SentAll
<1>2. at \in [requests -> free] /\ \A q, r \in requests : at[q] = at[r] => q = r
  OBVIOUS
<1>3. ASSUME NEW s \in Slots, flight[s] # Free
      PROVE  next[s] = flight[s]
  BY <1>1, <1>2, <1>3
<1>4. ASSUME NEW r \in requests
      PROVE  next[at[r]] = r /\ at[r] \in Slots
  <2>1. at[r] \in Slots
    BY <1>2
  <2>2. (CHOOSE q \in requests : at[q] = at[r]) = r
    BY <1>2
  <2> QED
    BY <1>1, <2>1, <2>2
<1> QED
  BY <1>1, <1>3, <1>4 DEF UnderWay

\* Settings that are taken over for another stream have no delay of the old one.
LEMMA AdjustedStateIs ==
  ASSUME NEW stream \in Resources!Stream,
         NEW item \in [stream : Resources!Stream, state : Option(Resources!State)] \cup {None}
  PROVE  LET state == Resources!AdjustedState(item, stream) IN
         /\ state \in Option(Resources!State)
         /\ (item # None /\ item.state # None => item.state.delay \in {None, item.stream}) /\ state # None =>
              state.delay \in {None, stream}
<1>1. CASE item = None \/ item.state = None
  BY <1>1 DEF Resources!AdjustedState, Option
<1>2. CASE item # None /\ item.state # None
  <2>1. item.state \in Resources!State /\ item.stream \in Resources!Stream
    BY <1>2 DEF Option
  <2>2. ASSUME NEW state \in Resources!State, NEW track \in {"embedded", "addon", "default"}
        PROVE  LET new == [state EXCEPT !.track = track, !.delay = None] IN
               new \in Resources!State /\ new.delay = None
    BY DEF Resources!State, Resources!Option, Option
  <2>3. item.state.track \in {"embedded", "addon", "default"}
    BY <2>1 DEF Resources!State
  <2> QED
    BY <1>2, <2>1, <2>2, <2>3 DEF Resources!AdjustedState, Option
<1> QED
  BY <1>1, <1>2

Bucket == [Resources!VideoIds -> Option([stream : Resources!Stream, state : Option(Resources!State)])]
Selection == [title : Titles, video : Resources!VideoIds, stream : Resources!Stream]

\* The stream selected is noted with settings of its own, or of another without delay.
LEMMA StreamLoadedIs ==
  ASSUME streams \in Bucket, NEW sel \in Selection, NEW meta
  PROVE  LET noted == Resources!StreamLoaded(sel, meta) IN
         /\ noted \in Bucket
         /\ noted[sel.video].stream = sel.stream
         /\ Resources!StreamState(sel, noted) \in Option(Resources!State)
         /\ DelaysKept(streams) =>
              /\ DelaysKept(noted)
              /\ Resources!StreamState(sel, noted) # None =>
                   Resources!StreamState(sel, noted).delay \in {None, sel.stream}
<1> DEFINE last == IF Resources!Ready(meta) THEN Resources!LastStreamItem(sel.title, sel.video) ELSE streams[sel.video]
           state == Resources!AdjustedState(last, sel.stream)
           new == [stream |-> sel.stream, state |-> state]
           bucket == [streams EXCEPT ![sel.video] = new]
<1>1. sel.title \in Titles /\ sel.video \in Resources!VideoIds /\ sel.stream \in Resources!Stream
  BY DEF Selection
<1>2. last = None \/ \E v \in Resources!VideoIds : last = streams[v]
  BY <1>1, LastStreamItemIs
<1>3. last \in [stream : Resources!Stream, state : Option(Resources!State)] \cup {None}
  BY <1>2 DEF Bucket, Option
<1>4. state \in Option(Resources!State)
  BY <1>1, <1>3, AdjustedStateIs
<1>5. DelaysKept(streams) /\ state # None => state.delay \in {None, sel.stream}
  <2>1. DelaysKept(streams) /\ last # None /\ last.state # None => last.state.delay \in {None, last.stream}
    BY <1>2 DEF DelaysKept
  <2> HIDE DEF last
  <2> QED
    BY <1>1, <1>3, <2>1, AdjustedStateIs
<1> HIDE DEF state
<1>6. bucket = Resources!StreamLoaded(sel, meta)
  BY DEF Resources!StreamLoaded, state
<1>7. bucket \in Bucket /\ bucket[sel.video] = new
  BY <1>1, <1>4 DEF Bucket, Option
<1>8. \A v \in Resources!VideoIds : v # sel.video => bucket[v] = streams[v]
  BY <1>1 DEF Bucket
<1>9. Resources!StreamState(sel, bucket) \in {None, state}
  BY <1>7 DEF Resources!StreamState
<1>10. DelaysKept(streams) => DelaysKept(bucket)
  BY <1>5, <1>7, <1>8 DEF DelaysKept
<1> HIDE DEF bucket
<1> QED
  BY <1>4, <1>5, <1>6, <1>7, <1>9, <1>10 DEF Option

LEMMA NoteStreamIs ==
  ASSUME streams \in Bucket, NEW sel, sel = None \/ sel \in Selection, NEW meta,
         NEW otherwise \in Option(Resources!State), Resources!NoteStream(sel, meta, otherwise)
  PROVE  /\ streams' \in Bucket /\ stream_state' \in Option(Resources!State)
         /\ DelaysKept(streams) => DelaysKept(streams')
         /\ IF sel # None /\ meta # None /\ meta.content # Loading
              THEN /\ streams'[sel.video].stream = sel.stream
                   /\ DelaysKept(streams) /\ stream_state' # None => stream_state'.delay \in {None, sel.stream}
              ELSE streams' = streams /\ stream_state' = otherwise
<1>1. CASE sel # None /\ meta # None /\ meta.content # Loading
  <2>1. streams' = Resources!StreamLoaded(sel, meta) /\ stream_state' = Resources!StreamState(sel, streams')
    BY <1>1 DEF Resources!NoteStream
  <2> QED
    BY <1>1, <2>1, StreamLoadedIs
<1>2. CASE ~(sel # None /\ meta # None /\ meta.content # Loading)
  BY <1>2 DEF Resources!NoteStream, DelaysKept
<1> QED
  BY <1>1, <1>2

LEMMA AnsweredIs ==
  ASSUME NEW Q, NEW R, Loading \notin R, NEW resource \in Resources!Loaded(Q, R), NEW request,
         NEW result, resource # None /\ resource.request = request => result \in R \cup {Failed}
  PROVE  LET after == Resources!Answered(resource, request, result) IN
         /\ after \in Resources!Loaded(Q, R)
         /\ resource = None => after = None
         /\ resource # None => after.request = resource.request
         /\ resource # None /\ None \notin [request : Q, content : Loadable(R)] => after # None
         /\ after # None /\ after.content = Loading => after = resource /\ after.request # request
         /\ after # resource => resource.request = request /\ after.content = result
<1>1. CASE resource = None
  BY <1>1 DEF Resources!Answered
<1>2. CASE resource # None /\ resource.request = request /\ resource.content = Loading
  <2>1. resource \in [request : Q, content : Loadable(R)] /\ result \in R \cup {Failed}
    BY <1>2 DEF Resources!Loaded, Resources!Option, Resources!Loadable, Loadable
  <2> DEFINE next == [resource EXCEPT !.content = result]
  <2>2. next \in [request : Q, content : Loadable(R)] /\ next.request = resource.request /\ next.content = result
    BY <2>1 DEF Loadable
  <2> QED
    BY <1>2, <2>1, <2>2, LoadableAssumption
       DEF Resources!Answered, Resources!Loaded, Resources!Option, Resources!Loadable, Loadable
<1>3. CASE resource # None /\ ~(resource.request = request /\ resource.content = Loading)
  BY <1>3 DEF Resources!Answered
<1> QED
  BY <1>1, <1>2, <1>3

LEMMA FetchedIs ==
  ASSUME NEW Q, NEW R, NEW resource \in Resources!Loaded(Q, R), NEW request \in Q
  PROVE  LET next == Resources!Fetched(resource, request) IN
         /\ next \in Resources!Loaded(Q, R) /\ next.request = request
         /\ IF Resources!Fetches(resource, request) THEN next.content = Loading ELSE next = resource /\ next # None
BY DEF Resources!Fetched, Resources!Fetches, Resources!Loaded, Resources!Option, Resources!Loadable

MetaRequests == {Resources!MetaRequest(t) : t \in Titles}
SubtitlesRequests == {Resources!SubtitlesRequest(v, p) : v \in Resources!VideoIds, p \in Params}
StreamRequests == {Resources!StreamRequest(v) : v \in Resources!VideoIds}
StreamsOf(resource) == Resources!Ready(resource) => resource.content.of = resource.request.of

\* The streams asked for next, and the one taken from them.
LEMMA NextStreamsAre ==
  ASSUME NEW old \in Resources!Loaded(StreamRequests, Resources!Stream), StreamsOf(old),
         NEW video, video = None \/ video.id \in Resources!VideoIds, NEW sel
  PROVE  LET after == Resources!NextStreams(old, video)
             taken == Resources!NextStream(after, sel)
         IN
         /\ after \in Resources!Loaded(StreamRequests, Resources!Stream) /\ StreamsOf(after)
         /\ video # None => after.request = Resources!StreamRequest(video.id)
         /\ after = old \/ (after.content = Loading /\ after.request \in Resources!NextStreamsRequest(old, video))
         /\ taken \in Option(Resources!Stream)
         /\ taken # None => Resources!Ready(after) /\ taken = after.content
<1> DEFINE list == Resources!NextStreams(old, video)
<1>1. /\ list \in Resources!Loaded(StreamRequests, Resources!Stream) /\ StreamsOf(list)
      /\ video # None => list.request = Resources!StreamRequest(video.id)
      /\ list = old \/ (list.content = Loading /\ list.request \in Resources!NextStreamsRequest(old, video))
  <2>1. CASE video = None
    BY <2>1 DEF Resources!NextStreams
  <2>2. CASE video # None
    <3> DEFINE request == Resources!StreamRequest(video.id)
    <3>1. request \in StreamRequests
      BY <2>2 DEF StreamRequests
    <3>2. list = Resources!Fetched(old, request)
      BY <2>2 DEF Resources!NextStreams
    <3> HIDE DEF list, request
    <3>3. /\ list \in Resources!Loaded(StreamRequests, Resources!Stream) /\ list.request = request
          /\ IF Resources!Fetches(old, request) THEN list.content = Loading ELSE list = old
      BY <3>1, <3>2, FetchedIs
    <3> QED
      BY <2>2, <3>3 DEF request, StreamsOf, Resources!Ready, Resources!NextStreamsRequest
  <2> QED
    BY <2>1, <2>2
<1> HIDE DEF list
<1>2. Resources!Ready(list) => list.content \in Resources!Stream
  BY <1>1 DEF Resources!Ready, Resources!Loaded, Resources!Option, Resources!Loadable
<1> QED
  BY <1>1, <1>2 DEF list, Resources!NextStream, Option

LEMMA ResourceTypes ==
  ASSUME ResourceInv
  PROVE  /\ chosen = None \/ chosen \in Selection
         /\ meta_item \in Resources!Loaded(MetaRequests, {"ready"})
         /\ subtitles \in Resources!Loaded(SubtitlesRequests, {"ready"})
         /\ next_streams \in Resources!Loaded(StreamRequests, Resources!Stream)
         /\ streams \in Bucket /\ stream_state \in Option(Resources!State) /\ next_stream \in Option(Resources!Stream)
         /\ StreamsOf(next_streams)
BY DEF ResourceInv, NextInv, Resources!TypeOK, Selection, Bucket, MetaRequests, SubtitlesRequests, StreamRequests,
       StreamsOf, Option, Resources!Option

\* The values are not None, and Ready is not Loading.
LEMMA ResourceValues ==
  /\ Loading \notin {"ready"} /\ Loading \notin Resources!Stream /\ None \notin Resources!Stream
  /\ Loading # Failed /\ None # Loading
  /\ None \notin [request : MetaRequests, content : Loadable({"ready"})] /\ None \notin Selection
  /\ \A t \in Titles : Free # Resources!MetaRequest(t)
  /\ \A v \in Resources!VideoIds :
       /\ Free # Resources!StreamRequest(v)
       /\ \A p \in Params : Free # Resources!SubtitlesRequest(v, p)
BY ResourcesAssumption, LoadableAssumption
   DEF Resources!ValuesAssumption, MetaRequests, Loadable, Resources!Loadable, Selection

LEMMA ResourceLoad ==
  ASSUME ResourceInv, NEW title \in Titles, NEW video \in Resources!VideosOf(title), NEW group \in Option(Groups),
         Resources!Load(title, video, [of |-> video, group |-> group])
  PROVE  ResourceInv'
<1> DEFINE request == Resources!MetaRequest(title)
           asked == (IF Resources!Fetches(meta_item, request) THEN {request} ELSE {})
                    \cup Resources!NextStreamsRequest(next_streams, next_video')
<1>1. chosen' \in Selection
  <2>1. video \in Resources!VideoIds
    BY DEF Resources!VideoIds
  <2> QED
    BY <2>1 DEF Resources!Load, Selection, Resources!Stream, Resources!Option, Option
<1>2. /\ meta_item' = Resources!Fetched(meta_item, request) /\ video_params' = None /\ subtitles' = None
      /\ next_video' = Resources!NextVideo(chosen', meta_item', next_stream)
      /\ next_streams' = Resources!NextStreams(next_streams, next_video')
      /\ next_stream' = Resources!NextStream(next_streams', chosen')
      /\ skip_gaps' = None
      /\ Resources!NoteStream(chosen', meta_item', None)
      /\ calls' \in SentAll(calls, asked)
      /\ UNCHANGED <<key, blind>>
  BY DEF Resources!Load, SentAll, Resources!SentAll
<1>3. request \in MetaRequests
  BY DEF MetaRequests
<1>4. /\ meta_item' \in Resources!Loaded(MetaRequests, {"ready"}) /\ meta_item'.request = request
      /\ IF Resources!Fetches(meta_item, request) THEN meta_item'.content = Loading
         ELSE meta_item' = meta_item /\ meta_item # None
  BY <1>2, <1>3, ResourceTypes, FetchedIs
<1>5. meta_item' # None
  <2>1. meta_item' \in [request : MetaRequests, content : Loadable({"ready"})]
    BY <1>2, <1>3, <1>4 DEF Resources!Fetched, Resources!Fetches, Resources!Loaded, Resources!Option, Resources!Loadable, Loadable
  <2> QED
    BY <2>1, ResourceValues
<1>6. next_video' = None \/ next_video' \in [id : Resources!VideoIds, stream : Resources!Option(Resources!Stream)]
  <2>1. chosen'.title \in Titles
    BY <1>1 DEF Selection
  <2> QED
    BY <1>2, <2>1, NextVideoIs, ResourceTypes DEF Option, Resources!Option
<1>7. /\ next_streams' \in Resources!Loaded(StreamRequests, Resources!Stream) /\ StreamsOf(next_streams')
      /\ next_video' # None => next_streams'.request = Resources!StreamRequest(next_video'.id)
      /\ \/ next_streams' = next_streams
         \/ next_streams'.content = Loading
            /\ next_streams'.request \in Resources!NextStreamsRequest(next_streams, next_video')
      /\ next_stream' \in Option(Resources!Stream)
      /\ next_stream' # None => Resources!Ready(next_streams') /\ next_stream' = next_streams'.content
  <2>1. next_video' = None \/ next_video'.id \in Resources!VideoIds
    BY <1>6
  <2> QED
    BY <1>2, <2>1, ResourceTypes, NextStreamsAre
<1>8. /\ streams' \in Bucket /\ stream_state' \in Option(Resources!State)
      /\ DelaysKept(streams) => DelaysKept(streams')
      /\ IF chosen' # None /\ meta_item' # None /\ meta_item'.content # Loading
           THEN /\ streams'[chosen'.video].stream = chosen'.stream
                /\ DelaysKept(streams) /\ stream_state' # None => stream_state'.delay \in {None, chosen'.stream}
           ELSE streams' = streams /\ stream_state' = None
  BY <1>1, <1>2, ResourceTypes, NoteStreamIs DEF Option
<1>9. /\ calls' = [s \in Slots |-> calls'[s]]
      /\ \A s \in Slots : calls[s] # Free => calls'[s] = calls[s]
      /\ \A r \in asked : UnderWay(calls', r)
  BY <1>2, SentAllIs DEF ResourceInv
<1>10. Resources!TypeOK'
  BY <1>1, <1>2, <1>4, <1>6, <1>7, <1>8
     DEF ResourceInv, Resources!TypeOK, Selection, Bucket, MetaRequests, SubtitlesRequests, StreamRequests,
         Option, Resources!Option, Resources!Loaded
<1>11. WaitInv'
  <2>1. Waits(meta_item, "meta")'
    BY <1>3, <1>4, <1>9, ResourceValues
       DEF ResourceInv, WaitInv, Waits, UnderWay, MetaRequests, Resources!MetaRequest
  <2>2. Waits(next_streams, "stream")'
    BY <1>6, <1>7, <1>9, ResourceValues
       DEF ResourceInv, WaitInv, Waits, UnderWay, Resources!NextStreamsRequest, Resources!StreamRequest
  <2> QED
    BY <1>2, <2>1, <2>2 DEF WaitInv, Waits
<1>12. NextInv'
  BY <1>7 DEF NextInv, StreamsOf
<1>13. DelayInv'
  BY <1>2, <1>5, <1>8 DEF ResourceInv, DelayInv, Resources!DelayIsOfStream
<1> QED
  BY <1>1, <1>2, <1>5, <1>9, <1>10, <1>11, <1>12, <1>13, ResourceValues
     DEF ResourceInv, NoneSelected, Resources!SubtitlesOfVideo

\* Gaps are kept, or asked for anew.
LEMMA GapsAre ==
  ASSUME NEW sel, sel = None \/ sel \in Selection, key \in Resources!Option(Keys), NEW meta,
         NEW params \in Resources!Option(Params), NEW gaps
  PROVE  LET want == Resources!WantedGaps(sel, meta, params)
             after == Resources!Gaps(gaps, want)
         IN
         \/ after = gaps
         \/ /\ after.request \in Resources!GapsRequests(gaps, want)
            /\ after.request.kind = "gaps" /\ after.request # Free
<1> DEFINE want == Resources!WantedGaps(sel, meta, params)
<1>1. CASE ~Resources!Asks(gaps, want)
  BY <1>1 DEF Resources!Gaps
<1>2. CASE Resources!Asks(gaps, want)
  <2>1. want # None
    BY <1>2 DEF Resources!Asks
  <2>2. /\ key # None /\ params # None /\ sel # None
        /\ want = Resources!GapsRequest(key, sel.video, params, sel.stream)
    BY <2>1 DEF Resources!WantedGaps, Resources!SeriesInfo
  <2>3. key \in Keys /\ params \in Params /\ sel.video \in Resources!VideoIds /\ sel.stream \in Resources!Stream
    BY <2>2 DEF Selection, Resources!Option
  <2>4. want # Free
    BY <2>2, <2>3, ResourcesAssumption DEF Resources!ValuesAssumption
  <2>5. want.kind = "gaps"
    BY <2>2 DEF Resources!GapsRequest
  <2>6. Resources!Gaps(gaps, want).request = want /\ want \in Resources!GapsRequests(gaps, want)
    BY <1>2 DEF Resources!Gaps, Resources!GapsRequests
  <2> QED
    BY <2>4, <2>5, <2>6
<1> QED
  BY <1>1, <1>2

LEMMA ResourceUnload ==
  ASSUME ResourceInv, Resources!Unload
  PROVE  ResourceInv'
BY DEF ResourceInv, NoneSelected, Resources!Unload, Resources!TypeOK, Resources!SubtitlesOfVideo, WaitInv, Waits, NextInv,
       Resources!Ready, DelayInv, Resources!DelayIsOfStream, DelaysKept, Option, Resources!Option, Resources!Loaded

LEMMA ResourceParams ==
  ASSUME ResourceInv, NEW params \in Params, Resources!VideoParamsChanged(params)
  PROVE  ResourceInv'
<1> DEFINE want == Resources!WantedGaps(chosen, meta_item, params)
           request == Resources!SubtitlesRequest(chosen.video, params)
           asked == {request} \cup Resources!GapsRequests(skip_gaps, want)
<1>1. /\ chosen # None /\ video_params' = params
      /\ subtitles' = [request |-> request, content |-> Loading]
      /\ skip_gaps' = Resources!Gaps(skip_gaps, want)
      /\ calls' \in SentAll(calls, asked)
      /\ UNCHANGED <<chosen, meta_item, next_video, next_streams, next_stream, stream_state, streams, key, blind>>
  BY DEF Resources!VideoParamsChanged, SentAll, Resources!SentAll
<1>2. chosen \in Selection /\ chosen.video \in Resources!VideoIds
  BY <1>1, ResourceTypes DEF Selection
<1>3. request # Free /\ request.kind = "subtitles" /\ request \in SubtitlesRequests
  BY <1>2, ResourceValues DEF Resources!SubtitlesRequest, SubtitlesRequests
<1>4. /\ calls' = [s \in Slots |-> calls'[s]]
      /\ \A s \in Slots : calls[s] # Free => calls'[s] = calls[s]
      /\ \A r \in asked : UnderWay(calls', r)
  BY <1>1, SentAllIs DEF ResourceInv
<1>5. Waits(skip_gaps, "gaps")'
  <2>1. key \in Resources!Option(Keys) /\ params \in Resources!Option(Params)
    BY DEF ResourceInv, Resources!TypeOK, Resources!Option
  <2>2. \/ skip_gaps' = skip_gaps
        \/ /\ skip_gaps'.request \in Resources!GapsRequests(skip_gaps, want)
           /\ skip_gaps'.request.kind = "gaps" /\ skip_gaps'.request # Free
    BY <1>1, <1>2, <2>1, GapsAre
  <2> QED
    BY <1>4, <2>2 DEF ResourceInv, WaitInv, Waits, UnderWay
<1>6. Resources!TypeOK'
  <2>1. subtitles' \in Resources!Loaded(SubtitlesRequests, {"ready"})
    BY <1>1, <1>3 DEF Resources!Loaded, Resources!Option, Resources!Loadable
  <2> QED
    BY <1>1, <2>1 DEF ResourceInv, Resources!TypeOK, SubtitlesRequests, Resources!Option
<1>7. WaitInv'
  <2>1. Waits(subtitles, "subtitles")'
    BY <1>1, <1>3, <1>4 DEF Waits
  <2>2. Waits(meta_item, "meta")' /\ Waits(next_streams, "stream")'
    BY <1>1, <1>4 DEF ResourceInv, WaitInv, Waits, UnderWay
  <2> QED
    BY <1>5, <2>1, <2>2 DEF WaitInv
<1>8. Resources!SubtitlesOfVideo'
  BY <1>1 DEF Resources!SubtitlesOfVideo
<1>9. NextInv' /\ DelayInv'
  BY <1>1 DEF ResourceInv, NextInv, DelayInv, Resources!Ready, Resources!DelayIsOfStream, DelaysKept
<1> QED
  BY <1>1, <1>4, <1>6, <1>7, <1>8, <1>9 DEF ResourceInv, NoneSelected

LEMMA ResourceSettings ==
  ASSUME ResourceInv, NEW state \in States, NEW delayed \in BOOLEAN,
         Resources!StreamStateChanged(state.track, state.speed, delayed)
  PROVE  ResourceInv'
<1> DEFINE shown == IF stream_state = None THEN None ELSE stream_state.delay
           new == [track |-> state.track, speed |-> state.speed,
                   delay |-> IF delayed THEN chosen.stream ELSE shown]
<1>1. /\ chosen # None
      /\ UNCHANGED <<chosen, meta_item, video_params, subtitles, next_video, next_streams, next_stream, skip_gaps, key, calls>>
      /\ IF streams[chosen.video] = None THEN UNCHANGED <<streams, stream_state, blind>>
         ELSE /\ streams' = [streams EXCEPT ![chosen.video].state = new]
              /\ stream_state' = new
              /\ blind' = (blind \/ meta_item.content = Loading)
  BY DEF Resources!StreamStateChanged
<1>2. chosen \in Selection /\ chosen.video \in Resources!VideoIds /\ chosen.stream \in Resources!Stream
  BY <1>1, ResourceTypes DEF Selection
<1>3. new \in Resources!State
  <2>1. shown \in Option(Resources!Stream)
    BY ResourceTypes DEF Option, Resources!State, Resources!Option
  <2>2. state.track \in {"embedded", "addon", "default"} /\ state.speed \in BOOLEAN
    BY ResourcesConstants
  <2> HIDE DEF shown
  <2> QED
    BY <1>2, <2>1, <2>2 DEF Resources!State, Resources!Option, Option
<1>4. CASE streams[chosen.video] = None
  <2>1. UNCHANGED <<streams, stream_state, blind>>
    BY <1>1, <1>4
  <2>2. Resources!TypeOK'
    <3>1. UNCHANGED <<chosen, meta_item, video_params, key, subtitles, next_video, next_streams, next_stream,
                      stream_state, streams, blind>>
      BY <1>1, <2>1
    <3> HIDE DEF new, shown
    <3> QED
      BY <3>1 DEF ResourceInv, Resources!TypeOK, Resources!Option
  <2>3. WaitInv' /\ NextInv' /\ Resources!SubtitlesOfVideo'
    BY <1>1 DEF ResourceInv, WaitInv, Waits, UnderWay, NextInv, Resources!Ready, Resources!SubtitlesOfVideo
  <2>4. DelayInv'
    BY <1>1, <2>1 DEF ResourceInv, DelayInv, Resources!DelayIsOfStream, DelaysKept
  <2> QED
    BY <1>1, <2>2, <2>3, <2>4 DEF ResourceInv, NoneSelected
<1>5. CASE streams[chosen.video] # None
  <2> DEFINE video == chosen.video
             kept == [streams[video] EXCEPT !.state = new]
  <2>1. streams' = [streams EXCEPT ![video] = kept] /\ stream_state' = new
        /\ blind' = (blind \/ meta_item.content = Loading)
    BY <1>1, <1>5
  <2>2. streams[video] \in [stream : Resources!Stream, state : Option(Resources!State)]
    BY <1>2, <1>5, ResourceTypes DEF Bucket, Option
  <2>3. kept \in [stream : Resources!Stream, state : Option(Resources!State)]
        /\ kept.stream = streams[video].stream /\ kept.state = new
    BY <1>3, <2>2 DEF Option
  <2> HIDE DEF kept
  <2>4. streams' \in Bucket /\ streams'[video] = kept
        /\ \A v \in Resources!VideoIds : v # video => streams'[v] = streams[v]
    BY <1>2, <2>1, <2>3, ResourceTypes DEF Bucket, Option
  <2>5. Resources!TypeOK'
    <3>1. blind' \in BOOLEAN
      BY <2>1
    <3>2. stream_state' \in Resources!Option(Resources!State)
      BY <1>3, <2>1 DEF Resources!Option
    <3> HIDE DEF new
    <3> QED
      BY <1>1, <2>4, <3>1, <3>2 DEF ResourceInv, Resources!TypeOK, Bucket, Option, Resources!Option
  <2>6. DelayInv'
    <3>1. CASE blind'
      BY <3>1 DEF DelayInv
    <3>2. CASE ~blind'
      <4>1. ~blind /\ meta_item.content # Loading
        BY <2>1, <3>2
      <4>2. streams[video].stream = chosen.stream /\ Resources!DelayIsOfStream /\ DelaysKept(streams)
        BY <1>1, <1>5, <4>1 DEF ResourceInv, DelayInv
      <4>3. new.delay \in {None, chosen.stream}
        BY <4>2 DEF Resources!DelayIsOfStream
      <4>4. DelaysKept(streams')
        BY <2>3, <2>4, <4>2, <4>3 DEF DelaysKept
      <4> HIDE DEF new
      <4> QED
        BY <1>1, <2>1, <2>3, <2>4, <4>2, <4>3, <4>4 DEF DelayInv, Resources!DelayIsOfStream
    <3> QED
      BY <3>1, <3>2
  <2>7. WaitInv' /\ NextInv' /\ Resources!SubtitlesOfVideo'
    BY <1>1 DEF ResourceInv, WaitInv, Waits, UnderWay, NextInv, Resources!Ready, Resources!SubtitlesOfVideo
  <2> QED
    BY <1>1, <2>5, <2>6, <2>7 DEF ResourceInv, NoneSelected
<1> QED
  BY <1>4, <1>5

LEMMA ResourceSession ==
  ASSUME ResourceInv, NEW new \in Resources!Option(Keys), Resources!SessionChanged(new)
  PROVE  ResourceInv'
<1>1. /\ key' = new /\ streams' = [v \in Resources!VideoIds |-> None] /\ stream_state' = None
      /\ UNCHANGED <<chosen, meta_item, video_params, subtitles, next_video, next_streams, next_stream, skip_gaps,
                     calls, blind>>
  BY DEF Resources!SessionChanged
<1>2. Resources!TypeOK'
  BY <1>1 DEF ResourceInv, Resources!TypeOK, Resources!Option
<1>3. WaitInv' /\ NextInv' /\ Resources!SubtitlesOfVideo'
  BY <1>1 DEF ResourceInv, WaitInv, Waits, UnderWay, NextInv, Resources!Ready, Resources!SubtitlesOfVideo
<1>4. DelayInv'
  BY <1>1, ResourceTypes DEF Selection, DelayInv, Resources!DelayIsOfStream, DelaysKept
<1> QED
  BY <1>1, <1>2, <1>3, <1>4 DEF ResourceInv, NoneSelected

\* A future that ended leaves the others under way.
LEMMA EndedIs ==
  ASSUME calls = [t \in Slots |-> calls[t]], NEW s \in Slots
  PROVE  LET left == Resources!Ended(calls, s) IN
         /\ left = [t \in Slots |-> left[t]]
         /\ \A t \in Slots : t # s => left[t] = calls[t]
         /\ \A r : r # calls[s] /\ r # Free /\ UnderWay(calls, r) => \E t \in Slots : left[t] = r
BY DEF Resources!Ended, UnderWay

LEMMA ResourceUnseen ==
  ASSUME ResourceInv, NEW s \in Slots, calls[s].kind # "gaps", Resources!ResultUnseen(s)
  PROVE  ResourceInv'
<1>1. /\ chosen = None /\ calls' = Resources!Ended(calls, s)
      /\ UNCHANGED <<chosen, meta_item, video_params, subtitles, next_video, next_streams, next_stream, skip_gaps,
                     stream_state, streams, key, blind>>
  BY DEF Resources!ResultUnseen
<1>2. Resources!TypeOK'
  BY <1>1 DEF ResourceInv, Resources!TypeOK, Resources!Option
<1>3. NextInv' /\ Resources!SubtitlesOfVideo' /\ DelayInv'
  BY <1>1 DEF ResourceInv, NextInv, Resources!Ready, Resources!SubtitlesOfVideo, DelayInv,
     Resources!DelayIsOfStream, DelaysKept
<1>4. calls' = [t \in Slots |-> calls'[t]]
  BY <1>1, EndedIs DEF ResourceInv
<1>5. WaitInv'
  <2>1. Waits(skip_gaps, "gaps")'
    BY <1>1, EndedIs DEF ResourceInv, WaitInv, Waits, UnderWay
  <2> QED
    BY <1>1, <2>1 DEF ResourceInv, NoneSelected, WaitInv, Waits
<1> QED
  BY <1>1, <1>2, <1>3, <1>4, <1>5 DEF ResourceInv, NoneSelected

\* What waits for another answer still does after one, whatever is asked for then.
LEMMA StillWaits ==
  ASSUME ResourceInv, NEW s \in Slots, NEW asked, calls' \in SentAll(Resources!Ended(calls, s), asked)
  PROVE  /\ calls' = [t \in Slots |-> calls'[t]]
         /\ \A r \in asked : UnderWay(calls', r)
         /\ \A r : r # calls[s] /\ r # Free /\ UnderWay(calls, r) => UnderWay(calls', r)
<1> DEFINE left == Resources!Ended(calls, s)
<1>1. /\ left = [t \in Slots |-> left[t]]
      /\ \A r : r # calls[s] /\ r # Free /\ UnderWay(calls, r) => \E t \in Slots : left[t] = r
  BY EndedIs DEF ResourceInv
<1> HIDE DEF left
<1>2. /\ calls' = [t \in Slots |-> calls'[t]]
      /\ \A t \in Slots : left[t] # Free => calls'[t] = left[t]
      /\ \A r \in asked : UnderWay(calls', r)
  <2>1. calls' \in SentAll(left, asked)
    BY DEF left
  <2> QED
    BY <1>1, <2>1, SentAllIs
<1> QED
  BY <1>1, <1>2 DEF UnderWay

LEMMA ResourceGaps ==
  ASSUME ResourceInv, NEW s \in Slots, calls[s].kind = "gaps", NEW result \in {Failed, "ready"},
         Resources!SkipGapsResult(s, result)
  PROVE  ResourceInv'
<1> DEFINE got == [request |-> calls[s], content |-> result]
           want == Resources!WantedGaps(chosen, meta_item, video_params)
           asked == Resources!GapsRequests(got, want)
<1>1. /\ skip_gaps' = Resources!Gaps(got, want)
      /\ calls' \in SentAll(Resources!Ended(calls, s), asked)
      /\ UNCHANGED <<chosen, meta_item, video_params, subtitles, next_video, next_streams, next_stream,
                     stream_state, streams, key, blind>>
  BY DEF Resources!SkipGapsResult, SentAll, Resources!SentAll
<1>2. /\ calls' = [t \in Slots |-> calls'[t]]
      /\ \A r \in asked : UnderWay(calls', r)
      /\ \A r : r # calls[s] /\ r # Free /\ UnderWay(calls, r) => UnderWay(calls', r)
  BY <1>1, StillWaits
<1>3. Waits(skip_gaps, "gaps")'
  <2>1. \/ skip_gaps' = got
        \/ /\ skip_gaps'.request \in asked
           /\ skip_gaps'.request.kind = "gaps" /\ skip_gaps'.request # Free
    <3>1. key \in Resources!Option(Keys) /\ video_params \in Resources!Option(Params)
      BY DEF ResourceInv, Resources!TypeOK
    <3>2. chosen = None \/ chosen \in Selection
      BY ResourceTypes
    <3> HIDE DEF got
    <3> QED
      BY <1>1, <3>1, <3>2, GapsAre
  <2>2. got.content # Loading /\ got.request.kind = "gaps"
    BY ResourceValues
  <2> QED
    BY <1>2, <2>1, <2>2 DEF Waits
<1>4. WaitInv'
  BY <1>1, <1>2, <1>3 DEF ResourceInv, WaitInv, Waits
<1>5. Resources!TypeOK'
  BY <1>1 DEF ResourceInv, Resources!TypeOK, Resources!Option
<1>6. NextInv' /\ Resources!SubtitlesOfVideo' /\ DelayInv' /\ NoneSelected'
  BY <1>1 DEF ResourceInv, NextInv, Resources!Ready, Resources!SubtitlesOfVideo, DelayInv,
     Resources!DelayIsOfStream, DelaysKept, NoneSelected
<1> QED
  BY <1>1, <1>2, <1>4, <1>5, <1>6 DEF ResourceInv

\* An answer ends the request it is for and no other, and is of what was asked for.
LEMMA ResourceResult ==
  ASSUME ResourceInv, NEW s \in Slots, calls[s].kind # "gaps", NEW result \in Resources!Results(calls[s]),
         Resources!ResourceRequestResult(s, result)
  PROVE  ResourceInv'
<1> DEFINE request == calls[s]
           want == Resources!WantedGaps(chosen, meta_item', video_params)
           listed == Resources!Answered(next_streams, request, result)
           asked == Resources!NextStreamsRequest(listed, next_video') \cup Resources!GapsRequests(skip_gaps, want)
           noted == IF request.kind = "meta" THEN chosen ELSE None
<1>1. /\ chosen # None
      /\ meta_item' = Resources!Answered(meta_item, request, result)
      /\ subtitles' = Resources!Answered(subtitles, request, result)
      /\ next_video' = Resources!NextVideo(chosen, meta_item', next_stream)
      /\ next_streams' = Resources!NextStreams(listed, next_video')
      /\ next_stream' = Resources!NextStream(next_streams', chosen)
      /\ Resources!NoteStream(noted, meta_item', stream_state)
      /\ skip_gaps' = Resources!Gaps(skip_gaps, want)
      /\ calls' \in SentAll(Resources!Ended(calls, s), asked)
      /\ UNCHANGED <<chosen, video_params, key, blind>>
  BY DEF Resources!ResourceRequestResult, SentAll, Resources!SentAll
<1>2. /\ calls' = [t \in Slots |-> calls'[t]]
      /\ \A r \in asked : UnderWay(calls', r)
      /\ \A r : r # calls[s] /\ r # Free /\ UnderWay(calls, r) => UnderWay(calls', r)
  BY <1>1, StillWaits
<1>3. chosen \in Selection /\ chosen.title \in Titles /\ chosen.video \in Resources!VideoIds
  BY <1>1, ResourceTypes DEF Selection
<1>4. /\ request.kind # "stream" => result \in {"ready", Failed}
      /\ request.kind = "stream" => result = Failed \/ (result \in Resources!Stream /\ result.of = request.of) \/ request \notin StreamRequests
  BY DEF Resources!Results, StreamRequests, Resources!StreamRequest, Resources!Stream
<1>5. /\ meta_item' \in Resources!Loaded(MetaRequests, {"ready"}) /\ meta_item' # None
      /\ meta_item'.request = meta_item.request
      /\ meta_item'.content = Loading => meta_item' = meta_item /\ meta_item'.request # request
      /\ meta_item' # meta_item => request.kind = "meta"
  <2>1. meta_item # None /\ meta_item.request.kind = "meta"
    BY <1>1 DEF ResourceInv, WaitInv, Waits
  <2>2. meta_item.request = request => result \in {"ready"} \cup {Failed}
    BY <1>4, <2>1
  <2> QED
    BY <1>1, <2>1, <2>2, ResourceTypes, ResourceValues, AnsweredIs
<1>6. /\ subtitles' \in Resources!Loaded(SubtitlesRequests, {"ready"})
      /\ subtitles' # None => /\ subtitles # None /\ subtitles'.request = subtitles.request
                              /\ subtitles'.content = Loading => subtitles' = subtitles /\ subtitles'.request # request
  <2>1. subtitles # None => subtitles.request.kind = "subtitles"
    BY DEF ResourceInv, WaitInv, Waits
  <2>2. subtitles # None /\ subtitles.request = request => result \in {"ready"} \cup {Failed}
    BY <1>4, <2>1
  <2> QED
    BY <1>1, <2>1, <2>2, ResourceTypes, ResourceValues, AnsweredIs
<1>7. /\ listed \in Resources!Loaded(StreamRequests, Resources!Stream) /\ StreamsOf(listed)
      /\ listed # None => /\ next_streams # None /\ listed.request = next_streams.request
                          /\ listed.content = Loading => listed = next_streams /\ listed.request # request
  <2>1. next_streams # None => next_streams.request.kind = "stream" /\ next_streams.request \in StreamRequests
    BY ResourceTypes DEF ResourceInv, WaitInv, Waits, Resources!Loaded, Resources!Option
  <2>2. next_streams # None /\ next_streams.request = request =>
          result = Failed \/ (result \in Resources!Stream /\ result.of = request.of)
    BY <1>4, <2>1
  <2>3. /\ listed \in Resources!Loaded(StreamRequests, Resources!Stream)
        /\ next_streams = None => listed = None
        /\ next_streams # None => listed.request = next_streams.request
        /\ listed # None /\ listed.content = Loading => listed = next_streams /\ listed.request # request
        /\ listed # next_streams => next_streams.request = request /\ listed.content = result
    BY <2>2, ResourceTypes, ResourceValues, AnsweredIs
  <2> HIDE DEF listed
  <2>4. StreamsOf(listed)
    <3>1. CASE listed = next_streams
      BY <3>1, ResourceTypes
    <3>2. CASE listed # next_streams
      BY <2>2, <2>3, <3>2 DEF StreamsOf, Resources!Ready
    <3> QED
      BY <3>1, <3>2
  <2> QED
    BY <2>3, <2>4
<1> HIDE DEF listed
<1>8. next_video' = None \/ next_video' \in [id : Resources!VideoIds, stream : Resources!Option(Resources!Stream)]
  BY <1>1, <1>3, NextVideoIs, ResourceTypes DEF Option, Resources!Option
<1>9. /\ next_streams' \in Resources!Loaded(StreamRequests, Resources!Stream) /\ StreamsOf(next_streams')
      /\ next_video' # None => next_streams'.request = Resources!StreamRequest(next_video'.id)
      /\ \/ next_streams' = listed
         \/ /\ next_streams'.content = Loading
            /\ next_streams'.request \in Resources!NextStreamsRequest(listed, next_video')
      /\ next_stream' \in Option(Resources!Stream)
      /\ next_stream' # None => Resources!Ready(next_streams') /\ next_stream' = next_streams'.content
  <2>1. next_video' = None \/ next_video'.id \in Resources!VideoIds
    BY <1>8
  <2> QED
    BY <1>1, <1>7, <2>1, NextStreamsAre
<1>10. /\ streams' \in Bucket /\ stream_state' \in Option(Resources!State)
       /\ DelaysKept(streams) => DelaysKept(streams')
       /\ IF noted # None /\ meta_item' # None /\ meta_item'.content # Loading
            THEN /\ streams'[noted.video].stream = noted.stream
                 /\ DelaysKept(streams) /\ stream_state' # None => stream_state'.delay \in {None, noted.stream}
            ELSE streams' = streams /\ stream_state' = stream_state
  <2>1. noted = None \/ noted \in Selection
    BY <1>3
  <2>2. streams \in Bucket /\ stream_state \in Option(Resources!State)
    BY ResourceTypes
  <2> HIDE DEF noted
  <2> QED
    BY <1>1, <2>1, <2>2, NoteStreamIs
<1>11. Resources!TypeOK'
  BY <1>1, <1>3, <1>5, <1>6, <1>8, <1>9, <1>10
     DEF ResourceInv, Resources!TypeOK, Selection, Bucket, MetaRequests, SubtitlesRequests, StreamRequests,
         Option, Resources!Option
<1>12. WaitInv'
  <2>1. Waits(meta_item, "meta")'
    BY <1>1, <1>2, <1>5 DEF ResourceInv, WaitInv, Waits
  <2>2. Waits(subtitles, "subtitles")'
    BY <1>2, <1>6 DEF ResourceInv, WaitInv, Waits
  <2>3. Waits(next_streams, "stream")'
    <3>1. CASE next_streams' = listed
      BY <1>2, <1>7, <3>1 DEF ResourceInv, WaitInv, Waits
    <3>2. CASE next_streams'.request \in Resources!NextStreamsRequest(listed, next_video')
      <4>1. next_video' # None /\ next_streams'.request = Resources!StreamRequest(next_video'.id)
        BY <3>2 DEF Resources!NextStreamsRequest
      <4>2. next_streams'.request.kind = "stream" /\ next_streams'.request # Free
        BY <1>8, <4>1, ResourceValues DEF Resources!StreamRequest
      <4> QED
        BY <1>2, <3>2, <4>2 DEF Waits
    <3> QED
      BY <1>9, <3>1, <3>2
  <2>4. Waits(skip_gaps, "gaps")'
    <3>1. \/ skip_gaps' = skip_gaps
          \/ /\ skip_gaps'.request \in Resources!GapsRequests(skip_gaps, want)
             /\ skip_gaps'.request.kind = "gaps" /\ skip_gaps'.request # Free
      BY <1>1, <1>3, GapsAre DEF ResourceInv, Resources!TypeOK
    <3> QED
      BY <1>2, <3>1 DEF ResourceInv, WaitInv, Waits
  <2> QED
    BY <2>1, <2>2, <2>3, <2>4 DEF WaitInv
<1>13. NextInv'
  BY <1>9 DEF NextInv, StreamsOf
<1>14. DelayInv'
  <2>1. CASE request.kind = "meta"
    BY <1>1, <1>5, <1>10, <2>1 DEF ResourceInv, DelayInv, Resources!DelayIsOfStream
  <2>2. CASE request.kind # "meta"
    BY <1>1, <1>5, <1>10, <2>2 DEF ResourceInv, DelayInv, Resources!DelayIsOfStream
  <2> QED
    BY <2>1, <2>2
<1>15. Resources!SubtitlesOfVideo'
  BY <1>1, <1>6 DEF ResourceInv, Resources!SubtitlesOfVideo
<1> QED
  BY <1>1, <1>2, <1>5, <1>11, <1>12, <1>13, <1>14, <1>15 DEF ResourceInv, NoneSelected

LEMMA ResourceStart == Resources!Init => ResourceInv
<1> SUFFICES ASSUME Resources!Init PROVE ResourceInv
  OBVIOUS
<1>1. /\ chosen = None /\ meta_item = None /\ video_params = None /\ subtitles = None
      /\ next_video = None /\ next_streams = None /\ next_stream = None
      /\ skip_gaps = None /\ stream_state = None
      /\ streams = [v \in Resources!VideoIds |-> None] /\ key \in Resources!Option(Keys)
      /\ calls = [s \in Slots |-> Free] /\ blind = FALSE
  BY DEF Resources!Init, Resources!NoFlight
<1>2. Resources!TypeOK
  <2>1. blind \in BOOLEAN
    BY <1>1
  <2>2. streams \in [Resources!VideoIds -> Resources!Option([stream : Resources!Stream, state : Resources!Option(Resources!State)])]
    BY <1>1 DEF Resources!Option
  <2> QED
    BY <1>1, <2>1, <2>2 DEF Resources!TypeOK, Resources!Option, Resources!Loaded
<1>3. WaitInv /\ NextInv /\ DelayInv
  BY <1>1 DEF WaitInv, Waits, NextInv, Resources!Ready, DelayInv, Resources!DelayIsOfStream, DelaysKept
<1> QED
  BY <1>1, <1>2, <1>3 DEF ResourceInv, NoneSelected, Resources!SubtitlesOfVideo

LEMMA ResourceNext ==
  ASSUME ResourceInv, Resources!Next
  PROVE  ResourceInv'
<1>1. ASSUME NEW title \in Titles, NEW video \in Resources!VideosOf(title), NEW group \in Resources!Option(Groups),
             Resources!Load(title, video, [of |-> video, group |-> group])
      PROVE  ResourceInv'
  BY <1>1, ResourceLoad DEF Resources!Option, Option
<1>2. ASSUME NEW s \in Slots, Resources!Answer(s)
      PROVE  ResourceInv'
  <2>1. CASE calls[s].kind = "gaps"
    <3>1. PICK result \in Resources!Results(calls[s]) : Resources!SkipGapsResult(s, result)
      BY <1>2, <2>1 DEF Resources!Answer
    <3>2. result \in {Failed, "ready"}
      BY <2>1, <3>1 DEF Resources!Results
    <3> QED
      BY <2>1, <3>1, <3>2, ResourceGaps
  <2>2. CASE calls[s].kind # "gaps"
    BY <1>2, <2>2, ResourceUnseen, ResourceResult DEF Resources!Answer
  <2> QED
    BY <2>1, <2>2
<1> QED
  BY <1>1, <1>2, ResourceUnload, ResourceParams, ResourceSettings, ResourceSession DEF Resources!Next

\* Gaps are taken up only while they are those wanted, or none are.
LEMMA IntroStep ==
  ASSUME Resources!Next, intro_outro' \notin {None, intro_outro},
         Resources!WantedGaps(chosen, meta_item, video_params)' # None
  PROVE  intro_outro' = Resources!WantedGaps(chosen, meta_item, video_params)'
<1> DEFINE want == Resources!WantedGaps(chosen, meta_item, video_params)
<1>1. PICK s \in Slots, result \in {Failed, "ready"} : Resources!SkipGapsResult(s, result)
  <2>1. PICK s \in Slots : Resources!Answer(s)
    BY DEF Resources!Next, Resources!Load, Resources!Unload, Resources!VideoParamsChanged,
           Resources!StreamStateChanged, Resources!SessionChanged
  <2>2. calls[s].kind = "gaps"
    BY <2>1 DEF Resources!Answer, Resources!ResourceRequestResult, Resources!ResultUnseen
  <2> QED
    BY <2>1, <2>2 DEF Resources!Answer, Resources!Results
<1> DEFINE got == [request |-> calls[s], content |-> result]
<1>2. /\ skip_gaps' = Resources!Gaps(got, want)
      /\ intro_outro' = Resources!IntroOutro(skip_gaps', chosen, meta_item)
      /\ UNCHANGED <<chosen, meta_item, video_params, key>>
  BY <1>1 DEF Resources!SkipGapsResult
<1>3. want' = want
  <2>1. chosen' = chosen /\ meta_item' = meta_item /\ video_params' = video_params /\ key' = key
    BY <1>2
  <2>2. Resources!SeriesInfo(chosen, meta_item)' = Resources!SeriesInfo(chosen, meta_item)
    BY <2>1
  <2> QED
    BY <2>1, <2>2 DEF Resources!WantedGaps
<1> HIDE DEF want
<1>4. Resources!Ready(skip_gaps') /\ intro_outro' = skip_gaps'.request
  BY <1>2 DEF Resources!IntroOutro
<1>5. ~Resources!Asks(got, want)
  BY <1>2, <1>4 DEF Resources!Gaps, Resources!Ready
<1> QED
  BY <1>2, <1>3, <1>4, <1>5 DEF want, Resources!Gaps, Resources!Asks
-----------------------------------------------------------------------------
(* Sets in order *)

Orders(R, S) ==
  /\ \A a \in S : <<a, a>> \notin R
  /\ \A a, b, c \in S : <<a, b>> \in R /\ <<b, c>> \in R => <<a, c>> \in R
  /\ \A a, b \in S : a # b => <<a, b>> \in R \/ <<b, a>> \in R

\* A finite set in an order has each of its elements, once, and those that are before
\* others are.
InOrder(s, S, R) ==
  /\ s \in Seq(S) /\ Len(s) \in Nat
  /\ \A e \in S : \E k \in 1 .. Len(s) : s[k] = e
  /\ \A j, k \in 1 .. Len(s) : s[j] \in S /\ (j < k => <<s[j], s[k]>> \in R /\ s[j] # s[k])

LEMMA SameCardinality == \A S : Transport!Cardinality(S) = Cardinality(S)
BY DEF Transport!Cardinality, Cardinality

LEMMA RankedIs ==
  ASSUME NEW S, IsFiniteSet(S), NEW R, Orders(R, S)
  PROVE  InOrder(Transport!Ranked(S, R), S, R)
<1> DEFINE Before(e) == {d \in S : <<d, e>> \in R}
           place == [e \in S |-> Cardinality(Before(e)) + 1]
           n == Cardinality(S)
<1>1. n \in Nat
  BY FS_CardinalityType
<1>2. ASSUME NEW e \in S
      PROVE  Cardinality(Before(e)) \in Int /\ Cardinality(Before(e)) \in 0 .. n - 1 /\ IsFiniteSet(Before(e))
  <2>1. IsFiniteSet(S \ {e}) /\ Cardinality(S \ {e}) = n - 1
    BY FS_RemoveElement
  <2>2. Before(e) \in SUBSET (S \ {e})
    BY DEF Orders
  <2>3. IsFiniteSet(Before(e)) /\ Cardinality(Before(e)) <= n - 1
    BY <2>1, <2>2, FS_Subset
  <2>4. Cardinality(Before(e)) \in Nat
    BY <2>3, FS_CardinalityType
  <2> QED
    BY <1>1, <2>3, <2>4
<1>3. ASSUME NEW a \in S, NEW b \in S, <<a, b>> \in R
      PROVE  place[a] < place[b]
  <2>1. Before(a) \in SUBSET Before(b) /\ a \in Before(b) /\ a \notin Before(a)
    BY <1>3 DEF Orders
  <2>2. Cardinality(Before(a)) < Cardinality(Before(b))
    <3>1. IsFiniteSet(Before(b)) /\ Cardinality(Before(a)) \in Int /\ Cardinality(Before(b)) \in Int
      BY <1>2
    <3>2. Cardinality(Before(a)) <= Cardinality(Before(b)) /\ Cardinality(Before(a)) # Cardinality(Before(b))
      BY <2>1, <3>1, FS_Subset
    <3> HIDE DEF Before
    <3> QED
      BY <3>1, <3>2
  <2>3. place[a] = Cardinality(Before(a)) + 1 /\ place[b] = Cardinality(Before(b)) + 1
    OBVIOUS
  <2>4. Cardinality(Before(a)) \in Int /\ Cardinality(Before(b)) \in Int
    BY <1>2
  <2> HIDE DEF place, Before
  <2> QED
    BY <2>2, <2>3, <2>4
<1>0. \A a, b \in S : a # b => place[a] < place[b] \/ place[b] < place[a]
  <2>1. \A a, b \in S : a # b => <<a, b>> \in R \/ <<b, a>> \in R
    BY DEF Orders
  <2>2. \A a, b \in S : <<a, b>> \in R => place[a] < place[b]
    BY <1>3
  <2> HIDE DEF place
  <2> QED
    BY <2>1, <2>2
<1>4. place \in Injection(S, 1 .. n)
  <2>1. place \in [S -> 1 .. n]
    <3> HIDE DEF n, Before
    <3>1. \A e \in S : Cardinality(Before(e)) + 1 \in 1 .. n
      BY <1>1, <1>2
    <3> QED
      BY <3>1
  <2>2. \A a, b \in S : place[a] = place[b] => a = b
    <3>1. \A e \in S : place[e] \in Int
      BY <1>1, <2>1
    <3> HIDE DEF place
    <3> QED
      BY <1>0, <3>1
  <2> QED
    BY <2>1, <2>2 DEF Injection, IsInjective
<1>5. IsFiniteSet(1 .. n) /\ Cardinality(1 .. n) = n
  BY <1>1, FS_Interval
<1>6. place \in Surjection(S, 1 .. n)
  BY <1>4, <1>5, FS_Injection
<1> DEFINE at == [k \in 1 .. n |-> CHOOSE e \in S : Transport!Cardinality(Before(e)) = k - 1]
<1>7. ASSUME NEW k \in 1 .. n
      PROVE  at[k] \in S /\ place[at[k]] = k
  <2>1. PICK e \in S : place[e] = k
    <3> HIDE DEF place, n
    <3> QED
      BY <1>6 DEF Surjection
  <2>2. Cardinality(Before(e)) + 1 = k
    BY <2>1
  <2>3. Cardinality(Before(e)) \in Int
    BY <1>2
  <2>4. at[k] \in S /\ Cardinality(Before(at[k])) = k - 1
    <3> HIDE DEF Before
    <3> QED
      BY <2>2, <2>3, SameCardinality
  <2>5. place[at[k]] = Cardinality(Before(at[k])) + 1
    BY <2>4
  <2> HIDE DEF Before, place, at
  <2> QED
    BY <1>1, <2>4, <2>5
<1>8. Transport!Ranked(S, R) = at /\ at \in Seq(S) /\ Len(at) = n
  <2>1. at \in [1 .. n -> S]
    <3> HIDE DEF Before, n
    <3> QED
      BY <1>7
  <2>2. at \in Seq(S) /\ Len(at) = n
    <3> HIDE DEF at, n
    <3> QED
      BY <1>1, <2>1
  <2>3. Transport!Ranked(S, R) = <<>> \o at
    <3>1. Transport!Cardinality(S) = n
      BY SameCardinality
    <3> QED
      BY <3>1 DEF Transport!Ranked
  <2> HIDE DEF at
  <2> QED
    BY <2>2, <2>3, ConcatEmptySeq
<1>9. \A e \in S : \E k \in 1 .. n : at[k] = e
  <2> TAKE e \in S
  <2>1. place[e] \in 1 .. n
    BY <1>4 DEF Injection
  <2>2. place[at[place[e]]] = place[e] /\ at[place[e]] \in S
    BY <1>7, <2>1
  <2> HIDE DEF place, at, n
  <2> QED
    BY <1>4, <2>1, <2>2 DEF Injection, IsInjective
<1>10. ASSUME NEW j \in 1 .. n, NEW k \in 1 .. n, j < k
       PROVE  <<at[j], at[k]>> \in R /\ at[j] # at[k]
  <2>1. at[j] \in S /\ at[k] \in S /\ place[at[j]] = j /\ place[at[k]] = k
    BY <1>7
  <2>2. \A e \in S : place[e] \in Int
    BY <1>1, <1>4 DEF Injection
  <2>3. at[j] # at[k] /\ ~(place[at[k]] < place[at[j]])
    <3> HIDE DEF place, at, n
    <3> QED
      BY <1>1, <1>10, <2>1
  <2>4. <<at[j], at[k]>> \in R \/ <<at[k], at[j]>> \in R
    <3> HIDE DEF place, at, n
    <3> QED
      BY <2>1, <2>3 DEF Orders
  <2>5. <<at[k], at[j]>> \in R => place[at[k]] < place[at[j]]
    BY <1>3, <2>1
  <2> QED
    BY <2>3, <2>4, <2>5
<1> HIDE DEF at, n
<1> QED
  BY <1>1, <1>7, <1>8, <1>9, <1>10 DEF InOrder

\* The elements of a sequence at some places are in the order of the places.
LEMMA KeptIs ==
  ASSUME NEW s, NEW N \in Nat, NEW places \in SUBSET (1 .. N)
  PROVE  LET t == Transport!Kept(s, places)
         IN /\ t \in Seq({s[i] : i \in places})
            /\ \E at \in [DOMAIN t -> places] :
                 /\ \A n \in DOMAIN t : t[n] = s[at[n]]
                 /\ \A i \in places : \E n \in DOMAIN t : at[n] = i
                 /\ \A m, n \in DOMAIN t : m < n => at[m] < at[n]
<1> DEFINE R == {pair \in places \X places : pair[1] < pair[2]}
           at == Transport!Ranked(places, R)
           t == Transport!Kept(s, places)
<1>1. IsFiniteSet(places)
  <2>1. IsFiniteSet(1 .. N)
    BY FS_Interval
  <2> QED
    BY <2>1, FS_Subset
<1>2. \A i \in places : i \in Int
  OBVIOUS
<1>3. \A i, j \in places : <<i, j>> \in R <=> i < j
  OBVIOUS
<1>4. Orders(R, places)
  <2> HIDE DEF R
  <2> QED
    BY <1>2, <1>3 DEF Orders
<1>5. InOrder(at, places, R)
  <2> HIDE DEF R
  <2> QED
    BY <1>1, <1>4, RankedIs
<1>6. t = [n \in DOMAIN at |-> s[at[n]]]
  BY DEF Transport!Kept
<1> HIDE DEF at, R, t
<1>7. at \in [1 .. Len(at) -> places] /\ DOMAIN at = 1 .. Len(at) /\ Len(at) \in Nat
  BY <1>5 DEF InOrder
<1>8. DOMAIN t = 1 .. Len(at) /\ \A n \in 1 .. Len(at) : t[n] = s[at[n]]
  BY <1>6, <1>7
<1>9. t \in Seq({s[i] : i \in places})
  <2>1. t \in [1 .. Len(at) -> {s[i] : i \in places}]
    BY <1>6, <1>7
  <2> QED
    BY <1>7, <2>1
<1>10. /\ \A i \in places : \E n \in 1 .. Len(at) : at[n] = i
       /\ \A m, n \in 1 .. Len(at) : m < n => at[m] < at[n]
  BY <1>3, <1>5 DEF InOrder
<1>11. at \in [DOMAIN t -> places]
  BY <1>7, <1>8
<1> QED
  BY <1>8, <1>9, <1>10, <1>11 DEF t

(* The videos of a title *)

\* Of the videos with one id the first is kept, and no video is lost.
LEMMA UniqueIs ==
  ASSUME NEW V, NEW videos \in Seq(V)
  PROVE  LET u == Transport!UniqueVideos(videos)
         IN /\ u \in Seq(V)
            /\ {u[n].id : n \in DOMAIN u} = {videos[i].id : i \in DOMAIN videos}
            /\ \A m, n \in DOMAIN u : u[m].id = u[n].id => m = n
<1> DEFINE first == {i \in DOMAIN videos : \A j \in 1 .. i - 1 : videos[j].id # videos[i].id}
           u == Transport!UniqueVideos(videos)
<1>1. u = Transport!Kept(videos, first)
  BY DEF Transport!UniqueVideos
<1>2. DOMAIN videos = 1 .. Len(videos) /\ Len(videos) \in Nat
  OBVIOUS
<1>3. first \in SUBSET (1 .. Len(videos))
  BY <1>2
<1> HIDE DEF first
<1>4. /\ Transport!Kept(videos, first) \in Seq({videos[i] : i \in first})
      /\ \E at \in [DOMAIN Transport!Kept(videos, first) -> first] :
           /\ \A n \in DOMAIN Transport!Kept(videos, first) : Transport!Kept(videos, first)[n] = videos[at[n]]
           /\ \A i \in first : \E n \in DOMAIN Transport!Kept(videos, first) : at[n] = i
           /\ \A m, n \in DOMAIN Transport!Kept(videos, first) : m < n => at[m] < at[n]
  BY <1>2, <1>3, KeptIs
<1> HIDE DEF u
<1>5. u \in Seq({videos[i] : i \in first})
  BY <1>1, <1>4
<1>6. PICK at \in [DOMAIN u -> first] :
        /\ \A n \in DOMAIN u : u[n] = videos[at[n]]
        /\ \A i \in first : \E n \in DOMAIN u : at[n] = i
        /\ \A m, n \in DOMAIN u : m < n => at[m] < at[n]
  BY <1>1, <1>4
<1>7. u \in Seq(V)
  <2>1. {videos[i] : i \in first} \subseteq V
    BY <1>3
  <2>2. u \in [1 .. Len(u) -> V] /\ Len(u) \in Nat
    BY <1>5, <2>1
  <2> QED
    BY <2>2
<1>8. \A i \in 1 .. Len(videos) : \E k \in first : videos[k].id = videos[i].id
  <2> TAKE i \in 1 .. Len(videos)
  <2> DEFINE same == {k \in 1 .. Len(videos) : videos[k].id = videos[i].id}
  <2>1. same \subseteq Nat /\ same # {}
    BY <1>2
  <2>2. PICK k \in same : \A m \in same : k <= m
    <3> HIDE DEF same
    <3> QED
      BY <2>1, LeastExists
  <2>3. \A j \in 1 .. k - 1 : videos[j].id # videos[k].id
    BY <1>2, <2>2
  <2> QED
    BY <1>2, <2>2, <2>3 DEF first
<1>9. {u[n].id : n \in DOMAIN u} = {videos[i].id : i \in DOMAIN videos}
  <2>1. \A n \in DOMAIN u : \E i \in DOMAIN videos : u[n].id = videos[i].id
    BY <1>2, <1>3, <1>6
  <2>2. \A i \in DOMAIN videos : \E n \in DOMAIN u : u[n].id = videos[i].id
    BY <1>2, <1>6, <1>8
  <2> QED
    BY <2>1, <2>2
<1>10. ASSUME NEW m \in DOMAIN u, NEW n \in DOMAIN u, m < n
       PROVE  u[m].id # u[n].id
  <2>1. at[m] < at[n] /\ at[m] \in 1 .. Len(videos) /\ at[n] \in first /\ at[n] \in 1 .. Len(videos)
    BY <1>3, <1>6, <1>10
  <2>2. at[m] \in 1 .. at[n] - 1
    BY <1>2, <2>1
  <2>3. videos[at[m]].id # videos[at[n]].id
    BY <2>1, <2>2 DEF first
  <2> QED
    BY <1>6, <2>3
<1>11. \A m, n \in DOMAIN u : u[m].id = u[n].id => m = n
  <2>1. DOMAIN u = 1 .. Len(u) /\ Len(u) \in Nat
    BY <1>7
  <2>2. \A m, n \in 1 .. Len(u) : m # n => m < n \/ n < m
    BY <2>1
  <2> QED
    BY <1>10, <2>1, <2>2
<1> QED
  BY <1>7, <1>9, <1>11 DEF u

\* What is before what, of videos with seasons and of videos without.
LEMMA EarlierIs ==
  ASSUME NEW a, NEW b, Transport!Numbered(a), Transport!Numbered(b), NEW is_series \in BOOLEAN, None \notin Int
  PROVE  /\ a.season # None /\ b.season # None =>
              /\ a.season \in Nat /\ b.season \in Nat /\ a.episode \in Nat /\ b.episode \in Nat
              /\ Transport!Earlier(a, b, is_series) <=>
                   \/ a.season = b.season /\ a.episode < b.episode
                   \/ a.season # b.season /\ a.season # 0 /\ (b.season # 0 => a.season < b.season)
         /\ a.season # None /\ b.season = None => Transport!Earlier(a, b, is_series)
         /\ a.season = None /\ b.season # None => ~Transport!Earlier(a, b, is_series)
         /\ a.season = None /\ b.season = None =>
              /\ a.released # None => a.released \in Int
              /\ b.released # None => b.released \in Int
              /\ a.released # None /\ b.released # None =>
                   (Transport!Earlier(a, b, is_series) <=>
                      IF is_series THEN a.released < b.released ELSE b.released < a.released)
              /\ a.released = None \/ b.released = None =>
                   (Transport!Earlier(a, b, is_series) <=> a.released # None /\ b.released = None)
<1>1. CASE a.season # None /\ b.season # None
  <2>1. a.season \in Nat /\ b.season \in Nat /\ a.episode \in Nat /\ b.episode \in Nat
    BY <1>1 DEF Transport!Numbered
  <2>2. Transport!Earlier(a, b, is_series) <=>
          IF a.season = b.season THEN a.episode < b.episode
          ELSE Transport!Regular(a) /\ (Transport!Regular(b) => a.season < b.season)
    BY <1>1, Zenon DEF Transport!Earlier
  <2> QED
    BY <1>1, <2>1, <2>2 DEF Transport!Regular
<1>2. CASE a.season # None /\ b.season = None
  BY <1>2 DEF Transport!Earlier
<1>3. CASE a.season = None /\ b.season # None
  BY <1>3 DEF Transport!Earlier
<1>4. CASE a.season = None /\ b.season = None
  <2>1. (a.released # None => a.released \in Int) /\ (b.released # None => b.released \in Int)
    BY DEF Transport!Numbered
  <2>2. Transport!Earlier(a, b, is_series) <=>
          IF a.released # None /\ b.released # None
            THEN IF is_series THEN a.released < b.released ELSE b.released < a.released
            ELSE a.released # None /\ b.released = None
    BY <1>4, Zenon DEF Transport!Earlier
  <2> QED
    BY <1>4, <2>1, <2>2
<1> QED
  BY <1>1, <1>2, <1>3, <1>4

\* One video is before another, or the other, or they are alike.
LEMMA EarlierAsymmetric ==
  ASSUME NEW a, NEW b, Transport!Numbered(a), Transport!Numbered(b), NEW is_series \in BOOLEAN, None \notin Int
  PROVE  ~(Transport!Earlier(a, b, is_series) /\ Transport!Earlier(b, a, is_series))
<1>1. CASE a.season # None /\ b.season # None
  BY <1>1, EarlierIs
<1>2. CASE a.season # None /\ b.season = None
  BY <1>2, EarlierIs
<1>3. CASE a.season = None /\ b.season # None
  BY <1>3, EarlierIs
<1>4. CASE a.season = None /\ b.season = None
  BY <1>4, EarlierIs
<1> QED
  BY <1>1, <1>2, <1>3, <1>4

LEMMA EarlierThanLater ==
  ASSUME NEW a, NEW b, NEW c, Transport!Numbered(a), Transport!Numbered(b), Transport!Numbered(c), NEW is_series \in BOOLEAN,
         None \notin Int, Transport!Earlier(a, c, is_series)
  PROVE  Transport!Earlier(a, b, is_series) \/ Transport!Earlier(b, c, is_series)
<1>1. CASE a.season # None /\ b.season # None /\ c.season # None
  BY <1>1, EarlierIs
<1>2. CASE a.season # None /\ b.season = None
  BY <1>2, EarlierIs
<1>3. CASE a.season = None /\ b.season # None
  BY <1>3, EarlierIs
<1>4. CASE a.season = None /\ b.season = None
  BY <1>4, EarlierIs
<1>5. CASE a.season # None /\ b.season # None /\ c.season = None
  BY <1>5, EarlierIs
<1> QED
  BY <1>1, <1>2, <1>3, <1>4, <1>5

\* A sequence is another one in some order.
Arranges(at, t, s) ==
  /\ at \in [DOMAIN t -> DOMAIN s]
  /\ \A n \in DOMAIN t : t[n] = s[at[n]]
  /\ \A i \in DOMAIN s : \E n \in DOMAIN t : at[n] = i
  /\ \A m, n \in DOMAIN t : at[m] = at[n] => m = n

\* Sorted, the videos are all there, none before one that is earlier.
LEMMA SortedIs ==
  ASSUME NEW V, NEW videos \in Seq(V), \A video \in V : Transport!Numbered(video), None \notin Int
  PROVE  LET sorted == Transport!SortedVideos(videos)
         IN /\ sorted \in Seq(V)
            /\ \E at : Arranges(at, sorted, videos)
            /\ (\E i \in DOMAIN videos : videos[i].season # None) =>
                 \A m, n \in DOMAIN sorted : m < n => ~Transport!Earlier(sorted[n], sorted[m], TRUE)
            /\ ~(\E i \in DOMAIN videos : videos[i].season # None) =>
                 \A m, n \in DOMAIN sorted : m < n => ~Transport!Earlier(sorted[n], sorted[m], FALSE)
<1> DEFINE is_series == \E i \in DOMAIN videos : videos[i].season # None
           before(j, i) ==
             \/ Transport!Earlier(videos[j], videos[i], is_series)
             \/ ~Transport!Earlier(videos[i], videos[j], is_series) /\ j < i
           places == DOMAIN videos
           R == {pair \in places \X places : before(pair[1], pair[2])}
           at == Transport!Ranked(places, R)
           sorted == Transport!SortedVideos(videos)
<1>1. places = 1 .. Len(videos) /\ Len(videos) \in Nat
  OBVIOUS
<1>2. IsFiniteSet(places)
  BY <1>1, FS_Interval
<1>3. is_series \in BOOLEAN
  OBVIOUS
<1>4. \A i \in places : Transport!Numbered(videos[i])
  BY <1>1
<1>5. \A i, j \in places : <<i, j>> \in R <=> before(i, j)
  OBVIOUS
<1> HIDE DEF is_series, R
<1> DEFINE E(i, j) == Transport!Earlier(videos[i], videos[j], is_series)
<1>6. \A i, j \in places : ~(E(i, j) /\ E(j, i))
  BY <1>3, <1>4, EarlierAsymmetric
<1>7. \A i, j, k \in places : E(i, k) => E(i, j) \/ E(j, k)
  BY <1>3, <1>4, EarlierThanLater
<1>8. \A i, j \in places : <<i, j>> \in R <=> E(i, j) \/ (~E(j, i) /\ i < j)
  BY <1>5
<1>9. \A i \in places : i \in Int
  BY <1>1
<1> HIDE DEF E, places
<1>10. Orders(R, places)
  <2>1. \A a \in places : <<a, a>> \notin R
    BY <1>6, <1>8, <1>9
  <2>2. \A a, b, c \in places : <<a, b>> \in R /\ <<b, c>> \in R => <<a, c>> \in R
    <3> TAKE a, b, c \in places
    <3>1. /\ ~(E(a, b) /\ E(b, a)) /\ ~(E(b, c) /\ E(c, b)) /\ ~(E(a, c) /\ E(c, a))
          /\ (E(c, a) => E(c, b) \/ E(b, a))
          /\ (E(a, b) => E(a, c) \/ E(c, b)) /\ (E(b, c) => E(b, a) \/ E(a, c))
      BY <1>6, <1>7
    <3>2. a < b /\ b < c => a < c
      BY <1>9
    <3> QED
      BY <1>8, <3>1, <3>2
  <2>3. \A a, b \in places : a # b => <<a, b>> \in R \/ <<b, a>> \in R
    BY <1>8, <1>9
  <2> QED
    BY <2>1, <2>2, <2>3 DEF Orders
<1>11. InOrder(at, places, R)
  BY <1>2, <1>10, RankedIs
<1>12. sorted = [n \in DOMAIN at |-> videos[at[n]]]
  BY DEF Transport!SortedVideos, R, places, is_series
<1> HIDE DEF at, sorted
<1>13. at \in [1 .. Len(at) -> places] /\ DOMAIN at = 1 .. Len(at) /\ Len(at) \in Nat
  BY <1>11 DEF InOrder
<1>14. DOMAIN sorted = 1 .. Len(at) /\ \A n \in 1 .. Len(at) : sorted[n] = videos[at[n]]
  BY <1>12, <1>13
<1>15. sorted \in Seq(V)
  <2>1. sorted \in [1 .. Len(at) -> V]
    BY <1>12, <1>13 DEF places
  <2> QED
    BY <1>13, <2>1
<1>16. \A i \in places : \E n \in 1 .. Len(at) : at[n] = i
  BY <1>11 DEF InOrder
<1>17. \A m, n \in 1 .. Len(at) : m < n => <<at[m], at[n]>> \in R /\ at[m] # at[n]
  BY <1>11 DEF InOrder
<1>18. \A m, n \in 1 .. Len(at) : at[m] = at[n] => m = n
  <2>1. \A m, n \in 1 .. Len(at) : m # n => m < n \/ n < m
    BY <1>13
  <2> QED
    BY <1>17, <2>1
<1>19. \A m, n \in 1 .. Len(at) : m < n => ~Transport!Earlier(sorted[n], sorted[m], is_series)
  <2>1. \A m, n \in 1 .. Len(at) : m < n => ~E(at[n], at[m])
    BY <1>6, <1>8, <1>13, <1>17
  <2> QED
    BY <1>14, <2>1 DEF E
<1>20. at \in [DOMAIN sorted -> places]
  BY <1>13, <1>14
<1>21. Arranges(at, sorted, videos)
  BY <1>14, <1>16, <1>18, <1>20 DEF Arranges, places
<1>22. /\ is_series => \A m, n \in DOMAIN sorted : m < n => ~Transport!Earlier(sorted[n], sorted[m], TRUE)
       /\ ~is_series => \A m, n \in DOMAIN sorted : m < n => ~Transport!Earlier(sorted[n], sorted[m], FALSE)
  <2>1. \A m, n \in DOMAIN sorted : m < n => ~Transport!Earlier(sorted[n], sorted[m], is_series)
    BY <1>14, <1>19
  <2>2. CASE is_series
    <3>1. is_series = TRUE
      BY <2>2, Zenon
    <3> QED
      BY <2>1, <2>2, <3>1
  <2>3. CASE ~is_series
    <3>1. is_series = FALSE
      BY <1>3, <2>3, SMT
    <3> QED
      BY <2>1, <2>3, <3>1
  <2> QED
    BY <2>2, <2>3
<1> QED
  BY <1>15, <1>21, <1>22 DEF sorted, is_series, places

\* The videos of a title are in the order to watch them in.
Watchable(videos, all) ==
  /\ {videos[i].id : i \in DOMAIN videos} = {all[i].id : i \in DOMAIN all}
  /\ \A i, j \in DOMAIN videos : i < j =>
       /\ videos[i].id # videos[j].id
       /\ videos[j].season # None =>
            /\ videos[i].season # None
            /\ Transport!Regular(videos[j]) => Transport!Regular(videos[i]) /\ videos[i].season <= videos[j].season
            /\ videos[i].season = videos[j].season => videos[i].episode <= videos[j].episode
       /\ videos[j].season = None /\ videos[j].released # None /\ videos[i].season = None =>
            /\ videos[i].released # None
            /\ IF \E k \in DOMAIN videos : videos[k].season # None
                 THEN videos[i].released <= videos[j].released
                 ELSE videos[i].released >= videos[j].released

LEMMA MetaItemIs ==
  ASSUME NEW V, NEW all \in Seq(V), \A video \in V : Transport!Numbered(video), None \notin Int
  PROVE  Watchable(Transport!MetaItem(all), all)
<1> DEFINE u == Transport!UniqueVideos(all)
           videos == Transport!MetaItem(all)
           is_series == \E i \in DOMAIN u : u[i].season # None
<1>1. /\ u \in Seq(V)
      /\ {u[n].id : n \in DOMAIN u} = {all[i].id : i \in DOMAIN all}
      /\ \A m, n \in DOMAIN u : u[m].id = u[n].id => m = n
  BY UniqueIs
<1>2. videos = Transport!SortedVideos(u)
  BY DEF Transport!MetaItem
<1> HIDE DEF u, videos
<1>3. /\ videos \in Seq(V)
      /\ \E at : Arranges(at, videos, u)
      /\ is_series => \A m, n \in DOMAIN videos : m < n => ~Transport!Earlier(videos[n], videos[m], TRUE)
      /\ ~is_series => \A m, n \in DOMAIN videos : m < n => ~Transport!Earlier(videos[n], videos[m], FALSE)
  BY <1>1, <1>2, SortedIs
<1>4. PICK at \in [DOMAIN videos -> DOMAIN u] :
        /\ \A n \in DOMAIN videos : videos[n] = u[at[n]]
        /\ \A i \in DOMAIN u : \E n \in DOMAIN videos : at[n] = i
        /\ \A m, n \in DOMAIN videos : at[m] = at[n] => m = n
  BY <1>3 DEF Arranges
<1>5. is_series <=> \E k \in DOMAIN videos : videos[k].season # None
  BY <1>4
<1>6. {videos[n].id : n \in DOMAIN videos} = {all[i].id : i \in DOMAIN all}
  <2>1. {videos[n].id : n \in DOMAIN videos} = {u[n].id : n \in DOMAIN u}
    BY <1>4
  <2> QED
    BY <1>1, <2>1
<1>7. is_series \in BOOLEAN
  OBVIOUS
<1>8. DOMAIN videos = 1 .. Len(videos) /\ Len(videos) \in Nat /\ \A i \in DOMAIN videos : Transport!Numbered(videos[i])
  BY <1>3
<1> HIDE DEF is_series
<1>9. ASSUME NEW i \in DOMAIN videos, NEW j \in DOMAIN videos, i < j
      PROVE  /\ videos[i].id # videos[j].id
             /\ videos[j].season # None =>
                  /\ videos[i].season # None
                  /\ Transport!Regular(videos[j]) => Transport!Regular(videos[i]) /\ videos[i].season <= videos[j].season
                  /\ videos[i].season = videos[j].season => videos[i].episode <= videos[j].episode
             /\ videos[j].season = None /\ videos[j].released # None /\ videos[i].season = None =>
                  /\ videos[i].released # None
                  /\ IF is_series THEN videos[i].released <= videos[j].released
                                  ELSE videos[i].released >= videos[j].released
  <2>1. videos[i].id # videos[j].id
    <3>1. at[i] # at[j]
      BY <1>4, <1>8, <1>9
    <3> QED
      BY <1>1, <1>4, <3>1
  <2> DEFINE a == videos[i]
             b == videos[j]
  <2>2. /\ Transport!Numbered(a) /\ Transport!Numbered(b)
        /\ is_series => ~Transport!Earlier(b, a, TRUE)
        /\ ~is_series => ~Transport!Earlier(b, a, FALSE)
    BY <1>3, <1>8, <1>9
  <2> HIDE DEF a, b
  <2>3. CASE a.season # None /\ b.season # None
    <3>1. /\ a.season \in Nat /\ b.season \in Nat /\ a.episode \in Nat /\ b.episode \in Nat
          /\ ~ \/ b.season = a.season /\ b.episode < a.episode
               \/ b.season # a.season /\ b.season # 0 /\ (a.season # 0 => b.season < a.season)
      BY <1>7, <2>2, <2>3, EarlierIs
    <3>2. /\ b.season # 0 => a.season # 0 /\ a.season <= b.season
          /\ a.season = b.season => a.episode <= b.episode
      BY <3>1
    <3> QED
      BY <2>1, <2>3, <3>2 DEF a, b, Transport!Regular
  <2>4. CASE a.season = None /\ b.season = None
    <3>1. b.released # None => a.released # None
      BY <1>7, <2>2, <2>4, EarlierIs
    <3>2. ASSUME b.released # None
          PROVE  IF is_series THEN a.released <= b.released ELSE a.released >= b.released
      <4>1. a.released \in Int /\ b.released \in Int
        BY <2>2, <2>4, <3>1, <3>2 DEF Transport!Numbered
      <4>2. is_series => ~(b.released < a.released)
        BY <2>2, <2>4, <3>1, <3>2, EarlierIs
      <4>3. ~is_series => ~(a.released < b.released)
        BY <2>2, <2>4, <3>1, <3>2, EarlierIs
      <4> QED
        BY <4>1, <4>2, <4>3
    <3> QED
      BY <2>1, <2>4, <3>1, <3>2 DEF a, b
  <2>5. CASE a.season # None /\ b.season = None
    BY <2>1, <2>5 DEF a, b
  <2>6. ~(a.season = None /\ b.season # None)
    BY <1>7, <2>2, EarlierIs
  <2> QED
    BY <2>3, <2>4, <2>5, <2>6
<1> QED
  BY <1>5, <1>6, <1>9 DEF Watchable, videos

(* What is asked *)

\* A sequence kept at all of its places is the same.
LEMMA KeptAll ==
  ASSUME NEW V, NEW s \in Seq(V)
  PROVE  Transport!Kept(s, DOMAIN s) = s
<1> DEFINE t == Transport!Kept(s, DOMAIN s)
<1>1. DOMAIN s = 1 .. Len(s) /\ Len(s) \in Nat
  OBVIOUS
<1>2. /\ t \in Seq({s[i] : i \in DOMAIN s})
      /\ \E at \in [DOMAIN t -> DOMAIN s] :
           /\ \A n \in DOMAIN t : t[n] = s[at[n]]
           /\ \A i \in DOMAIN s : \E n \in DOMAIN t : at[n] = i
           /\ \A m, n \in DOMAIN t : m < n => at[m] < at[n]
  BY <1>1, KeptIs
<1> HIDE DEF t
<1>3. PICK at \in [DOMAIN t -> DOMAIN s] :
           /\ \A n \in DOMAIN t : t[n] = s[at[n]]
           /\ \A i \in DOMAIN s : \E n \in DOMAIN t : at[n] = i
           /\ \A m, n \in DOMAIN t : m < n => at[m] < at[n]
  BY <1>2
<1>4. DOMAIN t = 1 .. Len(t) /\ Len(t) \in Nat
  BY <1>2
<1> DEFINE off == {n \in DOMAIN t : at[n] # n}
<1>5. off = {}
  <2> SUFFICES ASSUME off # {} PROVE FALSE
    OBVIOUS
  <2>1. PICK n \in off : \A m \in off : n <= m
    <3>1. off \subseteq Nat
      BY <1>4
    <3> HIDE DEF off
    <3> QED
      BY <3>1, LeastExists
  <2>2. n \in 1 .. Len(t) /\ at[n] # n /\ at[n] \in 1 .. Len(s)
    BY <1>1, <1>3, <1>4
  <2>3. \A m \in 1 .. n - 1 : at[m] = m
    BY <1>4, <2>1, <2>2
  <2>4. at[n] > n
    <3>1. ASSUME at[n] < n
          PROVE  FALSE
      <4>1. at[n] \in 1 .. n - 1 /\ at[n] \in DOMAIN t
        BY <1>1, <1>4, <2>2, <3>1
      <4>2. at[at[n]] = at[n]
        BY <2>3, <4>1
      <4>3. at[at[n]] < at[n]
        BY <1>3, <1>4, <2>2, <3>1, <4>1
      <4> QED
        BY <1>1, <2>2, <4>2, <4>3
    <3> QED
      BY <1>1, <2>2, <3>1
  <2>5. n \in DOMAIN s
    BY <1>1, <2>2, <2>4
  <2>6. PICK k \in DOMAIN t : at[k] = n
    BY <1>3, <2>5
  <2>7. k < n => at[k] = k
    BY <1>4, <2>3
  <2>8. n < k => at[n] < at[k]
    BY <1>3, <1>4, <2>2
  <2> QED
    BY <1>4, <2>2, <2>4, <2>6, <2>7, <2>8
<1>6. Len(t) = Len(s)
  <2>1. \A n \in 1 .. Len(t) : n \in 1 .. Len(s)
    BY <1>1, <1>3, <1>4, <1>5
  <2>2. \A i \in 1 .. Len(s) : i \in 1 .. Len(t)
    BY <1>1, <1>3, <1>4, <1>5
  <2>3. Len(t) > 0 => Len(t) \in 1 .. Len(t)
    BY <1>4
  <2>4. Len(s) > 0 => Len(s) \in 1 .. Len(s)
    BY <1>1
  <2>5. Len(t) <= Len(s)
    BY <1>1, <1>4, <2>1, <2>3
  <2>6. Len(s) <= Len(t)
    BY <1>1, <1>4, <2>2, <2>4
  <2>7. Len(t) \in Int /\ Len(s) \in Int
    BY <1>1, <1>4
  <2> QED
    BY <2>5, <2>6, <2>7
<1>7. \A n \in 1 .. Len(t) : t[n] = s[n]
  BY <1>3, <1>4, <1>5
<1>8. {s[i] : i \in DOMAIN s} \subseteq V
  BY <1>1
<1>9. t \in Seq(V)
  <2>1. t \in [1 .. Len(t) -> V]
    BY <1>2, <1>4, <1>8
  <2> QED
    BY <1>4, <2>1
<1>10. t = s
  BY <1>6, <1>7, <1>9, SeqEqual
<1> QED
  BY <1>10 DEF t

\* What is asked and shown is told by what the add-on is and what it answered.
TransportInv ==
  /\ addon \in Descriptors
  /\ DOMAIN sent \subseteq Paths /\ DOMAIN contents = DOMAIN sent
  /\ DOMAIN responses \subseteq DOMAIN sent
  /\ \A path \in DOMAIN sent : sent[path] = Transport!Asking(path)
  /\ \A path \in DOMAIN responses :
       /\ responses[path] \in {Failed} \cup (IF Transport!Legacy THEN Replies ELSE Bodies)
       /\ contents[path] = Transport!Content(Transport!Read(responses[path], path.resource), path.resource)
  /\ manifest \notin {None, Failed} =>
       addon.scheme = "http" /\ manifest = IF Transport!Legacy THEN Transport!FromLegacy(addon.says) ELSE addon.says

LEMMA PutIs ==
  ASSUME NEW f, NEW x, NEW value
  PROVE  /\ DOMAIN Transport!Put(f, x, value) = DOMAIN f \cup {x}
         /\ Transport!Put(f, x, value)[x] = value
         /\ \A y \in DOMAIN f : y # x => Transport!Put(f, x, value)[y] = f[y]
BY DEF Transport!Put

LEMMA TransportBegins ==
  ASSUME Transport!Init
  PROVE  TransportInv
BY DEF Transport!Init, TransportInv

LEMMA TransportSteps ==
  ASSUME TransportInv, [Transport!Next]_transportVars
  PROVE  TransportInv'
<1>1. ASSUME addon' = addon
      PROVE  /\ Transport!Legacy' <=> Transport!Legacy
             /\ \A path : Transport!Asking(path)' = Transport!Asking(path)
             /\ \A body, resource : Transport!Content(Transport!Read(body, resource), resource)' = Transport!Content(Transport!Read(body, resource), resource)
             /\ Transport!FromLegacy(addon.says)' = Transport!FromLegacy(addon.says)
  <2>1. Transport!Legacy' <=> Transport!Legacy
    BY <1>1 DEF Transport!Legacy
  <2>2. \A path : Transport!Asking(path)' = Transport!Asking(path)
    BY <1>1, <2>1 DEF Transport!Asking
  <2>3. \A body, resource : Transport!Content(Transport!Read(body, resource), resource)' = Transport!Content(Transport!Read(body, resource), resource)
    BY <1>1, <2>1 DEF Transport!Content, Transport!Read
  <2>4. Transport!FromLegacy(addon.says)' = Transport!FromLegacy(addon.says)
    BY <1>1 DEF Transport!FromLegacy
  <2> QED
    BY <2>1, <2>2, <2>3, <2>4
<1>2. CASE Transport!Manifest
  <2>1. addon' = addon /\ sent' = sent /\ contents' = contents /\ responses' = responses
    BY <1>2 DEF Transport!Manifest
  <2>2. manifest' \notin {None, Failed} =>
          addon.scheme = "http" /\ manifest' = IF Transport!Legacy THEN Transport!FromLegacy(addon.says) ELSE addon.says
    BY <1>2 DEF Transport!Manifest
  <2> QED
    BY <1>1, <2>1, <2>2 DEF TransportInv
<1>3. ASSUME NEW path \in Paths, Transport!Resource(path)
      PROVE  TransportInv'
  <2>1. addon' = addon /\ manifest' = manifest /\ responses' = responses /\ path \notin DOMAIN sent
    BY <1>3 DEF Transport!Resource
  <2>2. /\ DOMAIN sent' = DOMAIN sent \cup {path} /\ sent'[path] = Transport!Asking(path)
        /\ \A p \in DOMAIN sent : sent'[p] = sent[p]
    BY <1>3, <2>1 DEF Transport!Resource, Transport!Put
  <2>3. /\ DOMAIN contents' = DOMAIN contents \cup {path}
        /\ \A p \in DOMAIN contents : p # path => contents'[p] = contents[p]
    BY <1>3 DEF Transport!Resource, Transport!Put, TransportInv
  <2>4. \A p \in DOMAIN sent' : sent'[p] = Transport!Asking(p)'
    BY <1>1, <2>1, <2>2 DEF TransportInv
  <2>5. \A p \in DOMAIN responses' :
          /\ responses'[p] \in {Failed} \cup (IF Transport!Legacy THEN Replies ELSE Bodies)
          /\ contents'[p] = Transport!Content(Transport!Read(responses'[p], p.resource), p.resource)
    BY <2>1, <2>3 DEF TransportInv
  <2> QED
    BY <1>1, <2>1, <2>2, <2>3, <2>4, <2>5 DEF TransportInv
<1>4. ASSUME NEW path \in DOMAIN sent, NEW body \in {Failed} \cup (IF Transport!Legacy THEN Replies ELSE Bodies),
             Transport!ResourceRequestResult(path, body)
      PROVE  TransportInv'
  <2>1. addon' = addon /\ manifest' = manifest /\ sent' = sent
    BY <1>4 DEF Transport!ResourceRequestResult
  <2>2. /\ DOMAIN contents' = DOMAIN contents
        /\ contents'[path] = Transport!Content(Transport!Read(body, path.resource), path.resource)
        /\ \A p \in DOMAIN contents : p # path => contents'[p] = contents[p]
    BY <1>4 DEF Transport!ResourceRequestResult, TransportInv
  <2>3. /\ DOMAIN responses' = DOMAIN responses \cup {path} /\ responses'[path] = body
        /\ \A p \in DOMAIN responses : p # path => responses'[p] = responses[p]
    BY <1>4 DEF Transport!ResourceRequestResult, Transport!Put
  <2>4. \A p \in DOMAIN responses' :
          /\ responses'[p] \in {Failed} \cup (IF Transport!Legacy THEN Replies ELSE Bodies)
          /\ contents'[p] = Transport!Content(Transport!Read(responses'[p], p.resource), p.resource)
    BY <2>2, <2>3 DEF TransportInv
  <2> QED
    BY <1>1, <2>1, <2>2, <2>3, <2>4 DEF TransportInv
<1>5. CASE UNCHANGED transportVars
  BY <1>1, <1>5 DEF transportVars, TransportInv
<1> QED
  BY <1>2, <1>3, <1>4, <1>5 DEF Transport!Next

LEMMA BodyIs ==
  ASSUME TransportInv, NEW path \in DOMAIN responses, responses[path] # Failed
  PROVE  responses[path] \in IF Transport!Legacy THEN Replies ELSE Bodies
BY DEF TransportInv

LEMMA ItemsAre ==
  ASSUME TransportInv, NEW path \in DOMAIN responses, responses[path] # Failed,
         NEW under \in DOMAIN responses[path]
  PROVE  /\ responses[path][under].items \in Seq(Transport!ToSet(responses[path][under].items))
         /\ responses[path][under].form = "meta" =>
              \A video \in Transport!ToSet(responses[path][under].items) : Transport!Numbered(video)
<1>1. responses[path] \in Bodies \cup Replies
  BY BodyIs
<1> QED
  BY <1>1, TransportAssumption DEF Transport!BodiesAssumption

LEMMA KeysAreFinite == IsFiniteSet(Transport!ContentKeys)
<1>1. IsFiniteSet({}) /\ \A S, x : IsFiniteSet(S) => IsFiniteSet(S \cup {x})
  BY FS_EmptySet, FS_AddElement
<1>2. IsFiniteSet({} \cup {"metas"} \cup {"metasDetailed"} \cup {"meta"} \cup {"streams"}
                     \cup {"subtitles"} \cup {"addons"})
  BY <1>1, Zenon
<1>3. Transport!ContentKeys = {} \cup {"metas"} \cup {"metasDetailed"} \cup {"meta"} \cup {"streams"}
               \cup {"subtitles"} \cup {"addons"}
  BY DEF Transport!ContentKeys
<1> QED
  BY <1>2, <1>3

\* Of a response that has one of the keys, it is what that has.
LEMMA DeserializedIs ==
  ASSUME NEW body, NEW resource \in Transport!Resources
  PROVE  LET response == Transport!Deserialized(body)
             under == Transport!KeyOf(resource)
         IN /\ response.key = under => under \in DOMAIN body /\ Cardinality(Transport!ContentKeys \cap DOMAIN body) = 1
            /\ resource = "meta" /\ response.key = under =>
                 body[under].form = "meta" /\ response.content = Transport!MetaItem(body[under].items)
            /\ resource # "meta" /\ response.key = under =>
                 \/ body[under].form = "null" /\ response.content = <<>>
                 \/ body[under].form = "list" /\ response.content = Transport!Readable(body[under].items)
            /\ resource # "meta" /\ under \in DOMAIN body /\ body[under].form = "list"
                 /\ Cardinality(Transport!ContentKeys \cap DOMAIN body) = 1 =>
                 response.key = under /\ response.content = Transport!Readable(body[under].items)
<1> DEFINE theirs == Transport!ContentKeys \cap DOMAIN body
           k == CHOOSE x \in Transport!ContentKeys : x \in DOMAIN body
           under == Transport!KeyOf(resource)
<1>1. under \in Transport!ContentKeys /\ (under = "meta" <=> resource = "meta") /\ None \notin Transport!ContentKeys
  BY TransportAssumption DEF Transport!KeyOf, Transport!ContentKeys, Transport!Resources, Transport!PathsAssumption
<1>2. ASSUME Cardinality(theirs) = 1
      PROVE  k \in theirs /\ \A x \in theirs : x = k
  <2>1. IsFiniteSet(theirs)
    BY KeysAreFinite, FS_Subset
  <2>2. PICK x : theirs = {x}
    BY <1>2, <2>1, FS_Singleton
  <2>3. k \in theirs
    BY <2>2
  <2> QED
    BY <2>2, <2>3
<1>3. CASE Cardinality(theirs) # 1
  BY <1>1, <1>3, SameCardinality DEF Transport!Deserialized, Transport!NoResponse, Transport!Response
<1>4. CASE Cardinality(theirs) = 1 /\ k = "meta"
  <2>1. Transport!Deserialized(body) = IF body[k].form = "meta" THEN Transport!Response(k, Transport!MetaItem(body[k].items)) ELSE Transport!NoResponse
    BY <1>4, SameCardinality DEF Transport!Deserialized
  <2> HIDE DEF k
  <2>2. \/ body[k].form = "meta" /\ Transport!Deserialized(body) = Transport!Response(k, Transport!MetaItem(body[k].items))
        \/ Transport!Deserialized(body) = Transport!NoResponse
    BY <2>1
  <2> QED
    BY <1>1, <1>2, <1>4, <2>2 DEF Transport!NoResponse, Transport!Response
<1>5. CASE Cardinality(theirs) = 1 /\ k # "meta"
  <2>1. Transport!Deserialized(body) =
          CASE body[k].form = "null" -> Transport!Response(k, <<>>)
            [] body[k].form = "list" -> Transport!Response(k, Transport!Readable(body[k].items))
            [] OTHER -> Transport!NoResponse
    BY <1>5, SameCardinality DEF Transport!Deserialized
  <2> HIDE DEF k
  <2>2. \/ body[k].form = "null" /\ Transport!Deserialized(body) = Transport!Response(k, <<>>)
        \/ body[k].form = "list" /\ Transport!Deserialized(body) = Transport!Response(k, Transport!Readable(body[k].items))
        \/ body[k].form \notin {"null", "list"} /\ Transport!Deserialized(body) = Transport!NoResponse
    BY <2>1
  <2> QED
    BY <1>1, <1>2, <1>5, <2>2 DEF Transport!NoResponse, Transport!Response
<1> QED
  BY <1>3, <1>4, <1>5

\* ... and of one by JSON-RPC.
LEMMA MappedIs ==
  ASSUME NEW body, NEW resource \in Transport!Resources
  PROVE  LET response == Transport!Mapped(body, resource)
         IN /\ resource = "meta" /\ response.key = "meta" =>
                 /\ "result" \in DOMAIN body /\ body["result"].form = "meta"
                 /\ response.content = Transport!MetaItem(body["result"].items)
            /\ resource # "meta" /\ response.key = Transport!KeyOf(resource) =>
                 /\ "result" \in DOMAIN body /\ body["result"].form = "list"
                 /\ "bad" \notin Transport!ToSet(body["result"].items) /\ response.content = body["result"].items
<1>1. Transport!KeyOf(resource) \in Transport!ContentKeys /\ None \notin Transport!ContentKeys /\ "meta" \in Transport!ContentKeys
  BY TransportAssumption DEF Transport!KeyOf, Transport!ContentKeys, Transport!Resources, Transport!PathsAssumption
<1> QED
  BY <1>1 DEF Transport!Mapped, Transport!Response, Transport!NoResponse

LEMMA ReadableAll ==
  ASSUME NEW items, items \in Seq(Transport!ToSet(items)), "bad" \notin Transport!ToSet(items)
  PROVE  Transport!Readable(items) = items
<1>1. {i \in DOMAIN items : items[i] # "bad"} = DOMAIN items
  BY DEF Transport!ToSet
<1> QED
  BY <1>1, KeptAll DEF Transport!Readable

LEMMA TransportTypes ==
  ASSUME TransportInv
  PROVE  Transport!TypeOK
BY DEF TransportInv, Transport!TypeOK

LEMMA ResponseIsShown ==
  ASSUME TransportInv
  PROVE  Transport!ShowsTheResponse
<1> SUFFICES ASSUME NEW path \in DOMAIN responses, path.resource # "meta"
             PROVE  LET body == responses[path]
                        under == IF Transport!Legacy THEN "result" ELSE Transport!KeyOf(path.resource)
                        listed == body # Failed /\ under \in DOMAIN body /\ path.resource # "meta" /\ body[under].form = "list"
                        good == IF listed THEN Transport!Readable(body[under].items) ELSE <<>>
                    IN /\ contents[path] # Failed => listed /\ good # <<>> /\ contents[path] = good
                       /\ ~Transport!Legacy /\ listed /\ good # <<>> =>
                            contents[path] = good \/ Cardinality(Transport!ContentKeys \cap DOMAIN body) > 1
  BY SameCardinality DEF Transport!ShowsTheResponse
<1> DEFINE body == responses[path]
           under == IF Transport!Legacy THEN "result" ELSE Transport!KeyOf(path.resource)
           listed == body # Failed /\ under \in DOMAIN body /\ body[under].form = "list"
           good == Transport!Readable(body[under].items)
<1>1. path \in Paths /\ path.resource \in Transport!Resources
  BY TransportAssumption DEF TransportInv, Transport!PathsAssumption
<1>2. contents[path] = Transport!Content(Transport!Read(body, path.resource), path.resource)
  BY DEF TransportInv
<1>3. Transport!KeyOf(path.resource) \in Transport!ContentKeys /\ None \notin Transport!ContentKeys
  BY <1>1, TransportAssumption DEF Transport!KeyOf, Transport!ContentKeys, Transport!Resources, Transport!PathsAssumption
<1> HIDE DEF body
<1>4. CASE body = Failed
  <2>1. Transport!Read(body, path.resource) = Transport!NoResponse
    BY <1>4 DEF Transport!Read
  <2>2. contents[path] = Failed
    BY <1>2, <1>3, <2>1 DEF Transport!Content, Transport!NoResponse, Transport!Response
  <2> QED
    BY <1>4, <2>2 DEF body
<1>5. CASE body # Failed /\ Transport!Legacy
  <2>1. Transport!Read(body, path.resource) = Transport!Mapped(body, path.resource)
    BY <1>5 DEF Transport!Read
  <2>2. contents[path] # Failed =>
          /\ Transport!Mapped(body, path.resource).key = Transport!KeyOf(path.resource)
          /\ contents[path] = Transport!Mapped(body, path.resource).content /\ contents[path] # <<>>
    BY <1>2, <2>1 DEF Transport!Content
  <2>3. contents[path] # Failed =>
          /\ listed /\ "bad" \notin Transport!ToSet(body[under].items) /\ contents[path] = body[under].items
    BY <1>1, <1>5, <2>2, MappedIs
  <2>4. contents[path] # Failed => good = body[under].items
    BY <1>5, <2>3, ItemsAre, ReadableAll DEF body
  <2> QED
    BY <1>5, <2>2, <2>3, <2>4 DEF body
<1>6. CASE body # Failed /\ ~Transport!Legacy
  <2>1. Transport!Read(body, path.resource) = Transport!Deserialized(body)
    BY <1>6 DEF Transport!Read
  <2> DEFINE theirs == Transport!ContentKeys \cap DOMAIN body
  <2>2. contents[path] # Failed => listed /\ contents[path] = good /\ contents[path] # <<>>
    <3>1. contents[path] # Failed =>
            /\ Transport!Deserialized(body).key = Transport!KeyOf(path.resource)
            /\ contents[path] = Transport!Deserialized(body).content /\ contents[path] # <<>>
      BY <1>2, <2>1 DEF Transport!Content
    <3> QED
      BY <1>1, <1>6, <3>1, DeserializedIs
  <2>3. listed /\ good # <<>> => contents[path] = good \/ Cardinality(theirs) > 1
    <3> SUFFICES ASSUME listed, good # <<>>, ~(Cardinality(theirs) > 1)
                 PROVE  contents[path] = good
      OBVIOUS
    <3>1. IsFiniteSet(theirs)
      BY KeysAreFinite, FS_Subset
    <3>2. Cardinality(theirs) \in Nat /\ (Cardinality(theirs) = 0 <=> theirs = {})
      BY <3>1, FS_CardinalityType, FS_EmptySet
    <3>3. under \in theirs
      BY <1>3, <1>6
    <3>4. Cardinality(theirs) = 1
      BY <3>2, <3>3
    <3>5. Transport!Deserialized(body).key = Transport!KeyOf(path.resource) /\ Transport!Deserialized(body).content = good
      BY <1>1, <1>6, <3>4, DeserializedIs
    <3> QED
      BY <1>2, <2>1, <3>5 DEF Transport!Content
  <2> QED
    BY <1>6, <2>2, <2>3 DEF body
<1> QED
  BY <1>4, <1>5, <1>6

LEMMA VideosAreInOrder ==
  ASSUME TransportInv
  PROVE  Transport!VideosInOrder
<1> SUFFICES ASSUME NEW path \in DOMAIN responses, path.resource = "meta", contents[path] # Failed
             PROVE  Watchable(contents[path], responses[path][IF Transport!Legacy THEN "result" ELSE "meta"].items)
  BY Zenon DEF Transport!VideosInOrder, Watchable
<1> DEFINE body == responses[path]
           under == IF Transport!Legacy THEN "result" ELSE "meta"
<1>1. contents[path] = Transport!Content(Transport!Read(body, "meta"), "meta")
  BY DEF TransportInv
<1>2. Transport!KeyOf("meta") = "meta" /\ "meta" \in Transport!Resources /\ "meta" \in Transport!ContentKeys /\ None \notin Transport!ContentKeys \cup Int
  BY TransportAssumption DEF Transport!KeyOf, Transport!ContentKeys, Transport!Resources, Transport!PathsAssumption
<1> HIDE DEF body
<1>3. Transport!Read(body, "meta").key = "meta" /\ contents[path] = Transport!Read(body, "meta").content
  BY <1>1, <1>2 DEF Transport!Content
<1>4. body # Failed
  BY <1>2, <1>3 DEF Transport!Read, Transport!NoResponse, Transport!Response
<1>5. under \in DOMAIN body /\ body[under].form = "meta" /\ contents[path] = Transport!MetaItem(body[under].items)
  <2>1. CASE Transport!Legacy
    <3>1. Transport!Read(body, "meta") = Transport!Mapped(body, "meta")
      BY <1>4, <2>1 DEF Transport!Read
    <3> QED
      BY <1>2, <1>3, <2>1, <3>1, MappedIs
  <2>2. CASE ~Transport!Legacy
    <3>1. Transport!Read(body, "meta") = Transport!Deserialized(body)
      BY <1>4, <2>2 DEF Transport!Read
    <3> QED
      BY <1>2, <1>3, <2>2, <3>1, DeserializedIs
  <2> QED
    BY <2>1, <2>2
<1>6. /\ body[under].items \in Seq(Transport!ToSet(body[under].items))
      /\ \A video \in Transport!ToSet(body[under].items) : Transport!Numbered(video)
  BY <1>4, <1>5, ItemsAre DEF body
<1>7. Watchable(Transport!MetaItem(body[under].items), body[under].items)
  BY <1>2, <1>6, MetaItemIs
<1> QED
  BY <1>5, <1>7 DEF body

\* A manifest of a legacy add-on has what its methods are for.
LEMMA LegacySupports ==
  ASSUME NEW m, NEW path \in Paths, Transport!IsResourceSupported(Transport!FromLegacy(m), path), Transport!FromLegacy(m).prefixes # {}
  PROVE  /\ path.resource = "catalog" => "meta.find" \in m.methods
         /\ path.resource # "catalog" =>
              \/ path.resource = "meta" /\ "meta.get" \in m.methods
              \/ path.resource = "stream" /\ "stream.find" \in m.methods
              \/ path.resource = "subtitles" /\ "subtitles.get" \in m.methods
         /\ path.resource # "catalog" =>
              m.id_property # None /\ \E property \in m.id_property : Transport!PrefixOf(property) = path.id.prefix
<1> DEFINE f == Transport!FromLegacy(m)
<1>1. CASE path.resource = "catalog"
  <2>1. \E i \in DOMAIN f.catalogs : TRUE
    BY <1>1 DEF Transport!IsResourceSupported
  <2>2. f.catalogs = Transport!LegacyCatalogs(m)
    BY DEF Transport!FromLegacy
  <2>3. "meta.find" \notin m.methods => f.catalogs = <<>>
    BY <2>2 DEF Transport!LegacyCatalogs
  <2> QED
    BY <1>1, <2>1, <2>3
<1>2. CASE path.resource # "catalog"
  <2> DEFINE meta == IF "meta.get" \in m.methods THEN <<Transport!Short("meta")>> ELSE <<>>
             stream == IF "stream.find" \in m.methods THEN <<Transport!Short("stream")>> ELSE <<>>
             others == IF "subtitles.get" \in m.methods THEN <<Transport!Short("subtitles")>> ELSE <<>>
  <2>1. PICK resource \in Transport!ResourceOf(f, path.resource) :
          Transport!PrefixSupported(IF resource.full THEN resource.prefixes ELSE f.prefixes, path.id)
    BY <1>2, Zenon DEF Transport!IsResourceSupported
  <2>2. PICK i \in DOMAIN f.resources : resource = f.resources[i] /\ f.resources[i].name = path.resource
    BY <2>1 DEF Transport!ResourceOf
  <2>3. f.resources = meta \o stream \o others
    BY DEF Transport!FromLegacy
  <2>4. /\ f.resources[i].full = FALSE
        /\ \/ f.resources[i].name = "meta" /\ "meta.get" \in m.methods
           \/ f.resources[i].name = "stream" /\ "stream.find" \in m.methods
           \/ f.resources[i].name = "subtitles" /\ "subtitles.get" \in m.methods
    <3> HIDE DEF f
    <3>1. \/ f.resources[i] = Transport!Short("meta") /\ "meta.get" \in m.methods
          \/ f.resources[i] = Transport!Short("stream") /\ "stream.find" \in m.methods
          \/ f.resources[i] = Transport!Short("subtitles") /\ "subtitles.get" \in m.methods
      BY <2>2, <2>3
    <3> QED
      BY <3>1 DEF Transport!Short
  <2>5. path.id.prefix \in f.prefixes
    BY <2>1, <2>2, <2>4 DEF Transport!PrefixSupported
  <2>6. f.prefixes = IF m.id_property = None THEN {} ELSE {Transport!PrefixOf(p) : p \in m.id_property}
    BY DEF Transport!FromLegacy
  <2> QED
    BY <1>2, <2>2, <2>4, <2>5, <2>6
<1> QED
  BY <1>1, <1>2

\* The fields of a query by an id.
LEMMA QueryIs ==
  ASSUME NEW id, id.parts \in Seq(Transport!ToSet(id.parts)) \ {<<>>}
  PROVE  LET query == Transport!QueryFromId(id)
             parts == id.parts
         IN /\ id.prefix = "tt" /\ Len(parts) = 3 =>
                 /\ DOMAIN query = {"imdb_id", "season", "episode"} /\ query["imdb_id"] = parts[1]
                 /\ query["season"] = Transport!Parsed(parts[2]) /\ query["episode"] = Transport!Parsed(parts[3])
            /\ id.prefix = "tt" /\ Len(parts) # 3 => DOMAIN query = {"imdb_id"} /\ query["imdb_id"] = parts[1]
            /\ id.prefix = "UC" /\ Len(parts) = 2 =>
                 /\ DOMAIN query = {"yt_id", "video_id"}
                 /\ query["yt_id"] = parts[1] /\ query["video_id"] = parts[2]
            /\ id.prefix = "UC" /\ Len(parts) # 2 => DOMAIN query = {"yt_id"} /\ query["yt_id"] = parts[1]
            /\ id.prefix \notin {"tt", "UC"} /\ Len(parts) = 3 =>
                 /\ DOMAIN query = {parts[1], "video_id"} /\ query["video_id"] = parts[3]
                 /\ parts[1] # "video_id" => query[parts[1]] = parts[2]
            /\ id.prefix \notin {"tt", "UC"} /\ Len(parts) = 2 =>
                 DOMAIN query = {parts[1]} /\ query[parts[1]] = parts[2]
            /\ query = [field \in DOMAIN query |-> query[field]]
<1> DEFINE parts == id.parts
           query == Transport!QueryFromId(id)
<1>1. CASE id.prefix = "tt" /\ Len(parts) = 3
  <2>1. query = [imdb_id |-> parts[1], season |-> Transport!Parsed(parts[2]), episode |-> Transport!Parsed(parts[3])]
    BY <1>1 DEF Transport!QueryFromId
  <2> HIDE DEF query
  <2> QED
    BY <1>1, <2>1 DEF query
<1>2. CASE id.prefix = "tt" /\ Len(parts) # 3
  <2>1. query = [imdb_id |-> parts[1]]
    BY <1>2 DEF Transport!QueryFromId
  <2> HIDE DEF query
  <2> QED
    BY <1>2, <2>1 DEF query
<1>3. CASE id.prefix = "UC" /\ Len(parts) = 2
  <2>1. query = [yt_id |-> parts[1], video_id |-> parts[2]]
    BY <1>3 DEF Transport!QueryFromId
  <2> HIDE DEF query
  <2> QED
    BY <1>3, <2>1 DEF query
<1>4. CASE id.prefix = "UC" /\ Len(parts) # 2
  <2>1. query = [yt_id |-> parts[1]]
    BY <1>4 DEF Transport!QueryFromId
  <2> HIDE DEF query
  <2> QED
    BY <1>4, <2>1 DEF query
<1>5. CASE id.prefix \notin {"tt", "UC"} /\ Len(parts) = 3
  <2>1. query = [field \in {parts[1], "video_id"} |-> IF field = "video_id" THEN parts[3] ELSE parts[2]]
    BY <1>5 DEF Transport!QueryFromId
  <2> HIDE DEF query
  <2> QED
    BY <1>5, <2>1 DEF query
<1>6. CASE id.prefix \notin {"tt", "UC"} /\ Len(parts) = 2
  <2>1. query = [field \in {parts[1]} |-> parts[2]]
    BY <1>6 DEF Transport!QueryFromId
  <2> HIDE DEF query
  <2> QED
    BY <1>6, <2>1 DEF query
<1>7. CASE id.prefix \notin {"tt", "UC"} /\ Len(parts) \notin {2, 3}
  <2>1. query = Transport!Null
    BY <1>7 DEF Transport!QueryFromId
  <2> HIDE DEF query
  <2> QED
    BY <1>7, <2>1 DEF query, Transport!Null
<1> QED
  BY <1>1, <1>2, <1>3, <1>4, <1>5, <1>6, <1>7

\* Of an id that a legacy add-on takes, a query names the title as the add-on does.
LEMMA QueryNamesTitle ==
  ASSUME NEW path \in Paths, Len(path.id.parts) <= 3, addon \in Descriptors, Transport!Legacy,
         addon.says.id_property # None,
         NEW property \in addon.says.id_property, Transport!PrefixOf(property) = path.id.prefix
  PROVE  /\ property \in DOMAIN Transport!QueryFromId(path.id) /\ property # "type"
         /\ Transport!QueryFromId(path.id)[property] = Transport!TitleOf(path.id)
<1> DEFINE id == path.id
           query == Transport!QueryFromId(id)
<1>1. id.parts \in Seq(Transport!ToSet(id.parts)) \ {<<>>}
  BY TransportAssumption DEF Transport!PathsAssumption
<1>2. CASE property = "imdb_id"
  <2>1. id.prefix = "tt"
    BY <1>2 DEF Transport!PrefixOf
  <2> HIDE DEF query
  <2>2. DOMAIN query \in {{"imdb_id", "season", "episode"}, {"imdb_id"}} /\ query["imdb_id"] = id.parts[1]
    BY <1>1, <2>1, QueryIs DEF query
  <2> QED
    BY <1>2, <2>1, <2>2 DEF Transport!TitleOf, query
<1>3. CASE property = "yt_id"
  <2>1. id.prefix = "UC"
    BY <1>3 DEF Transport!PrefixOf
  <2> HIDE DEF query
  <2>2. DOMAIN query \in {{"yt_id", "video_id"}, {"yt_id"}} /\ query["yt_id"] = id.parts[1]
    BY <1>1, <2>1, QueryIs DEF query
  <2> QED
    BY <1>3, <2>1, <2>2 DEF Transport!TitleOf, query
<1>4. CASE property \notin {"imdb_id", "yt_id"}
  <2>1. /\ Transport!PrefixOf(property) \notin {"tt", "UC"} /\ property \notin {"video_id", "type"}
        /\ Len(id.parts) # 1 /\ id.parts[1] = property
    BY <1>4, TransportAssumption DEF Transport!PropertiesAssumption, Transport!Legacy
  <2>2. Len(id.parts) \in {2, 3}
    <3>1. Len(id.parts) \in Nat /\ Len(id.parts) # 0
      BY <1>1
    <3>2. \A n \in Nat : n # 0 /\ n # 1 /\ n <= 3 => n \in {2, 3}
      OBVIOUS
    <3> QED
      BY <2>1, <3>1, <3>2
  <2> HIDE DEF query
  <2>3. property \in DOMAIN query /\ query[property] = id.parts[2]
    BY <1>1, <2>1, <2>2, QueryIs DEF query
  <2> QED
    BY <2>1, <2>3 DEF Transport!TitleOf, query
<1> QED
  BY <1>2, <1>3, <1>4

LEMMA TransportAsks ==
  ASSUME TransportInv
  PROVE  Transport!OfferedIsAsked
<1> SUFFICES ASSUME NEW path \in DOMAIN sent, Transport!Supported(path), addon.path # "other",
                    Transport!Legacy => manifest.prefixes # {} /\ Len(path.id.parts) <= 3
             PROVE  /\ sent[path] # Transport!NoRequest
                    /\ Transport!Legacy /\ path.resource # "subtitles" => sent[path].method \in addon.says.methods
                    /\ Transport!Legacy /\ path.resource \in {"meta", "stream"} =>
                         \E property \in addon.says.id_property :
                           /\ Transport!PrefixOf(property) = path.id.prefix
                           /\ property \in DOMAIN sent[path].query
                           /\ sent[path].query[property] = Transport!TitleOf(path.id)
  BY DEF Transport!OfferedIsAsked
<1>1. path \in Paths /\ path.resource \in Transport!Resources /\ addon \in Descriptors /\ sent[path] = Transport!Asking(path)
  BY TransportAssumption DEF TransportInv, Transport!PathsAssumption
<1>2. /\ addon.scheme = "http" /\ manifest = IF Transport!Legacy THEN Transport!FromLegacy(addon.says) ELSE addon.says
      /\ Transport!IsResourceSupported(manifest, path)
  BY DEF TransportInv, Transport!Supported
<1>3. CASE ~Transport!Legacy
  <2>1. addon.path = "manifest"
    BY <1>1, <1>3, TransportAssumption DEF Transport!PropertiesAssumption, Transport!Legacy
  <2>2. sent[path] = Transport!HttpRequest(path)
    BY <1>1, <1>2, <1>3, <2>1 DEF Transport!Asking
  <2>3. Transport!HttpRequest(path) # <<>>
    BY DEF Transport!HttpRequest
  <2> QED
    BY <1>3, <2>2, <2>3 DEF Transport!NoRequest
<1>4. CASE Transport!Legacy
  <2> DEFINE m == addon.says
  <2>1. /\ path.resource = "catalog" => "meta.find" \in m.methods
        /\ path.resource # "catalog" =>
              \/ path.resource = "meta" /\ "meta.get" \in m.methods
              \/ path.resource = "stream" /\ "stream.find" \in m.methods
              \/ path.resource = "subtitles" /\ "subtitles.get" \in m.methods
        /\ path.resource # "catalog" =>
              m.id_property # None /\ \E property \in m.id_property : Transport!PrefixOf(property) = path.id.prefix
    BY <1>1, <1>2, <1>4, LegacySupports
  <2>2. sent[path] = Transport!LegacyRequest(path)
    BY <1>1, <1>2, <1>4 DEF Transport!Asking
  <2>3. CASE path.resource = "catalog"
    <3>1. sent[path] = Transport!Find(path)
      BY <2>2, <2>3 DEF Transport!LegacyRequest
    <3>2. sent[path].method = "meta.find" /\ "method" \in DOMAIN sent[path]
      BY <3>1 DEF Transport!Find
    <3> QED
      BY <2>1, <2>3, <3>2 DEF Transport!NoRequest
  <2>4. CASE path.resource = "subtitles"
    <3>1. "method" \in DOMAIN sent[path]
      BY <2>2, <2>4 DEF Transport!LegacyRequest
    <3> QED
      BY <2>4, <3>1 DEF Transport!NoRequest
  <2>5. CASE path.resource \in {"meta", "stream"}
    <3>1. PICK property \in m.id_property : Transport!PrefixOf(property) = path.id.prefix
      BY <2>1, <2>5
    <3>2. /\ property \in DOMAIN Transport!QueryFromId(path.id) /\ property # "type"
          /\ Transport!QueryFromId(path.id)[property] = Transport!TitleOf(path.id)
      BY <1>1, <1>4, <2>1, <2>5, <3>1, QueryNamesTitle
    <3>3. Transport!QueryFromId(path.id) # Transport!Null
      BY <3>2 DEF Transport!Null
    <3>4. CASE path.resource = "meta"
      <4>1. sent[path] = [method |-> "meta.get", query |-> Transport!QueryFromId(path.id)]
        BY <2>2, <3>4 DEF Transport!LegacyRequest
      <4>2. "method" \in DOMAIN sent[path] /\ sent[path].method = "meta.get" /\ sent[path].query = Transport!QueryFromId(path.id)
        BY <4>1
      <4> QED
        BY <2>1, <3>1, <3>2, <3>4, <4>2 DEF Transport!NoRequest
    <3>5. CASE path.resource = "stream"
      <4> DEFINE query == Transport!Put(Transport!QueryFromId(path.id), "type", path.type)
      <4>1. sent[path] = [method |-> "stream.find", query |-> query]
        BY <2>2, <3>3, <3>5 DEF Transport!LegacyRequest
      <4>2. "method" \in DOMAIN sent[path] /\ sent[path].method = "stream.find" /\ sent[path].query = query
        BY <4>1
      <4>3. property \in DOMAIN query /\ query[property] = Transport!TitleOf(path.id)
        BY <3>2 DEF Transport!Put
      <4> QED
        BY <2>1, <3>1, <3>5, <4>2, <4>3 DEF Transport!NoRequest
    <3> QED
      BY <2>5, <3>4, <3>5
  <2> QED
    BY <1>1, <2>1, <2>3, <2>4, <2>5
<1> QED
  BY <1>3, <1>4

\* An id of the form its prefix stands for can be told from the query.
LEMMA ProperIsTold ==
  ASSUME NEW p \in Paths, NEW q \in Paths, Transport!Proper(p.id), Transport!Proper(q.id),
         Transport!QueryFromId(p.id) = Transport!QueryFromId(q.id)
  PROVE  p.id.parts = q.id.parts
<1> DEFINE a == p.id.parts
           b == q.id.parts
           query == Transport!QueryFromId(p.id)
           S == Transport!ToSet(a) \cup Transport!ToSet(b)
<1>1. a \in Seq(Transport!ToSet(a)) \ {<<>>} /\ b \in Seq(Transport!ToSet(b)) \ {<<>>}
  BY TransportAssumption DEF Transport!PathsAssumption
<1>2. Len(a) \in Nat \ {0} /\ Len(b) \in Nat \ {0}
  BY <1>1
<1>3. \A x, y \in DOMAIN Numerals : Numerals[x] = Numerals[y] => x = y
  BY TransportAssumption DEF Transport!PathsAssumption
<1>4. query = Transport!QueryFromId(q.id)
  OBVIOUS
<1> HIDE DEF query
<1> DEFINE Told(id) ==
             \/ /\ id.prefix = "tt" /\ Len(id.parts) = 3
                /\ DOMAIN query = {"imdb_id", "season", "episode"} /\ query["imdb_id"] = id.parts[1]
                /\ query["season"] = Numerals[id.parts[2]] /\ query["episode"] = Numerals[id.parts[3]]
                /\ id.parts[2] \in DOMAIN Numerals /\ id.parts[3] \in DOMAIN Numerals
             \/ Len(id.parts) = 1 /\ DOMAIN query = {"imdb_id"} /\ query["imdb_id"] = id.parts[1]
             \/ /\ Len(id.parts) = 2 /\ DOMAIN query = {"yt_id", "video_id"}
                /\ query["yt_id"] = id.parts[1] /\ query["video_id"] = id.parts[2]
             \/ Len(id.parts) = 1 /\ DOMAIN query = {"yt_id"} /\ query["yt_id"] = id.parts[1]
             \/ /\ Len(id.parts) = 3 /\ id.parts[1] \notin {"imdb_id", "yt_id", "video_id", "type"}
                /\ DOMAIN query = {id.parts[1], "video_id"}
                /\ query["video_id"] = id.parts[3] /\ query[id.parts[1]] = id.parts[2]
             \/ /\ Len(id.parts) = 2 /\ id.parts[1] \notin {"imdb_id", "yt_id", "video_id", "type"}
                /\ DOMAIN query = {id.parts[1]} /\ query[id.parts[1]] = id.parts[2]
<1>5. ASSUME NEW id, Transport!Proper(id), query = Transport!QueryFromId(id), id.parts \in Seq(Transport!ToSet(id.parts)) \ {<<>>}
      PROVE  Told(id)
  <2>1. Len(id.parts) \in Nat \ {0}
    BY <1>5
  <2>2. CASE id.prefix = "tt" /\ Len(id.parts) = 3
    <3>1. /\ id.parts[2] \in DOMAIN Numerals /\ id.parts[3] \in DOMAIN Numerals
          /\ Transport!Parsed(id.parts[2]) = Numerals[id.parts[2]] /\ Transport!Parsed(id.parts[3]) = Numerals[id.parts[3]]
      BY <1>5, <2>2 DEF Transport!Proper, Transport!Parsed
    <3> QED
      BY <1>5, <2>2, <3>1, QueryIs
  <2>3. CASE id.prefix = "tt" /\ Len(id.parts) # 3
    <3>1. Len(id.parts) = 1
      BY <1>5, <2>3 DEF Transport!Proper
    <3> QED
      BY <1>5, <2>3, <3>1, QueryIs
  <2>4. CASE id.prefix = "UC" /\ Len(id.parts) = 2
    BY <1>5, <2>4, QueryIs
  <2>5. CASE id.prefix = "UC" /\ Len(id.parts) # 2
    <3>1. Len(id.parts) <= 2
      BY <1>5, <2>5 DEF Transport!Proper
    <3>2. \A n \in Nat \ {0} : n <= 2 /\ n # 2 => n = 1
      OBVIOUS
    <3>3. Len(id.parts) = 1
      BY <2>1, <2>5, <3>1, <3>2
    <3> QED
      BY <1>5, <2>5, <3>3, QueryIs
  <2>6. CASE id.prefix \notin {"tt", "UC"}
    <3>1. Len(id.parts) \in {2, 3} /\ id.parts[1] \notin {"imdb_id", "yt_id", "video_id", "type"}
      BY <1>5, <2>6 DEF Transport!Proper
    <3> QED
      BY <1>5, <2>6, <3>1, QueryIs
  <2> QED
    BY <2>2, <2>3, <2>4, <2>5, <2>6
<1>6. Told(p.id) /\ Told(q.id)
  BY <1>1, <1>4, <1>5 DEF query
<1>7. Len(a) = Len(b) /\ (\A i \in 1 .. Len(a) : a[i] = b[i])
  <2>1. CASE DOMAIN query = {"imdb_id", "season", "episode"}
    <3>1. /\ Len(a) = 3 /\ a[1] = query["imdb_id"] /\ query["season"] = Numerals[a[2]] /\ query["episode"] = Numerals[a[3]]
          /\ a[2] \in DOMAIN Numerals /\ a[3] \in DOMAIN Numerals
      BY <1>6, <2>1
    <3>2. /\ Len(b) = 3 /\ b[1] = query["imdb_id"] /\ query["season"] = Numerals[b[2]] /\ query["episode"] = Numerals[b[3]]
          /\ b[2] \in DOMAIN Numerals /\ b[3] \in DOMAIN Numerals
      BY <1>6, <2>1
    <3>3. a[1] = b[1] /\ a[2] = b[2] /\ a[3] = b[3]
      BY <1>3, <3>1, <3>2
    <3> QED
      BY <3>1, <3>2, <3>3
  <2>2. CASE DOMAIN query = {"imdb_id"}
    <3>1. Len(a) = 1 /\ Len(b) = 1 /\ a[1] = query["imdb_id"] /\ b[1] = query["imdb_id"]
      BY <1>6, <2>2
    <3> QED
      BY <3>1
  <2>3. CASE DOMAIN query = {"yt_id", "video_id"}
    <3>1. Len(a) = 2 /\ a[1] = query["yt_id"] /\ a[2] = query["video_id"]
      BY <1>6, <2>3
    <3>2. Len(b) = 2 /\ b[1] = query["yt_id"] /\ b[2] = query["video_id"]
      BY <1>6, <2>3
    <3> QED
      BY <3>1, <3>2
  <2>4. CASE DOMAIN query = {"yt_id"}
    <3>1. Len(a) = 1 /\ Len(b) = 1 /\ a[1] = query["yt_id"] /\ b[1] = query["yt_id"]
      BY <1>6, <2>4
    <3> QED
      BY <3>1
  <2>5. ASSUME NEW own, own \notin {"imdb_id", "yt_id", "video_id", "type"}, DOMAIN query = {own, "video_id"}
        PROVE  Len(a) = Len(b) /\ (\A i \in 1 .. Len(a) : a[i] = b[i])
    <3>1. Len(a) = 3 /\ a[1] = own /\ a[2] = query[own] /\ a[3] = query["video_id"]
      BY <1>6, <2>5
    <3>2. Len(b) = 3 /\ b[1] = own /\ b[2] = query[own] /\ b[3] = query["video_id"]
      BY <1>6, <2>5
    <3> QED
      BY <3>1, <3>2
  <2>6. ASSUME NEW own, own \notin {"imdb_id", "yt_id", "video_id", "type"}, DOMAIN query = {own}
        PROVE  Len(a) = Len(b) /\ (\A i \in 1 .. Len(a) : a[i] = b[i])
    <3>1. Len(a) = 2 /\ a[1] = own /\ a[2] = query[own]
      BY <1>6, <2>6
    <3>2. Len(b) = 2 /\ b[1] = own /\ b[2] = query[own]
      BY <1>6, <2>6
    <3> QED
      BY <3>1, <3>2
  <2> HIDE DEF Told
  <2> QED
    BY <1>6, <2>1, <2>2, <2>3, <2>4, <2>5, <2>6 DEF Told
<1>8. a \in Seq(S) /\ b \in Seq(S)
  <2>1. a \in [1 .. Len(a) -> S] /\ b \in [1 .. Len(b) -> S]
    BY <1>1 DEF Transport!ToSet
  <2> QED
    BY <1>2, <2>1
<1> QED
  BY <1>7, <1>8, SeqEqual

\* Such a query says nothing of a type.
LEMMA ProperHasNoType ==
  ASSUME NEW p \in Paths, Transport!Proper(p.id)
  PROVE  /\ "type" \notin DOMAIN Transport!QueryFromId(p.id)
         /\ Transport!QueryFromId(p.id) = [field \in DOMAIN Transport!QueryFromId(p.id) |-> Transport!QueryFromId(p.id)[field]]
<1> DEFINE id == p.id
           query == Transport!QueryFromId(id)
<1>1. id.parts \in Seq(Transport!ToSet(id.parts)) \ {<<>>}
  BY TransportAssumption DEF Transport!PathsAssumption
<1> HIDE DEF query
<1>5. query = [field \in DOMAIN query |-> query[field]]
  BY <1>1, QueryIs DEF query
<1>2. CASE id.prefix = "tt"
  BY <1>1, <1>2, <1>5, QueryIs DEF query
<1>3. CASE id.prefix = "UC"
  <2>1. DOMAIN query \in {{"yt_id", "video_id"}, {"yt_id"}}
    BY <1>1, <1>3, QueryIs DEF query
  <2> QED
    BY <1>5, <2>1 DEF query
<1>4. CASE id.prefix \notin {"tt", "UC"}
  <2>1. Len(id.parts) \in {2, 3} /\ id.parts[1] \notin {"imdb_id", "yt_id", "video_id", "type"}
    BY <1>4 DEF Transport!Proper
  <2>2. DOMAIN query \in {{id.parts[1], "video_id"}, {id.parts[1]}}
    BY <1>1, <1>4, <2>1, QueryIs DEF query
  <2> QED
    BY <1>5, <2>1, <2>2 DEF query
<1> QED
  BY <1>2, <1>3, <1>4 DEF query

LEMMA TransportTells ==
  ASSUME TransportInv
  PROVE  Transport!TellsApart
<1> SUFFICES ASSUME NEW p \in DOMAIN sent, NEW q \in DOMAIN sent,
                    sent[p] # Transport!NoRequest, sent[q] # Transport!NoRequest,
                    Transport!Legacy => <<p.resource, p.id>> # <<q.resource, q.id>>,
                    Transport!Legacy => \A path \in {p, q} : path.resource \in {"meta", "stream"} => Transport!Proper(path.id),
                    p # q, sent[p] = sent[q]
             PROVE  FALSE
  BY Zenon DEF Transport!TellsApart
<1>1. /\ p \in Paths /\ p.resource \in Transport!Resources /\ sent[p] = Transport!Asking(p)
      /\ q \in Paths /\ q.resource \in Transport!Resources /\ sent[q] = Transport!Asking(q)
  BY TransportAssumption DEF TransportInv, Transport!PathsAssumption
<1>2. /\ p.id.parts \in Seq(Transport!ToSet(p.id.parts)) \ {<<>>} /\ q.id.parts \in Seq(Transport!ToSet(q.id.parts)) \ {<<>>}
      /\ p.id.parts = q.id.parts => p.id = q.id
      /\ p = [resource |-> p.resource, type |-> p.type, id |-> p.id, extra |-> p.extra]
      /\ q = [resource |-> q.resource, type |-> q.type, id |-> q.id, extra |-> q.extra]
  BY <1>1, TransportAssumption DEF Transport!PathsAssumption
<1>3. CASE ~Transport!Legacy
  <2>1. sent[p] = Transport!HttpRequest(p) /\ sent[q] = Transport!HttpRequest(q)
    BY <1>1, <1>3 DEF Transport!Asking
  <2> DEFINE a == <<p.resource, p.type, p.id.parts>>
             b == <<q.resource, q.type, q.id.parts>>
  <2> DEFINE aa == Append(a, p.extra)
             bb == Append(b, q.extra)
  <2>2. /\ Transport!HttpRequest(p) = IF p.extra = <<>> THEN a ELSE aa
        /\ Transport!HttpRequest(q) = IF q.extra = <<>> THEN b ELSE bb
    BY DEF Transport!HttpRequest
  <2>3. /\ Len(a) = 3 /\ Len(aa) = 4 /\ aa[4] = p.extra /\ Len(b) = 3 /\ Len(bb) = 4 /\ bb[4] = q.extra
        /\ \A i \in 1 .. 3 : aa[i] = a[i] /\ bb[i] = b[i]
    OBVIOUS
  <2>4. p.extra = q.extra /\ \A i \in 1 .. 3 : a[i] = b[i]
    <3> HIDE DEF a, b, aa, bb
    <3>1. \/ p.extra = <<>> /\ q.extra = <<>> /\ a = b
          \/ p.extra # <<>> /\ q.extra # <<>> /\ aa = bb
      <4>1. Transport!HttpRequest(p) = Transport!HttpRequest(q)
        BY <2>1
      <4>2. a # bb /\ aa # b
        BY <2>3
      <4> QED
        BY <2>2, <4>1, <4>2, Zenon
    <3> QED
      BY <2>3, <3>1
  <2>5. a[1] = b[1] /\ a[2] = b[2] /\ a[3] = b[3]
    <3> HIDE DEF a, b
    <3> QED
      BY <2>4
  <2>6. p.resource = q.resource /\ p.type = q.type /\ p.id.parts = q.id.parts
    BY <2>5
  <2> QED
    BY <1>2, <2>4, <2>6
<1>4. CASE Transport!Legacy
  <2>1. sent[p] = Transport!LegacyRequest(p) /\ sent[q] = Transport!LegacyRequest(q)
    BY <1>1, <1>4 DEF Transport!Asking
  <2>2. ASSUME NEW path \in Paths, path.resource \in Transport!Resources, Transport!LegacyRequest(path) # Transport!NoRequest
        PROVE  \/ path.resource = "catalog" /\ Transport!LegacyRequest(path).method = "meta.find" /\ Transport!LegacyRequest(path) = Transport!Find(path)
               \/ /\ path.resource = "meta" /\ Transport!LegacyRequest(path).method = "meta.get"
                  /\ Transport!LegacyRequest(path).query = Transport!QueryFromId(path.id)
               \/ /\ path.resource = "stream" /\ Transport!LegacyRequest(path).method = "stream.find"
                  /\ Transport!LegacyRequest(path).query = Transport!Put(Transport!QueryFromId(path.id), "type", path.type)
               \/ /\ path.resource = "subtitles" /\ Transport!LegacyRequest(path).method = "subtitles.find"
                  /\ Transport!LegacyRequest(path).query = Transport!Put(Transport!FileQuery(path.extra), "itemHash", path.id.parts)
    <3>1. CASE path.resource = "catalog"
      <4>1. Transport!LegacyRequest(path) = Transport!Find(path)
        BY <3>1 DEF Transport!LegacyRequest
      <4> QED
        BY <3>1, <4>1 DEF Transport!Find
    <3>2. CASE path.resource = "meta"
      <4>1. Transport!LegacyRequest(path) = [method |-> "meta.get", query |-> Transport!QueryFromId(path.id)]
        BY <3>2 DEF Transport!LegacyRequest
      <4> QED
        BY <3>2, <4>1
    <3>3. CASE path.resource = "stream"
      <4>1. Transport!LegacyRequest(path) = [method |-> "stream.find", query |-> Transport!Put(Transport!QueryFromId(path.id), "type", path.type)]
        BY <2>2, <3>3 DEF Transport!LegacyRequest
      <4> QED
        BY <3>3, <4>1
    <3>4. CASE path.resource = "subtitles"
      <4>1. Transport!LegacyRequest(path) =
              [method |-> "subtitles.find", query |-> Transport!Put(Transport!FileQuery(path.extra), "itemHash", path.id.parts)]
        BY <3>4 DEF Transport!LegacyRequest
      <4> QED
        BY <3>4, <4>1
    <3>5. CASE path.resource = "addon_catalog"
      BY <2>2, <3>5 DEF Transport!LegacyRequest
    <3> QED
      BY <2>2, <3>1, <3>2, <3>3, <3>4, <3>5 DEF Transport!Resources
  <2> DEFINE a == Transport!LegacyRequest(p)
             b == Transport!LegacyRequest(q)
  <2>3. /\ \/ p.resource = "catalog" /\ a.method = "meta.find" /\ a = Transport!Find(p)
           \/ p.resource = "meta" /\ a.method = "meta.get" /\ a.query = Transport!QueryFromId(p.id)
           \/ p.resource = "stream" /\ a.method = "stream.find" /\ a.query = Transport!Put(Transport!QueryFromId(p.id), "type", p.type)
           \/ /\ p.resource = "subtitles" /\ a.method = "subtitles.find"
              /\ a.query = Transport!Put(Transport!FileQuery(p.extra), "itemHash", p.id.parts)
        /\ \/ q.resource = "catalog" /\ b.method = "meta.find" /\ b = Transport!Find(q)
           \/ q.resource = "meta" /\ b.method = "meta.get" /\ b.query = Transport!QueryFromId(q.id)
           \/ q.resource = "stream" /\ b.method = "stream.find" /\ b.query = Transport!Put(Transport!QueryFromId(q.id), "type", q.type)
           \/ /\ q.resource = "subtitles" /\ b.method = "subtitles.find"
              /\ b.query = Transport!Put(Transport!FileQuery(q.extra), "itemHash", q.id.parts)
    BY <1>1, <2>1, <2>2
  <2>4. a = b
    BY <2>1
  <2> HIDE DEF a, b
  <2>5. p.resource = q.resource
    BY <2>3, <2>4
  <2>6. p.id.parts # q.id.parts
    BY <1>2, <1>4, <2>5
  <2>7. CASE p.resource = "catalog"
    <3>1. Transport!Find(p) = Transport!Find(q)
      BY <2>3, <2>4, <2>5, <2>7
    <3>2. Transport!Find(p).sort = Transport!Find(q).sort
      BY <3>1
    <3>3. /\ Transport!Find(p).sort = IF p.id.parts = <<"top">> THEN Transport!Null ELSE p.id.parts
          /\ Transport!Find(q).sort = IF q.id.parts = <<"top">> THEN Transport!Null ELSE q.id.parts
      BY DEF Transport!Find
    <3>4. p.id.parts # Transport!Null /\ q.id.parts # Transport!Null
      BY <1>2 DEF Transport!Null
    <3> QED
      BY <2>6, <3>2, <3>3, <3>4
  <2>8. CASE p.resource = "meta"
    <3>1. Transport!QueryFromId(p.id) = Transport!QueryFromId(q.id)
      BY <2>3, <2>4, <2>5, <2>8
    <3>2. Transport!Proper(p.id) /\ Transport!Proper(q.id)
      BY <1>4, <2>5, <2>8
    <3> QED
      BY <1>1, <2>6, <3>1, <3>2, ProperIsTold
  <2>9. CASE p.resource = "stream"
    <3> DEFINE f == Transport!QueryFromId(p.id)
               g == Transport!QueryFromId(q.id)
    <3>1. Transport!Put(f, "type", p.type) = Transport!Put(g, "type", q.type)
      BY <2>3, <2>4, <2>5, <2>9
    <3>2. Transport!Proper(p.id) /\ Transport!Proper(q.id)
      BY <1>4, <2>5, <2>9
    <3>3. /\ "type" \notin DOMAIN f /\ f = [field \in DOMAIN f |-> f[field]]
          /\ "type" \notin DOMAIN g /\ g = [field \in DOMAIN g |-> g[field]]
      BY <1>1, <3>2, ProperHasNoType
    <3> HIDE DEF f, g
    <3>4. DOMAIN f = DOMAIN g
      <4>1. DOMAIN f \cup {"type"} = DOMAIN g \cup {"type"}
        BY <3>1 DEF Transport!Put
      <4> QED
        BY <3>3, <4>1
    <3>5. \A field \in DOMAIN f : f[field] = g[field]
      <4> TAKE field \in DOMAIN f
      <4>1. Transport!Put(f, "type", p.type)[field] = f[field] /\ Transport!Put(g, "type", q.type)[field] = g[field]
        BY <3>3, <3>4 DEF Transport!Put
      <4> QED
        BY <3>1, <4>1
    <3>6. f = g
      BY <3>3, <3>4, <3>5
    <3> QED
      BY <1>1, <2>6, <3>2, <3>6, ProperIsTold DEF f, g
  <2>10. CASE p.resource = "subtitles"
    <3>1. Transport!Put(Transport!FileQuery(p.extra), "itemHash", p.id.parts) = Transport!Put(Transport!FileQuery(q.extra), "itemHash", q.id.parts)
      BY <2>3, <2>4, <2>5, <2>10
    <3>2. /\ Transport!Put(Transport!FileQuery(p.extra), "itemHash", p.id.parts)["itemHash"] = p.id.parts
          /\ Transport!Put(Transport!FileQuery(q.extra), "itemHash", q.id.parts)["itemHash"] = q.id.parts
      BY DEF Transport!Put
    <3> QED
      BY <2>6, <3>1, <3>2
  <2> QED
    BY <2>3, <2>7, <2>8, <2>9, <2>10
<1> QED
  BY <1>3, <1>4

(* Views *)

\* The views put sets in order and keep elements of sequences as the transport does.
LEMMA ViewsKept ==
  /\ \A S, R : Views!Ranked(S, R) = Transport!Ranked(S, R)
  /\ \A s, places : Views!Kept(s, places) = Transport!Kept(s, places)
<1>1. \A S, R : Views!Ranked(S, R) = Transport!Ranked(S, R)
  BY DEF Views!Ranked, Transport!Ranked, Views!Cardinality, Transport!Cardinality
<1>2. \A s, places : Views!Kept(s, places) = Transport!Kept(s, places)
  BY <1>1 DEF Views!Kept, Transport!Kept
<1> QED
  BY <1>1, <1>2

\* What is kept of a sequence.
LEMMA KeptSeq ==
  ASSUME NEW V, NEW s \in Seq(V), NEW places \in SUBSET DOMAIN s
  PROVE  LET t == Views!Kept(s, places)
         IN /\ t \in Seq(V)
            /\ \A n \in DOMAIN t : \E i \in places : t[n] = s[i]
            /\ \A i \in places : \E n \in DOMAIN t : t[n] = s[i]
            /\ \A m, n \in DOMAIN t : t[m] = t[n] /\ m # n => \E i, j \in places : i < j /\ s[i] = s[j]
<1> DEFINE t == Views!Kept(s, places)
<1>1. DOMAIN s = 1 .. Len(s) /\ Len(s) \in Nat
  OBVIOUS
<1>2. /\ t \in Seq({s[i] : i \in places})
      /\ \E at \in [DOMAIN t -> places] :
           /\ \A n \in DOMAIN t : t[n] = s[at[n]]
           /\ \A i \in places : \E n \in DOMAIN t : at[n] = i
           /\ \A m, n \in DOMAIN t : m < n => at[m] < at[n]
  <2>1. t = Transport!Kept(s, places)
    BY ViewsKept
  <2> HIDE DEF t
  <2>2. places \in SUBSET (1 .. Len(s))
    BY <1>1
  <2> DEFINE k == Transport!Kept(s, places)
  <2>3. /\ k \in Seq({s[i] : i \in places})
        /\ \E at \in [DOMAIN k -> places] :
             /\ \A n \in DOMAIN k : k[n] = s[at[n]]
             /\ \A i \in places : \E n \in DOMAIN k : at[n] = i
             /\ \A m, n \in DOMAIN k : m < n => at[m] < at[n]
    BY <1>1, <2>2, KeptIs
  <2> HIDE DEF k
  <2>4. t = k
    BY <2>1 DEF k
  <2> QED
    BY <2>3, <2>4
<1> HIDE DEF t
<1>3. PICK at \in [DOMAIN t -> places] :
           /\ \A n \in DOMAIN t : t[n] = s[at[n]]
           /\ \A i \in places : \E n \in DOMAIN t : at[n] = i
           /\ \A m, n \in DOMAIN t : m < n => at[m] < at[n]
  BY <1>2
<1>4. DOMAIN t = 1 .. Len(t) /\ Len(t) \in Nat
  BY <1>2
<1>5. t \in Seq(V)
  <2>1. \A i \in places : s[i] \in V
    BY <1>1
  <2>2. t \in [1 .. Len(t) -> V]
    BY <1>2, <1>4, <2>1
  <2> QED
    BY <1>4, <2>2
<1>6. /\ \A n \in DOMAIN t : \E i \in places : t[n] = s[i]
      /\ \A i \in places : \E n \in DOMAIN t : t[n] = s[i]
  BY <1>3
<1>7. \A m, n \in DOMAIN t : t[m] = t[n] /\ m # n => \E i, j \in places : i < j /\ s[i] = s[j]
  <2> SUFFICES ASSUME NEW m \in DOMAIN t, NEW n \in DOMAIN t, t[m] = t[n], m < n
               PROVE  \E i, j \in places : i < j /\ s[i] = s[j]
    <3>1. \A m, n \in DOMAIN t : m # n => m < n \/ n < m
      BY <1>4
    <3> QED
      BY <3>1
  <2> QED
    BY <1>3
<1> QED
  BY <1>5, <1>6, <1>7 DEF t

\* Elements are there once, and all of them.
LEMMA UniqueSeq ==
  ASSUME NEW V, NEW s \in Seq(V)
  PROVE  Views!Unique(s) \in Seq(V) /\ Views!IsInjective(Views!Unique(s)) /\ Views!Range(Views!Unique(s)) = Views!Range(s)
<1> DEFINE first == {i \in DOMAIN s : \A j \in 1 .. i - 1 : s[j] # s[i]}
           u == Views!Unique(s)
<1>1. DOMAIN s = 1 .. Len(s) /\ Len(s) \in Nat
  OBVIOUS
<1>2. u = Views!Kept(s, first)
  BY DEF Views!Unique
<1>3. first \in SUBSET DOMAIN s
  OBVIOUS
<1>4. \A i, j \in first : i < j => s[i] # s[j]
  <2> TAKE i, j \in first
  <2>1. i < j => i \in 1 .. j - 1
    BY <1>1
  <2> QED
    BY <2>1
<1>5. \A i \in DOMAIN s : \E k \in first : s[k] = s[i]
  <2> TAKE i \in DOMAIN s
  <2> DEFINE same == {k \in 1 .. Len(s) : s[k] = s[i]}
  <2>1. same \subseteq Nat /\ same # {}
    BY <1>1
  <2>2. PICK k \in same : \A m \in same : k <= m
    <3> HIDE DEF same
    <3> QED
      BY <2>1, LeastExists
  <2>3. \A j \in 1 .. k - 1 : s[j] # s[k]
    BY <1>1, <2>2
  <2> QED
    BY <1>1, <2>2, <2>3
<1> HIDE DEF first, u
<1>6. /\ u \in Seq(V)
      /\ \A n \in DOMAIN u : \E i \in first : u[n] = s[i]
      /\ \A i \in first : \E n \in DOMAIN u : u[n] = s[i]
      /\ \A m, n \in DOMAIN u : u[m] = u[n] /\ m # n => \E i, j \in first : i < j /\ s[i] = s[j]
  BY <1>2, <1>3, KeptSeq
<1>7. Views!IsInjective(u)
  BY <1>4, <1>6 DEF Views!IsInjective
<1>8. Views!Range(u) = Views!Range(s)
  BY <1>3, <1>5, <1>6 DEF Views!Range
<1> QED
  BY <1>6, <1>7, <1>8 DEF u

LEMMA TakeIs ==
  ASSUME NEW V, NEW s \in Seq(V), NEW n \in Nat
  PROVE  /\ Views!Take(s, n) \in Seq(V) /\ Len(Views!Take(s, n)) <= n
         /\ Views!IsInjective(s) => Views!IsInjective(Views!Take(s, n))
         /\ Len(Views!Take(s, n)) = n \/ Views!Take(s, n) = s
<1>1. CASE Len(s) < n
  <2>1. Views!Take(s, n) = SubSeq(s, 1, Len(s))
    BY <1>1 DEF Views!Take
  <2>2. SubSeq(s, 1, Len(s)) = s
    OBVIOUS
  <2>3. Len(s) <= n
    BY <1>1
  <2> QED
    BY <2>1, <2>2, <2>3
<1>2. CASE ~(Len(s) < n)
  <2> DEFINE t == SubSeq(s, 1, n)
  <2>1. Views!Take(s, n) = t
    BY <1>2 DEF Views!Take
  <2>2. t \in Seq(V) /\ Len(t) = n /\ \A i \in 1 .. n : t[i] = s[i]
    BY <1>2
  <2>3. DOMAIN s = 1 .. Len(s) /\ Len(s) \in Nat
    OBVIOUS
  <2> HIDE DEF t
  <2>4. Views!IsInjective(s) => Views!IsInjective(t)
    <3>1. DOMAIN t = 1 .. n /\ \A i \in 1 .. n : i \in DOMAIN s
      BY <1>2, <2>2, <2>3
    <3> QED
      BY <2>2, <3>1 DEF Views!IsInjective
  <2> QED
    BY <2>1, <2>2, <2>4
<1> QED
  BY <1>1, <1>2

\* What sequences have is there, each as often as there are places for it.
Places(seqs) == UNION {{i} \X DOMAIN seqs[i] : i \in DOMAIN seqs}
LEMMA FlatIs ==
  ASSUME NEW V, NEW seqs \in Seq(Seq(V))
  PROVE  LET flat == Views!Flat(seqs)
         IN /\ flat \in Seq(V)
            /\ Views!Range(flat) = UNION {Views!Range(seqs[i]) : i \in DOMAIN seqs}
            /\ \A m, n \in DOMAIN flat : m # n /\ flat[m] = flat[n] =>
                 \E i, j \in DOMAIN seqs : \E k \in DOMAIN seqs[i], l \in DOMAIN seqs[j] :
                   <<i, k>> # <<j, l>> /\ flat[m] = seqs[i][k] /\ flat[n] = seqs[j][l]
<1> DEFINE places == Places(seqs)
           before(p, q) == p[1] < q[1] \/ (p[1] = q[1] /\ p[2] < q[2])
           R == {pair \in places \X places : before(pair[1], pair[2])}
           at == Views!Ranked(places, R)
           flat == Views!Flat(seqs)
<1>1. /\ DOMAIN seqs = 1 .. Len(seqs) /\ Len(seqs) \in Nat
      /\ \A i \in DOMAIN seqs : seqs[i] \in Seq(V) /\ DOMAIN seqs[i] = 1 .. Len(seqs[i]) /\ Len(seqs[i]) \in Nat
  OBVIOUS
<1>2. \A p : p \in places <=> \E i \in DOMAIN seqs : \E k \in DOMAIN seqs[i] : p = <<i, k>>
  BY DEF Places
<1>3. IsFiniteSet(places)
  <2> DEFINE rows == {{i} \X DOMAIN seqs[i] : i \in DOMAIN seqs}
             row == [i \in DOMAIN seqs |-> {i} \X DOMAIN seqs[i]]
  <2>1. IsFiniteSet(DOMAIN seqs)
    BY <1>1, FS_Interval
  <2>2. row \in Surjection(DOMAIN seqs, rows)
    BY DEF Surjection
  <2>3. IsFiniteSet(rows)
    <3> HIDE DEF row, rows
    <3> QED
      BY <2>1, <2>2, FS_Surjection
  <2>4. \A i \in DOMAIN seqs : IsFiniteSet({i} \X DOMAIN seqs[i])
    <3> TAKE i \in DOMAIN seqs
    <3>1. IsFiniteSet({i})
      BY FS_Singleton
    <3>2. IsFiniteSet(1 .. Len(seqs[i]))
      BY <1>1, FS_Interval
    <3>3. IsFiniteSet(DOMAIN seqs[i])
      BY <1>1, <3>2
    <3> QED
      BY <3>1, <3>3, FS_Product
  <2> QED
    BY <2>3, <2>4, FS_UNION DEF Places
<1>4. \A p \in places : p[1] \in Int /\ p[2] \in Int /\ p = <<p[1], p[2]>>
  BY <1>1, <1>2
<1>5. \A p, q \in places : <<p, q>> \in R <=> before(p, q)
  OBVIOUS
<1> HIDE DEF places, R
<1>6. Orders(R, places)
  <2>1. \A a \in places : <<a, a>> \notin R
    BY <1>4, <1>5
  <2>2. \A a, b, c \in places : <<a, b>> \in R /\ <<b, c>> \in R => <<a, c>> \in R
    <3> TAKE a, b, c \in places
    <3>1. before(a, b) /\ before(b, c) => before(a, c)
      BY <1>4
    <3> QED
      BY <1>5, <3>1
  <2>3. \A a, b \in places : a # b => <<a, b>> \in R \/ <<b, a>> \in R
    <3> TAKE a, b \in places
    <3>1. a # b => a[1] # b[1] \/ a[2] # b[2]
      BY <1>4
    <3>2. a # b => before(a, b) \/ before(b, a)
      BY <1>4, <3>1
    <3> QED
      BY <1>5, <3>2
  <2> QED
    BY <2>1, <2>2, <2>3 DEF Orders
<1>7. InOrder(at, places, R)
  BY <1>3, <1>6, RankedIs, ViewsKept
<1>8. flat = [n \in DOMAIN at |-> seqs[at[n][1]][at[n][2]]]
  BY DEF Views!Flat, R, places, Places
<1> HIDE DEF at, flat
<1> DEFINE N == Len(at)
<1>9. at \in [1 .. N -> places] /\ DOMAIN at = 1 .. N /\ N \in Nat
  BY <1>7 DEF InOrder
<1>10. /\ \A p \in places : \E n \in 1 .. N : at[n] = p
       /\ \A m, n \in 1 .. N : m # n => at[m] # at[n]
  <2>1. \A m, n \in 1 .. N : m # n => m < n \/ n < m
    BY <1>9
  <2> QED
    BY <1>7, <2>1 DEF InOrder
<1> HIDE DEF N
<1>11. \A n \in 1 .. N :
         /\ at[n][1] \in DOMAIN seqs /\ at[n][2] \in DOMAIN seqs[at[n][1]]
         /\ at[n] = <<at[n][1], at[n][2]>> /\ flat[n] = seqs[at[n][1]][at[n][2]]
  <2> TAKE n \in 1 .. N
  <2>1. at[n] \in places
    BY <1>9
  <2>2. \E i \in DOMAIN seqs : \E k \in DOMAIN seqs[i] : at[n] = <<i, k>>
    BY <1>2, <2>1
  <2>3. flat[n] = seqs[at[n][1]][at[n][2]]
    BY <1>8, <1>9
  <2> QED
    BY <2>2, <2>3
<1>12. DOMAIN flat = 1 .. N
  BY <1>8, <1>9
<1>13. flat \in Seq(V)
  <2>1. \A n \in 1 .. N : flat[n] \in V
    BY <1>1, <1>11
  <2>2. flat = [n \in 1 .. N |-> flat[n]]
    BY <1>8, <1>9, <1>12
  <2>3. flat \in [1 .. N -> V]
    BY <2>1, <2>2
  <2> HIDE DEF flat
  <2> QED
    BY <1>9, <2>3
<1>14. Views!Range(flat) = UNION {Views!Range(seqs[i]) : i \in DOMAIN seqs}
  <2>1. ASSUME NEW v \in Views!Range(flat)
        PROVE  v \in UNION {Views!Range(seqs[i]) : i \in DOMAIN seqs}
    <3>1. PICK n \in 1 .. N : v = flat[n]
      BY <1>12 DEF Views!Range
    <3>2. v \in Views!Range(seqs[at[n][1]]) /\ at[n][1] \in DOMAIN seqs
      BY <1>11, <3>1 DEF Views!Range
    <3> QED
      BY <3>2
  <2>2. ASSUME NEW v \in UNION {Views!Range(seqs[i]) : i \in DOMAIN seqs}
        PROVE  v \in Views!Range(flat)
    <3>1. PICK i \in DOMAIN seqs : v \in Views!Range(seqs[i])
      OBVIOUS
    <3>2. PICK k \in DOMAIN seqs[i] : v = seqs[i][k]
      BY <3>1 DEF Views!Range
    <3>3. PICK n \in 1 .. N : at[n] = <<i, k>>
      BY <1>2, <1>10
    <3>4. flat[n] = seqs[at[n][1]][at[n][2]] /\ n \in DOMAIN flat
      BY <1>11, <1>12
    <3>5. flat[n] = v
      BY <3>2, <3>3, <3>4
    <3> QED
      BY <3>4, <3>5 DEF Views!Range
  <2> QED
    BY <2>1, <2>2
<1>15. ASSUME NEW m \in DOMAIN flat, NEW n \in DOMAIN flat, m # n
       PROVE  \E i, j \in DOMAIN seqs : \E k \in DOMAIN seqs[i], l \in DOMAIN seqs[j] :
                <<i, k>> # <<j, l>> /\ flat[m] = seqs[i][k] /\ flat[n] = seqs[j][l]
  <2>1. m \in 1 .. N /\ n \in 1 .. N
    BY <1>12
  <2> DEFINE i == at[m][1]
             k == at[m][2]
             j == at[n][1]
             l == at[n][2]
  <2>2. /\ i \in DOMAIN seqs /\ k \in DOMAIN seqs[i] /\ flat[m] = seqs[i][k] /\ at[m] = <<i, k>>
        /\ j \in DOMAIN seqs /\ l \in DOMAIN seqs[j] /\ flat[n] = seqs[j][l] /\ at[n] = <<j, l>>
    BY <1>11, <2>1
  <2>3. at[m] # at[n]
    BY <1>10, <1>15, <2>1
  <2> HIDE DEF i, j, k, l
  <2> QED
    BY <2>2, <2>3
<1> QED
  BY <1>13, <1>14, <1>15 DEF flat

\* The details of a title have an item and a group for each add-on installed, in order.
OfEach(resources, collection) ==
  /\ resources = [i \in DOMAIN collection |-> resources[i]]
  /\ \A i \in DOMAIN collection : resources[i] = [base |-> collection[i], content |-> resources[i].content]
DetailsField(field, collection) ==
  /\ field = [items |-> field.items, groups |-> field.groups]
  /\ OfEach(field.items, collection) /\ OfEach(field.groups, collection)
  /\ \A i \in DOMAIN collection : field.items[i].content \in MetaAnswers \cup {Loading, Failed}

\* There is a page at least, a row for a catalog at most, and subtitles of an add-on once.
DiscoverField(field) ==
  /\ field = [base |-> field.base, pages |-> field.pages]
  /\ field.pages \in Seq(Pages \cup {Loading, Failed}) \ {<<>>}
BoardField(field) ==
  /\ field = [rows |-> field.rows]
  /\ field.rows \in Seq([row : Views!Range(Rows), content : Pages \cup {Loading, Failed}])
  /\ \A i, j \in DOMAIN field.rows : field.rows[i].row = field.rows[j].row => i = j
PlayerField(field) ==
  /\ field = [video |-> field.video, item |-> field.item, subtitles |-> field.subtitles,
              library_item |-> field.library_item]
  /\ field.subtitles \in Seq([base : Views!Bases, content : {Loading, Failed, 2}])
  /\ \A i, j \in DOMAIN field.subtitles : field.subtitles[i].base = field.subtitles[j].base => i = j
  /\ field.library_item \in Entries[Title]

ViewsInv ==
  /\ screen \in Screens /\ addons \in Collections /\ reachable \in BOOLEAN
  /\ entries = [id \in ShownTitles |-> entries[id]] /\ \A id \in ShownTitles : entries[id] \in Entries[id]
  /\ told \subseteq Screens \cup {"ctx", "streaming_server"}
  /\ Views!ViewsAreTold
  /\ screen = "meta_details" => DetailsField(shown_field, addons)
  /\ screen = "discover" => DiscoverField(shown_field)
  /\ screen = "board" => BoardField(shown_field)
  /\ screen = "player" => PlayerField(shown_field)

LEMMA FirstIs ==
  ASSUME NEW S, S \subseteq Nat, S # {}
  PROVE  Views!FirstOf(S) \in S /\ \A n \in S : Views!FirstOf(S) <= n
<1>1. \E n \in S : \A m \in S : n <= m
  BY LeastExists
<1> QED
  BY <1>1 DEF Views!FirstOf

LEMMA CollectionIs ==
  ASSUME NEW collection \in Collections
  PROVE  /\ collection \in Seq(Views!Bases) /\ Views!IsInjective(collection)
         /\ DOMAIN collection = 1 .. Len(collection) /\ Len(collection) \in Nat
         /\ \A i \in DOMAIN collection : collection[i] \in Views!Bases
<1>1. collection \in Seq(Views!Bases) /\ Views!IsInjective(collection)
  BY ViewsAssumption DEF Views!CollectionsAssumption
<1> QED
  BY <1>1

\* Catalogs of the board that are kept are in order, each once.
LEMMA RowsKept ==
  ASSUME NEW places \in SUBSET DOMAIN Rows
  PROVE  Views!Kept(Rows, places) \in Seq(Views!Range(Rows)) /\ Views!IsInjective(Views!Kept(Rows, places))
<1> DEFINE rows == Views!Kept(Rows, places)
<1>1. Rows \in Seq(Views!Range(Rows)) /\ Views!IsInjective(Rows) /\ DOMAIN Rows = 1 .. Len(Rows) /\ Len(Rows) \in Nat
  BY ViewsAssumption DEF Views!CollectionsAssumption
<1>2. /\ rows \in Seq(Views!Range(Rows))
      /\ \A m, n \in DOMAIN rows : rows[m] = rows[n] /\ m # n => \E i, j \in places : i < j /\ Rows[i] = Rows[j]
  BY <1>1, KeptSeq
<1> HIDE DEF rows
<1>3. \A i, j \in places : i < j => Rows[i] # Rows[j]
  BY <1>1 DEF Views!IsInjective
<1>4. Views!IsInjective(rows)
  BY <1>2, <1>3 DEF Views!IsInjective
<1> QED
  BY <1>2, <1>4 DEF rows

\* One of some resources has an answer.
LEMMA OneAnsweredIs ==
  ASSUME NEW T, NEW resources \in Seq(T), NEW i \in DOMAIN resources, NEW c,
         [resources[i] EXCEPT !.content = c] \in T
  PROVE  LET next == [resources EXCEPT ![i].content = c]
         IN /\ next \in Seq(T) /\ DOMAIN next = DOMAIN resources
            /\ next[i] = [resources[i] EXCEPT !.content = c]
            /\ \A j \in DOMAIN resources : j # i => next[j] = resources[j]
<1> DEFINE next == [resources EXCEPT ![i].content = c]
           one == [resources[i] EXCEPT !.content = c]
<1>1. /\ DOMAIN resources = 1 .. Len(resources) /\ Len(resources) \in Nat
      /\ \A j \in DOMAIN resources : resources[j] \in T
  OBVIOUS
<1>2. next = [j \in DOMAIN resources |-> IF j = i THEN one ELSE resources[j]]
  OBVIOUS
<1>3. one \in T
  OBVIOUS
<1> HIDE DEF next, one
<1>4. \A j \in 1 .. Len(resources) : next[j] \in T
  BY <1>1, <1>2, <1>3
<1>5. next \in [1 .. Len(resources) -> T]
  BY <1>1, <1>2, <1>4
<1>6. next \in Seq(T)
  BY <1>1, <1>5
<1>7. DOMAIN next = DOMAIN resources /\ next[i] = one /\ \A j \in DOMAIN resources : j # i => next[j] = resources[j]
  BY <1>2
<1> QED
  BY <1>6, <1>7 DEF next, one

LEMMA ViewsBegin ==
  ASSUME Views!Init
  PROVE  ViewsInv
<1>1. /\ screen \in Screens /\ addons \in Collections /\ reachable \in BOOLEAN
      /\ entries = [id \in ShownTitles |-> entries[id]] /\ \A id \in ShownTitles : entries[id] \in Entries[id]
      /\ told \subseteq Screens \cup {"ctx", "streaming_server"} /\ Views!ViewsAreTold
  BY ViewsAssumption DEF Views!Init, Views!CollectionsAssumption, Views!ViewsAreTold
<1>2. /\ addons \in Seq(Views!Bases) /\ Views!IsInjective(addons) /\ DOMAIN addons = 1 .. Len(addons) /\ Len(addons) \in Nat
      /\ \A i \in DOMAIN addons : addons[i] \in Views!Bases
  BY <1>1, CollectionIs
<1>3. ASSUME screen = "meta_details"
      PROVE  DetailsField(shown_field, addons)
  <2> DEFINE all == [i \in DOMAIN addons |-> Views!Resource(addons[i], Loading)]
  <2>1. shown_field = [items |-> all, groups |-> all]
    BY <1>3 DEF Views!Init, Views!OfLibrary
  <2>2. \A i \in DOMAIN addons : all[i] = [base |-> addons[i], content |-> Loading]
    BY DEF Views!Resource
  <2>3. all = [i \in DOMAIN addons |-> all[i]]
    OBVIOUS
  <2> HIDE DEF all
  <2> QED
    BY <2>1, <2>2, <2>3 DEF DetailsField, OfEach
<1>4. ASSUME screen = "discover"
      PROVE  DiscoverField(shown_field)
  <2>1. shown_field = [base |-> addons[1], pages |-> <<Loading>>]
    BY <1>4 DEF Views!Init, Views!OfLibrary
  <2> QED
    BY <2>1 DEF DiscoverField
<1>5. ASSUME screen = "board"
      PROVE  BoardField(shown_field)
  <2> DEFINE rows == Views!Kept(Rows, {i \in DOMAIN Rows : Views!Installed(Views!Ctx, Rows[i].base)})
             all == [i \in DOMAIN rows |-> [row |-> rows[i], content |-> Loading]]
  <2>1. shown_field = [rows |-> all]
    BY <1>5 DEF Views!Init, Views!OfLibrary
  <2>2. rows \in Seq(Views!Range(Rows)) /\ Views!IsInjective(rows)
    BY RowsKept
  <2> HIDE DEF rows
  <2>3. DOMAIN rows = 1 .. Len(rows) /\ Len(rows) \in Nat
    BY <2>2
  <2>4. all \in [1 .. Len(rows) -> [row : Views!Range(Rows), content : Pages \cup {Loading, Failed}]]
    BY <2>2, <2>3
  <2>5. all \in Seq([row : Views!Range(Rows), content : Pages \cup {Loading, Failed}])
    BY <2>3, <2>4
  <2>6. \A i, j \in DOMAIN all : all[i].row = all[j].row => i = j
    BY <2>2 DEF Views!IsInjective
  <2> HIDE DEF all
  <2> QED
    BY <2>1, <2>5, <2>6 DEF BoardField
<1>6. ASSUME screen = "player"
      PROVE  PlayerField(shown_field)
  <2> DEFINE all == [i \in DOMAIN addons |-> Views!Resource(addons[i], Loading)]
  <2>1. shown_field = [video |-> CHOOSE v \in ShownVideos : TRUE, item |-> Views!Resource(addons[1], Loading),
                 subtitles |-> all, library_item |-> None]
    BY <1>6 DEF Views!Init, Views!OfLibrary
  <2>2. all \in [1 .. Len(addons) -> [base : Views!Bases, content : {Loading, Failed, 2}]]
    BY <1>2 DEF Views!Resource
  <2>3. all \in Seq([base : Views!Bases, content : {Loading, Failed, 2}])
    BY <1>2, <2>2
  <2>4. \A i, j \in DOMAIN all : all[i].base = all[j].base => i = j
    BY <1>2 DEF Views!Resource, Views!IsInjective
  <2>5. None \in Entries[Title]
    BY ViewsAssumption DEF Views!CollectionsAssumption
  <2> HIDE DEF all
  <2> QED
    BY <2>1, <2>3, <2>4, <2>5 DEF PlayerField
<1> QED
  BY <1>1, <1>3, <1>4, <1>5, <1>6 DEF ViewsInv

\* Each step tells of a field, and of the views made of the library alone.
LEMMA AnnouncedIs ==
  ASSUME ViewsInv, NEW cause \in {"profile", "library", "played", "streams", "server", "answer", "page"},
         NEW fields \in SUBSET (Screens \cup {"ctx", "streaming_server"}),
         fields \cap {screen, "ctx", "streaming_server"} # {}, Views!Announce(cause, fields),
         cause = "library" => screen = "player" \/ screen \in fields \/ Views!View(shown_field', Views!Ctx') = Views!View(shown_field, Views!Ctx)
  PROVE  screen' = screen /\ told' \subseteq Screens \cup {"ctx", "streaming_server"} /\ Views!ViewsAreTold'
<1>1. /\ screen' = screen /\ told' = told \cup fields
      /\ untold' = IF screen \in fields \/ Views!View(shown_field', Views!Ctx') = Views!View(shown_field, Views!Ctx) THEN untold
                   ELSE untold \cup {cause}
  BY DEF Views!Announce
<1>2. told' \subseteq Screens \cup {"ctx", "streaming_server"}
  BY <1>1 DEF ViewsInv
<1>3. told' \cap {screen', "ctx", "streaming_server"} # {}
  BY <1>1
<1>4. "library" \in untold' => screen' = "player"
  BY <1>1 DEF ViewsInv, Views!ViewsAreTold
<1> QED
  BY <1>1, <1>2, <1>3, <1>4 DEF Views!ViewsAreTold

LEMMA ScreenIs ==
  ASSUME ViewsInv
  PROVE  screen \in {"meta_details", "discover", "board", "player"} \cup Views!OfLibrary
BY ViewsAssumption DEF ViewsInv, Views!CollectionsAssumption

\* What is asked for of each add-on.
LEMMA PlannedIs ==
  ASSUME ViewsInv, addons' \in Collections, NEW resources, NEW C, Loading \in C,
         resources = [i \in DOMAIN addons |-> resources[i]],
         \A i \in DOMAIN addons : resources[i] = [base |-> addons[i], content |-> resources[i].content],
         \A i \in DOMAIN addons : resources[i].content \in C
  PROVE  LET planned == Views!Planned(resources)
         IN /\ planned = [i \in DOMAIN addons' |-> planned[i]]
            /\ \A i \in DOMAIN addons' : planned[i] = [base |-> addons'[i], content |-> planned[i].content]
            /\ \A i \in DOMAIN addons' : planned[i].content \in C
<1> DEFINE planned == Views!Planned(resources)
           known(i) == {k \in DOMAIN resources : resources[k].base = addons'[i]}
<1>1. planned = [i \in DOMAIN addons' |->
                   IF known(i) = {} THEN Views!Resource(addons'[i], Loading) ELSE resources[Views!FirstOf(known(i))]]
  BY DEF Views!Planned
<1>2. DOMAIN resources = DOMAIN addons /\ DOMAIN addons = 1 .. Len(addons) /\ Len(addons) \in Nat
  BY CollectionIs DEF ViewsInv
<1> HIDE DEF planned
<1>3. ASSUME NEW i \in DOMAIN addons'
      PROVE  planned[i] = [base |-> addons'[i], content |-> planned[i].content] /\ planned[i].content \in C
  <2>1. CASE known(i) = {}
    <3>1. planned[i] = [base |-> addons'[i], content |-> Loading]
      BY <1>1, <2>1 DEF Views!Resource
    <3> QED
      BY <3>1
  <2>2. CASE known(i) # {}
    <3>1. Views!FirstOf(known(i)) \in known(i)
      <4>1. known(i) \subseteq Nat
        BY <1>2
      <4> HIDE DEF known
      <4> QED
        BY <2>2, <4>1, FirstIs
    <3> DEFINE k == Views!FirstOf(known(i))
    <3>2. planned[i] = resources[k]
      BY <1>1, <2>2
    <3>3. k \in DOMAIN resources /\ resources[k].base = addons'[i]
      BY <3>1
    <3> HIDE DEF k, known
    <3>4. k \in DOMAIN addons
      BY <1>2, <3>3
    <3>5. resources[k] = [base |-> addons[k], content |-> resources[k].content] /\ resources[k].content \in C
      BY <3>4
    <3>6. resources[k].base = addons[k]
      BY <3>5
    <3> QED
      BY <3>2, <3>3, <3>5, <3>6
  <2> QED
    BY <2>1, <2>2
<1>4. planned = [i \in DOMAIN addons' |-> planned[i]]
  BY <1>1
<1> QED
  BY <1>3, <1>4 DEF planned

LEMMA PlannedRowsAre ==
  ASSUME BoardField(shown_field)
  PROVE  BoardField([rows |-> Views!PlannedRows])
<1> DEFINE rows == Views!Kept(Rows, {i \in DOMAIN Rows : Rows[i].base \in Views!Range(addons')})
           known(row) == {k \in DOMAIN shown_field.rows : shown_field.rows[k].row = row}
           planned == Views!PlannedRows
           T == [row : Views!Range(Rows), content : Pages \cup {Loading, Failed}]
<1>1. planned = [i \in DOMAIN rows |-> IF known(rows[i]) = {} THEN [row |-> rows[i], content |-> Loading]
                                       ELSE shown_field.rows[Views!FirstOf(known(rows[i]))]]
  BY DEF Views!PlannedRows
<1>2. rows \in Seq(Views!Range(Rows)) /\ Views!IsInjective(rows)
  BY RowsKept
<1>3. /\ shown_field.rows \in Seq(T) /\ DOMAIN shown_field.rows = 1 .. Len(shown_field.rows) /\ Len(shown_field.rows) \in Nat
      /\ \A k \in DOMAIN shown_field.rows : shown_field.rows[k] \in T
  <2>1. shown_field.rows \in Seq(T)
    BY DEF BoardField
  <2> HIDE DEF T
  <2> QED
    BY <2>1
<1> HIDE DEF rows, planned
<1>4. DOMAIN rows = 1 .. Len(rows) /\ Len(rows) \in Nat /\ \A i \in DOMAIN rows : rows[i] \in Views!Range(Rows)
  BY <1>2
<1>5. ASSUME NEW i \in DOMAIN rows
      PROVE  planned[i] \in T /\ planned[i].row = rows[i]
  <2>1. CASE known(rows[i]) = {}
    <3>1. planned[i] = [row |-> rows[i], content |-> Loading]
      BY <1>1, <2>1
    <3> QED
      BY <1>4, <3>1
  <2>2. CASE known(rows[i]) # {}
    <3>1. known(rows[i]) \subseteq Nat
      BY <1>3
    <3>2. planned[i] = shown_field.rows[Views!FirstOf(known(rows[i]))]
      BY <1>1, <2>2
    <3>3. Views!FirstOf(known(rows[i])) \in known(rows[i])
      <4> HIDE DEF known
      <4> QED
        BY <2>2, <3>1, FirstIs
    <3> HIDE DEF T
    <3> QED
      BY <1>3, <3>2, <3>3
  <2> QED
    BY <2>1, <2>2
<1>6. planned \in [1 .. Len(rows) -> T] /\ DOMAIN planned = 1 .. Len(rows)
  <2> HIDE DEF T
  <2> QED
    BY <1>1, <1>4, <1>5
<1>7. planned \in Seq(T)
  <2> HIDE DEF T
  <2> QED
    BY <1>4, <1>6
<1>8. \A i, j \in DOMAIN planned : planned[i].row = planned[j].row => i = j
  BY <1>2, <1>4, <1>5, <1>6 DEF Views!IsInjective
<1> QED
  BY <1>7, <1>8 DEF BoardField, planned

LEMMA ProfileStep ==
  ASSUME ViewsInv, Views!ProfileChanged
  PROVE  ViewsInv'
<1>1. addons' \in Collections /\ entries' = entries /\ reachable' = reachable
  BY DEF Views!ProfileChanged
<1>2. /\ screen = "meta_details" => shown_field' = [items |-> Views!Planned(shown_field.items), groups |-> Views!Planned(shown_field.groups)]
      /\ screen = "board" => shown_field' = [rows |-> Views!PlannedRows]
      /\ screen \in {"discover", "player"} => shown_field' = shown_field
  BY DEF Views!ProfileChanged, Views!OfLibrary
<1>3. screen' = screen /\ told' \subseteq Screens \cup {"ctx", "streaming_server"} /\ Views!ViewsAreTold'
  <2> DEFINE fields == {"ctx"} \cup IF shown_field' # shown_field THEN {screen} ELSE {}
  <2>1. Views!Announce("profile", fields)
    BY DEF Views!ProfileChanged
  <2>2. fields \in SUBSET (Screens \cup {"ctx", "streaming_server"}) /\ "ctx" \in fields
    BY DEF ViewsInv
  <2> HIDE DEF fields
  <2> QED
    BY <2>1, <2>2, AnnouncedIs
<1>4. ASSUME screen = "meta_details"
      PROVE  DetailsField(shown_field', addons')
  <2> DEFINE items == Views!Planned(shown_field.items)
             groups == Views!Planned(shown_field.groups)
             any == {shown_field.groups[i].content : i \in DOMAIN addons} \cup {Loading}
  <2>1. DetailsField(shown_field, addons)
    BY <1>4 DEF ViewsInv
  <2>2. /\ items = [i \in DOMAIN addons' |-> items[i]]
        /\ \A i \in DOMAIN addons' : items[i] = [base |-> addons'[i], content |-> items[i].content]
        /\ \A i \in DOMAIN addons' : items[i].content \in MetaAnswers \cup {Loading, Failed}
    BY <1>1, <2>1, PlannedIs DEF DetailsField, OfEach
  <2>3. /\ groups = [i \in DOMAIN addons' |-> groups[i]]
        /\ \A i \in DOMAIN addons' : groups[i] = [base |-> addons'[i], content |-> groups[i].content]
    <3>1. Loading \in any /\ \A i \in DOMAIN addons : shown_field.groups[i].content \in any
      OBVIOUS
    <3> HIDE DEF any
    <3> QED
      BY <1>1, <2>1, <3>1, PlannedIs DEF DetailsField, OfEach
  <2>4. shown_field' = [items |-> items, groups |-> groups]
    BY <1>2, <1>4
  <2> HIDE DEF items, groups
  <2> QED
    BY <2>2, <2>3, <2>4 DEF DetailsField, OfEach
<1>5. ASSUME screen = "board"
      PROVE  BoardField(shown_field')
  BY <1>2, <1>5, PlannedRowsAre DEF ViewsInv
<1>6. /\ entries' = [id \in ShownTitles |-> entries'[id]] /\ \A id \in ShownTitles : entries'[id] \in Entries[id]
      /\ reachable' \in BOOLEAN /\ screen' \in Screens
  BY <1>1, <1>3 DEF ViewsInv
<1>7. /\ screen = "discover" => DiscoverField(shown_field')
      /\ screen = "player" => PlayerField(shown_field')
  BY <1>2 DEF ViewsInv
<1> QED
  BY <1>1, <1>3, <1>4, <1>5, <1>6, <1>7 DEF ViewsInv

\* The details of a title are made of nothing in the library but its item, ...
LEMMA DetailsViewIs ==
  ASSUME NEW field, NEW c, NEW d, c.addons = d.addons, c.streams = d.streams, c.base_url = d.base_url,
         c.library[Title] = d.library[Title]
  PROVE  Views!MetaDetailsView(field, c) = Views!MetaDetailsView(field, d)
<1>1. \A base : Views!Installed(c, base) <=> Views!Installed(d, base)
  BY DEF Views!Installed
<1>2. Views!MetaView(field, c) = Views!MetaView(field, d)
  <2>1. Views!InLibrary(c, Title) = Views!InLibrary(d, Title) /\ \A v : Views!Progress(c, v) = Views!Progress(d, v)
    BY DEF Views!InLibrary, Views!Progress
  <2>2. [v \in ShownVideos |-> Views!Progress(c, v)] = [v \in ShownVideos |-> Views!Progress(d, v)]
    BY <2>1
  <2> QED
    BY <1>1, <2>1, <2>2 DEF Views!MetaView
<1>3. Views!StreamsView(field, c) = Views!StreamsView(field, d)
  <2> DEFINE groups == Views!OfInstalled(c, Views!StreamGroups(field))
  <2>1. Views!OfInstalled(c, Views!StreamGroups(field)) = Views!OfInstalled(d, Views!StreamGroups(field))
    <3>1. {i \in DOMAIN Views!StreamGroups(field) : Views!Installed(c, Views!StreamGroups(field)[i].base)}
            = {i \in DOMAIN Views!StreamGroups(field) : Views!Installed(d, Views!StreamGroups(field)[i].base)}
      BY <1>1
    <3> QED
      BY <3>1 DEF Views!OfInstalled
  <2>2. \A s : Views!StreamView(c, s) = Views!StreamView(d, s)
    BY DEF Views!StreamView
  <2>3. \A content : {Views!StreamView(c, s) : s \in content} = {Views!StreamView(d, s) : s \in content}
    BY <2>2
  <2> DEFINE One(x, r) == Views!Resource(r.base, IF Views!Ready(r.content) THEN {Views!StreamView(x, s) : s \in r.content} ELSE r.content)
  <2>4. \A r : One(c, r) = One(d, r)
    BY <2>3
  <2>5. Views!StreamsView(field, c) = [i \in DOMAIN groups |-> One(c, groups[i])]
    BY DEF Views!StreamsView
  <2>6. Views!StreamsView(field, d) = [i \in DOMAIN groups |-> One(d, groups[i])]
    BY <2>1 DEF Views!StreamsView
  <2> HIDE DEF groups, One
  <2> QED
    BY <2>4, <2>5, <2>6
<1>4. Views!ExtensionsView(field, c) = Views!ExtensionsView(field, d)
  <2>1. {i \in DOMAIN field.items : Views!Installed(c, field.items[i].base) /\ Views!Ready(field.items[i].content)}
          = {i \in DOMAIN field.items : Views!Installed(d, field.items[i].base) /\ Views!Ready(field.items[i].content)}
    BY <1>1
  <2> QED
    BY <2>1 DEF Views!ExtensionsView
<1> QED
  BY <1>2, <1>3, <1>4 DEF Views!MetaDetailsView

\* ... and the screens of library items of what they hold of it.
LEMMA LibraryViewsAre ==
  ASSUME NEW field, NEW c, NEW d, c.streams = d.streams, c.base_url = d.base_url
  PROVE  Views!LibraryView(field, c) = Views!LibraryView(field, d) /\ Views!ContinueWatchingView(field, c) = Views!ContinueWatchingView(field, d)
<1>1. \A id : Views!LibraryItemView(field, c, id) = Views!LibraryItemView(field, d, id)
  BY DEF Views!LibraryItemView
<1>2. \A id : Views!ContinueWatchingItem(field, c, id) = Views!ContinueWatchingItem(field, d, id)
  BY DEF Views!ContinueWatchingItem
<1> QED
  BY <1>1, <1>2 DEF Views!LibraryView, Views!ContinueWatchingView

LEMMA LibraryStep ==
  ASSUME ViewsInv, Views!FollowLibrary, entries' = [id \in ShownTitles |-> entries'[id]],
         \A id \in ShownTitles : entries'[id] \in Entries[id]
  PROVE  ViewsInv'
<1>1. addons' = addons /\ loaded' = loaded /\ reachable' = reachable
  BY DEF Views!FollowLibrary
<1>2. /\ screen \in Views!OfLibrary => shown_field' = [catalog |-> Views!CatalogOf(entries')]
      /\ screen = "player" => shown_field' = [shown_field EXCEPT !.library_item = entries'[Title]]
      /\ screen \in {"meta_details", "discover", "board"} => shown_field' = shown_field
  BY DEF Views!FollowLibrary, Views!OfLibrary
<1> DEFINE fields ==
             {"ctx"} \cup
             CASE screen \in {"discover", "board"} -> {screen}
               [] screen \in Views!OfLibrary \cup {"player"} -> IF shown_field' # shown_field THEN {screen} ELSE {}
               [] screen = "meta_details" -> IF entries'[Title] # entries[Title] THEN {screen} ELSE {}
<1>3. /\ screen \in {"discover", "board"} => fields = {"ctx", screen}
      /\ screen \in Views!OfLibrary \cup {"player"} => fields = {"ctx"} \cup IF shown_field' # shown_field THEN {screen} ELSE {}
      /\ screen = "meta_details" => fields = {"ctx"} \cup IF entries'[Title] # entries[Title] THEN {screen} ELSE {}
  BY DEF Views!OfLibrary
<1>4. Views!Announce("library", fields)
  BY DEF Views!FollowLibrary
<1> HIDE DEF fields
<1>5. screen = "player" \/ screen \in fields \/ Views!View(shown_field', Views!Ctx') = Views!View(shown_field, Views!Ctx)
  <2> SUFFICES ASSUME screen # "player", screen \notin fields
               PROVE  Views!View(shown_field', Views!Ctx') = Views!View(shown_field, Views!Ctx)
    OBVIOUS
  <2>1. Views!Ctx'.addons = Views!Ctx.addons /\ Views!Ctx'.streams = Views!Ctx.streams /\ Views!Ctx'.base_url = Views!Ctx.base_url
    BY <1>1 DEF Views!Ctx
  <2>2. screen \in Views!OfLibrary \cup {"meta_details"}
    BY <1>3, ScreenIs DEF Views!OfLibrary
  <2>3. CASE screen \in Views!OfLibrary
    <3>1. shown_field' = shown_field
      BY <1>3, <2>3
    <3>2. /\ Views!LibraryView(shown_field, Views!Ctx') = Views!LibraryView(shown_field, Views!Ctx)
          /\ Views!ContinueWatchingView(shown_field, Views!Ctx') = Views!ContinueWatchingView(shown_field, Views!Ctx)
      BY <2>1, LibraryViewsAre
    <3>3. screen' = screen
      BY <1>4 DEF Views!Announce
    <3> QED
      BY <2>3, <3>1, <3>2, <3>3 DEF Views!View, Views!OfLibrary
  <2>4. CASE screen = "meta_details"
    <3>1. shown_field' = shown_field /\ entries'[Title] = entries[Title]
      BY <1>2, <1>3, <2>4
    <3>2. Views!Ctx'.library[Title] = Views!Ctx.library[Title]
      BY <3>1 DEF Views!Ctx
    <3>3. Views!MetaDetailsView(shown_field, Views!Ctx') = Views!MetaDetailsView(shown_field, Views!Ctx)
      BY <2>1, <3>2, DetailsViewIs
    <3>4. screen' = screen
      BY <1>4 DEF Views!Announce
    <3> QED
      BY <2>4, <3>1, <3>3, <3>4 DEF Views!View
  <2> QED
    BY <2>2, <2>3, <2>4
<1>6. screen' = screen /\ told' \subseteq Screens \cup {"ctx", "streaming_server"} /\ Views!ViewsAreTold'
  <2>1. fields \in SUBSET (Screens \cup {"ctx", "streaming_server"}) /\ "ctx" \in fields
    BY <1>3, ScreenIs DEF ViewsInv
  <2> QED
    BY <1>4, <1>5, <2>1, AnnouncedIs
<1>7. ASSUME screen = "player"
      PROVE  PlayerField(shown_field')
  <2>1. entries'[Title] \in Entries[Title]
    BY ViewsAssumption DEF Views!CollectionsAssumption
  <2>2. PlayerField(shown_field)
    BY <1>7 DEF ViewsInv
  <2>3. shown_field' = [video |-> shown_field.video, item |-> shown_field.item, subtitles |-> shown_field.subtitles,
                  library_item |-> entries'[Title]]
    BY <1>2, <1>7, <2>2 DEF PlayerField
  <2> QED
    BY <2>1, <2>2, <2>3 DEF PlayerField
<1> QED
  BY <1>1, <1>2, <1>6, <1>7 DEF ViewsInv

\* A step that leaves Ctx alone but for streams and the server is one of the field.
LEMMA FieldStep ==
  ASSUME ViewsInv, addons' = addons, entries' = entries, reachable' \in BOOLEAN,
         NEW cause \in {"played", "streams", "server", "answer", "page"},
         NEW fields \in SUBSET (Screens \cup {"ctx", "streaming_server"}),
         fields \cap {screen, "ctx", "streaming_server"} # {}, Views!Announce(cause, fields),
         screen = "meta_details" => DetailsField(shown_field', addons),
         screen = "discover" => DiscoverField(shown_field'),
         screen = "board" => BoardField(shown_field'),
         screen = "player" => PlayerField(shown_field')
  PROVE  ViewsInv'
<1>1. screen' = screen /\ told' \subseteq Screens \cup {"ctx", "streaming_server"} /\ Views!ViewsAreTold'
  BY AnnouncedIs
<1> QED
  BY <1>1 DEF ViewsInv

LEMMA OneAnswered ==
  ASSUME NEW resources, NEW collection, OfEach(resources, collection), NEW i \in DOMAIN collection, NEW c
  PROVE  LET next == [resources EXCEPT ![i].content = c]
         IN /\ OfEach(next, collection)
            /\ \A k \in DOMAIN collection : next[k].content \in {c, resources[k].content}
<1> DEFINE next == [resources EXCEPT ![i].content = c]
           one == [resources[i] EXCEPT !.content = c]
<1>1. next = [k \in DOMAIN collection |-> IF k = i THEN one ELSE resources[k]]
  BY DEF OfEach
<1>2. one = [base |-> collection[i], content |-> c]
  BY DEF OfEach
<1> HIDE DEF next, one
<1>3. next = [k \in DOMAIN collection |-> next[k]]
  BY <1>1
<1>4. \A k \in DOMAIN collection : next[k] = [base |-> collection[k], content |-> next[k].content]
  BY <1>1, <1>2 DEF OfEach
<1>5. \A k \in DOMAIN collection : next[k].content \in {c, resources[k].content}
  BY <1>1, <1>2
<1> QED
  BY <1>3, <1>4, <1>5 DEF next, OfEach

LEMMA DetailsAnswered ==
  ASSUME NEW collection \in Collections, DetailsField(shown_field, collection),
         \/ \E i \in DOMAIN shown_field.items, c \in MetaAnswers \cup {Failed} : shown_field' = [shown_field EXCEPT !.items[i].content = c]
         \/ \E i \in DOMAIN shown_field.groups, c \in Streams \cup {Failed} : shown_field' = [shown_field EXCEPT !.groups[i].content = c]
  PROVE  DetailsField(shown_field', collection)
<1>1. /\ shown_field = [items |-> shown_field.items, groups |-> shown_field.groups]
      /\ OfEach(shown_field.items, collection) /\ OfEach(shown_field.groups, collection)
      /\ \A k \in DOMAIN collection : shown_field.items[k].content \in MetaAnswers \cup {Loading, Failed}
  BY DEF DetailsField
<1>2. DOMAIN shown_field.items = DOMAIN collection /\ DOMAIN shown_field.groups = DOMAIN collection
  BY <1>1 DEF OfEach
<1>3. ASSUME NEW i \in DOMAIN shown_field.items, NEW c \in MetaAnswers \cup {Failed}, shown_field' = [shown_field EXCEPT !.items[i].content = c]
      PROVE  DetailsField(shown_field', collection)
  <2> DEFINE next == [shown_field.items EXCEPT ![i].content = c]
  <2>1. shown_field' = [shown_field EXCEPT !.items = next]
    BY <1>1, <1>3
  <2>2. /\ OfEach(next, collection)
        /\ \A k \in DOMAIN collection : next[k].content \in {c, shown_field.items[k].content}
    <3>1. i \in DOMAIN collection
      BY <1>2
    <3> QED
      BY <1>1, <3>1, OneAnswered
  <2> HIDE DEF next
  <2>3. shown_field' = [items |-> next, groups |-> shown_field.groups]
    BY <1>1, <2>1
  <2>4. shown_field'.items = next /\ shown_field'.groups = shown_field.groups
    BY <2>3
  <2>5. \A k \in DOMAIN collection : next[k].content \in MetaAnswers \cup {Loading, Failed}
    BY <1>1, <2>2
  <2> QED
    BY <1>1, <2>2, <2>3, <2>4, <2>5 DEF DetailsField
<1>4. ASSUME NEW i \in DOMAIN shown_field.groups, NEW c, shown_field' = [shown_field EXCEPT !.groups[i].content = c]
      PROVE  DetailsField(shown_field', collection)
  <2> DEFINE next == [shown_field.groups EXCEPT ![i].content = c]
  <2>1. shown_field' = [shown_field EXCEPT !.groups = next]
    BY <1>1, <1>4
  <2>2. OfEach(next, collection)
    BY <1>1, <1>2, OneAnswered
  <2> HIDE DEF next
  <2>3. shown_field' = [items |-> shown_field.items, groups |-> next]
    BY <1>1, <2>1
  <2>4. shown_field'.items = shown_field.items /\ shown_field'.groups = next
    BY <2>3
  <2> QED
    BY <1>1, <2>2, <2>3, <2>4 DEF DetailsField
<1> QED
  BY <1>3, <1>4

LEMMA DiscoverAnswered ==
  ASSUME DiscoverField(shown_field), NEW i \in DOMAIN shown_field.pages, NEW c \in Pages \cup {Failed},
         shown_field' = [shown_field EXCEPT !.pages[i] = c]
  PROVE  DiscoverField(shown_field')
<1> DEFINE next == [shown_field.pages EXCEPT ![i] = c]
           T == Pages \cup {Loading, Failed}
<1>1. shown_field = [base |-> shown_field.base, pages |-> shown_field.pages] /\ shown_field.pages \in Seq(T) \ {<<>>}
  BY DEF DiscoverField
<1>2. shown_field' = [shown_field EXCEPT !.pages = next]
  BY <1>1
<1>3. c \in T
  OBVIOUS
<1> HIDE DEF T
<1>4. next \in Seq(T) /\ Len(next) = Len(shown_field.pages)
  BY <1>1, <1>3
<1>5. next # <<>>
  BY <1>1, <1>4
<1> HIDE DEF next
<1>6. shown_field' = [base |-> shown_field.base, pages |-> next]
  BY <1>1, <1>2
<1>7. shown_field'.base = shown_field.base /\ shown_field'.pages = next
  BY <1>6
<1> QED
  BY <1>4, <1>5, <1>6, <1>7 DEF DiscoverField, T

LEMMA BoardAnswered ==
  ASSUME BoardField(shown_field), NEW i \in DOMAIN shown_field.rows, NEW c \in Pages \cup {Failed},
         shown_field' = [shown_field EXCEPT !.rows[i].content = c]
  PROVE  BoardField(shown_field')
<1> DEFINE next == [shown_field.rows EXCEPT ![i].content = c]
           one == [shown_field.rows[i] EXCEPT !.content = c]
           T == [row : Views!Range(Rows), content : Pages \cup {Loading, Failed}]
<1>1. /\ shown_field = [rows |-> shown_field.rows] /\ shown_field.rows \in Seq(T)
      /\ \A j, k \in DOMAIN shown_field.rows : shown_field.rows[j].row = shown_field.rows[k].row => j = k
  BY DEF BoardField
<1>2. shown_field' = [shown_field EXCEPT !.rows = next]
  BY <1>1
<1>3. one \in T /\ one.row = shown_field.rows[i].row
  <2>1. shown_field.rows[i] \in T
    <3> HIDE DEF T
    <3> QED
      BY <1>1
  <2> QED
    BY <2>1
<1>4. /\ next \in Seq(T) /\ DOMAIN next = DOMAIN shown_field.rows
      /\ next[i] = one /\ \A j \in DOMAIN shown_field.rows : j # i => next[j] = shown_field.rows[j]
  <2> HIDE DEF T
  <2> QED
    BY <1>1, <1>3, OneAnsweredIs
<1> HIDE DEF next, one
<1>5. \A j \in DOMAIN next : next[j].row = shown_field.rows[j].row
  BY <1>3, <1>4
<1>6. \A j, k \in DOMAIN next : next[j].row = next[k].row => j = k
  BY <1>1, <1>4, <1>5
<1>7. shown_field' = [rows |-> next] /\ shown_field'.rows = next
  BY <1>1, <1>2
<1> QED
  BY <1>4, <1>6, <1>7 DEF BoardField

LEMMA PlayerAnswered ==
  ASSUME PlayerField(shown_field),
         \/ \E c : shown_field' = [shown_field EXCEPT !.item.content = c]
         \/ \E i \in DOMAIN shown_field.subtitles, c \in {Failed, 2} : shown_field' = [shown_field EXCEPT !.subtitles[i].content = c]
  PROVE  PlayerField(shown_field')
<1> DEFINE T == [base : Views!Bases, content : {Loading, Failed, 2}]
<1>1. /\ shown_field = [video |-> shown_field.video, item |-> shown_field.item, subtitles |-> shown_field.subtitles,
                  library_item |-> shown_field.library_item]
      /\ shown_field.subtitles \in Seq(T) /\ shown_field.library_item \in Entries[Title]
      /\ \A j, k \in DOMAIN shown_field.subtitles : shown_field.subtitles[j].base = shown_field.subtitles[k].base => j = k
  BY DEF PlayerField
<1>2. ASSUME NEW c, shown_field' = [shown_field EXCEPT !.item.content = c]
      PROVE  PlayerField(shown_field')
  <2>1. shown_field' = [shown_field EXCEPT !.item = [shown_field.item EXCEPT !.content = c]]
    BY <1>1, <1>2
  <2>2. shown_field' = [video |-> shown_field.video, item |-> [shown_field.item EXCEPT !.content = c], subtitles |-> shown_field.subtitles,
                  library_item |-> shown_field.library_item]
    BY <1>1, <2>1
  <2> QED
    BY <1>1, <2>2 DEF PlayerField
<1>3. ASSUME NEW i \in DOMAIN shown_field.subtitles, NEW c \in {Failed, 2}, shown_field' = [shown_field EXCEPT !.subtitles[i].content = c]
      PROVE  PlayerField(shown_field')
  <2> DEFINE next == [shown_field.subtitles EXCEPT ![i].content = c]
             one == [shown_field.subtitles[i] EXCEPT !.content = c]
  <2>1. shown_field' = [shown_field EXCEPT !.subtitles = next]
    BY <1>1, <1>3
  <2>2. one \in T /\ one.base = shown_field.subtitles[i].base
    <3>1. shown_field.subtitles[i] \in T
      <4> HIDE DEF T
      <4> QED
        BY <1>1
    <3> QED
      BY <3>1
  <2>3. /\ next \in Seq(T) /\ DOMAIN next = DOMAIN shown_field.subtitles
        /\ next[i] = one /\ \A j \in DOMAIN shown_field.subtitles : j # i => next[j] = shown_field.subtitles[j]
    <3> HIDE DEF T
    <3> QED
      BY <1>1, <2>2, OneAnsweredIs
  <2> HIDE DEF next, one
  <2>4. \A j \in DOMAIN next : next[j].base = shown_field.subtitles[j].base
    BY <2>2, <2>3
  <2>5. \A j, k \in DOMAIN next : next[j].base = next[k].base => j = k
    BY <1>1, <2>3, <2>4
  <2>6. shown_field' = [video |-> shown_field.video, item |-> shown_field.item, subtitles |-> next, library_item |-> shown_field.library_item]
    BY <1>1, <2>1
  <2> QED
    BY <1>1, <2>3, <2>5, <2>6 DEF PlayerField
<1> QED
  BY <1>2, <1>3

LEMMA AnsweredStep ==
  ASSUME ViewsInv, Views!Answered
  PROVE  ViewsInv'
<1>1. /\ addons' = addons /\ entries' = entries /\ reachable' = reachable /\ reachable \in BOOLEAN
      /\ Views!Announce("answer", {screen}) /\ screen \in Screens
  BY DEF Views!Answered, ViewsInv
<1>2. ASSUME screen = "meta_details"
      PROVE  DetailsField(shown_field', addons)
  <2>1. \/ \E i \in DOMAIN shown_field.items, c \in MetaAnswers \cup {Failed} : shown_field' = [shown_field EXCEPT !.items[i].content = c]
        \/ \E i \in DOMAIN shown_field.groups, c \in Streams \cup {Failed} : shown_field' = [shown_field EXCEPT !.groups[i].content = c]
    BY <1>2 DEF Views!Answered, Views!OfLibrary
  <2> QED
    BY <1>2, <2>1, DetailsAnswered DEF ViewsInv
<1>3. ASSUME screen = "discover"
      PROVE  DiscoverField(shown_field')
  <2>1. \E i \in DOMAIN shown_field.pages, c \in Pages \cup {Failed} : shown_field' = [shown_field EXCEPT !.pages[i] = c]
    BY <1>3 DEF Views!Answered, Views!OfLibrary
  <2> QED
    BY <1>3, <2>1, DiscoverAnswered DEF ViewsInv
<1>4. ASSUME screen = "board"
      PROVE  BoardField(shown_field')
  <2>1. \E i \in DOMAIN shown_field.rows, c \in Pages \cup {Failed} : shown_field' = [shown_field EXCEPT !.rows[i].content = c]
    BY <1>4 DEF Views!Answered, Views!OfLibrary
  <2> QED
    BY <1>4, <2>1, BoardAnswered DEF ViewsInv
<1>5. ASSUME screen = "player"
      PROVE  PlayerField(shown_field')
  <2>1. \/ \E c : shown_field' = [shown_field EXCEPT !.item.content = c]
        \/ \E i \in DOMAIN shown_field.subtitles, c \in {Failed, 2} : shown_field' = [shown_field EXCEPT !.subtitles[i].content = c]
    BY <1>5 DEF Views!Answered, Views!OfLibrary
  <2> QED
    BY <1>5, <2>1, PlayerAnswered DEF ViewsInv
<1> QED
  BY <1>1, <1>2, <1>3, <1>4, <1>5, FieldStep

LEMMA ViewsStep ==
  ASSUME ViewsInv, [Views!Next]_viewVars
  PROVE  ViewsInv'
<1>1. CASE Views!ProfileChanged
  BY <1>1, ProfileStep
<1>2. CASE Views!LibraryChanged
  <2>0. PICK id \in ShownTitles : \E entry \in Entries[id] : entries' = [entries EXCEPT ![id] = entry]
    BY <1>2 DEF Views!LibraryChanged
  <2>1. PICK entry \in Entries[id] : entries' = [entries EXCEPT ![id] = entry]
    BY <2>0
  <2>2. entries' = [t \in ShownTitles |-> entries'[t]] /\ \A t \in ShownTitles : entries'[t] \in Entries[t]
    BY <2>1 DEF ViewsInv
  <2> QED
    BY <1>2, <2>2, LibraryStep DEF Views!LibraryChanged
<1>3. CASE Views!TimeChanged
  <2>1. PICK entry \in Entries[Title] : shown_field' = [shown_field EXCEPT !.library_item = entry]
    BY <1>3 DEF Views!TimeChanged
  <2>2. screen = "player" /\ PlayerField(shown_field)
    BY <1>3 DEF Views!TimeChanged, ViewsInv
  <2>3. shown_field' = [video |-> shown_field.video, item |-> shown_field.item, subtitles |-> shown_field.subtitles, library_item |-> entry]
    BY <2>1, <2>2 DEF PlayerField
  <2>4. PlayerField(shown_field')
    BY <2>2, <2>3 DEF PlayerField
  <2>5. /\ addons' = addons /\ entries' = entries /\ reachable' \in BOOLEAN /\ screen \in Screens
        /\ Views!Announce("played", {screen})
    BY <1>3 DEF Views!TimeChanged, ViewsInv
  <2> QED
    BY <2>2, <2>4, <2>5, FieldStep
<1>4. CASE Views!PushToLibrary
  <2>1. entries' = [entries EXCEPT ![Title] = shown_field.library_item] /\ shown_field.library_item \in Entries[Title]
    BY <1>4 DEF Views!PushToLibrary, ViewsInv, PlayerField
  <2>2. entries' = [t \in ShownTitles |-> entries'[t]] /\ \A t \in ShownTitles : entries'[t] \in Entries[t]
    BY <2>1 DEF ViewsInv
  <2> QED
    BY <1>4, <2>2, LibraryStep DEF Views!PushToLibrary
<1>5. CASE Views!PlayVideo
  <2>1. PICK v \in ShownVideos : shown_field' = [shown_field EXCEPT !.video = v]
    BY <1>5 DEF Views!PlayVideo
  <2>2. screen = "player" /\ PlayerField(shown_field)
    BY <1>5 DEF Views!PlayVideo, ViewsInv
  <2>3. shown_field' = [video |-> v, item |-> shown_field.item, subtitles |-> shown_field.subtitles, library_item |-> shown_field.library_item]
    BY <2>1, <2>2 DEF PlayerField
  <2>4. PlayerField(shown_field')
    BY <2>2, <2>3 DEF PlayerField
  <2>5. /\ addons' = addons /\ entries' = entries /\ reachable' \in BOOLEAN /\ screen \in Screens
        /\ Views!Announce("played", {screen})
    BY <1>5 DEF Views!PlayVideo, ViewsInv
  <2> QED
    BY <2>2, <2>4, <2>5, FieldStep
<1>6. CASE Views!StreamLoaded
  <2>1. /\ addons' = addons /\ entries' = entries /\ reachable' \in BOOLEAN /\ shown_field' = shown_field
        /\ Views!Announce("streams", {"ctx"})
    BY <1>6 DEF Views!StreamLoaded, ViewsInv
  <2> QED
    BY <2>1, FieldStep DEF ViewsInv
<1>7. CASE Views!ServerChanged
  <2>1. /\ addons' = addons /\ entries' = entries /\ reachable' \in BOOLEAN /\ shown_field' = shown_field
        /\ Views!Announce("server", {"streaming_server"})
    BY <1>7 DEF Views!ServerChanged, ViewsInv
  <2> QED
    BY <2>1, FieldStep DEF ViewsInv
<1>8. CASE Views!Answered
  BY <1>8, AnsweredStep
<1>9. CASE Views!LoadNextPage
  <2>1. screen = "discover" /\ DiscoverField(shown_field)
    BY <1>9 DEF Views!LoadNextPage, ViewsInv
  <2> DEFINE next == Append(shown_field.pages, Loading)
             T == Pages \cup {Loading, Failed}
  <2>2. shown_field' = [base |-> shown_field.base, pages |-> next]
    BY <1>9, <2>1 DEF Views!LoadNextPage, DiscoverField
  <2>3. next \in Seq(T) \ {<<>>}
    <3>1. shown_field.pages \in Seq(T) /\ Loading \in T
      BY <2>1 DEF DiscoverField
    <3> HIDE DEF T
    <3> QED
      BY <3>1
  <2> HIDE DEF next
  <2>4. DiscoverField(shown_field')
    BY <2>2, <2>3 DEF DiscoverField
  <2>5. /\ addons' = addons /\ entries' = entries /\ reachable' \in BOOLEAN /\ screen \in Screens
        /\ Views!Announce("page", {screen})
    BY <1>9 DEF Views!LoadNextPage, ViewsInv
  <2> QED
    BY <2>1, <2>4, <2>5, FieldStep
<1>10. CASE Views!GetState
  BY <1>10 DEF Views!GetState, ViewsInv, Views!ViewsAreTold
<1>11. CASE UNCHANGED viewVars
  BY <1>11 DEF viewVars, ViewsInv, Views!ViewsAreTold
<1> QED
  BY <1>1, <1>2, <1>3, <1>4, <1>5, <1>6, <1>7, <1>8, <1>9, <1>10, <1>11 DEF Views!Next

LEMMA ViewsTypes ==
  ASSUME ViewsInv
  PROVE  Views!TypeOK /\ Views!ViewsAreTold
BY DEF ViewsInv, Views!TypeOK

\* As long as an answer is there, or awaited, the details show that.
LEMMA ChosenIs ==
  ASSUME ViewsInv, screen = "meta_details"
  PROVE  LET given == {shown_field.items[i].content : i \in DOMAIN shown_field.items}
             meta == Views!MetaView(shown_field, Views!Ctx)
         IN /\ (\E c \in given : Views!Ready(c)) => Views!Ready(meta)
            /\ meta = Failed <=> given = {Failed}
<1> DEFINE items == shown_field.items
           given == {items[i].content : i \in DOMAIN items}
           there == {i \in DOMAIN items : Views!Ready(items[i].content)}
           awaited == {i \in DOMAIN items : items[i].content = Loading}
           among == IF there # {} THEN there ELSE IF awaited # {} THEN awaited ELSE DOMAIN items
           c == Views!ChosenMeta(shown_field)
           meta == Views!MetaView(shown_field, Views!Ctx)
           progress == {None} \cup {entry.progress : entry \in Entries[Title] \ {None}}
           Metadata == [base : Views!Bases, in_library : BOOLEAN, server : BOOLEAN, videos : [ShownVideos -> progress]]
<1>1. /\ DOMAIN items = DOMAIN addons /\ DOMAIN addons = 1 .. Len(addons) /\ Len(addons) \in Nat
      /\ \A i \in DOMAIN items : items[i] = [base |-> addons[i], content |-> items[i].content]
      /\ \A i \in DOMAIN items : items[i].content \in MetaAnswers \cup {Loading, Failed}
      /\ \A i \in DOMAIN items : addons[i] \in Views!Bases
  BY CollectionIs DEF ViewsInv, DetailsField, OfEach
<1>2. \A answer \in MetaAnswers : Views!Ready(answer)
  BY ViewsAssumption DEF Views!AnswersAssumption
<1>3. \A mark \in {None, Loading, Failed} : mark \notin Metadata
  BY ViewsAssumption DEF Views!AnswersAssumption
<1>4. c = IF among = {} THEN None ELSE items[Views!FirstOf(among)]
  BY DEF Views!ChosenMeta
<1> HIDE DEF items, c
<1>5. CASE among = {}
  <2>1. DOMAIN items = {}
    BY <1>5
  <2>2. c = None
    BY <1>4, <1>5
  <2>3. meta = None
    BY <2>2 DEF Views!MetaView, c
  <2>4. given = {}
    BY <2>1
  <2> QED
    BY <2>3, <2>4, LoadableAssumption DEF items
<1>6. CASE among # {}
  <2> DEFINE k == Views!FirstOf(among)
  <2>1. k \in among
    <3>1. among \subseteq Nat
      BY <1>1
    <3> HIDE DEF among
    <3> QED
      BY <1>6, <3>1, FirstIs
  <2>2. c = items[k]
    BY <1>4, <1>6
  <2> HIDE DEF k
  <2>3. k \in DOMAIN items
    BY <2>1
  <2>4. c = [base |-> addons[k], content |-> items[k].content] /\ c.base = addons[k] /\ c.content = items[k].content
    BY <1>1, <2>2, <2>3
  <2>5. c # None
    <3>1. Views!Resource(addons[k], items[k].content) # None
      BY <1>1, <2>3, ViewsAssumption DEF Views!AnswersAssumption
    <3> QED
      BY <2>4, <3>1 DEF Views!Resource
  <2>6. Views!Installed(Views!Ctx, c.base)
    BY <1>1, <2>3, <2>4 DEF Views!Installed, Views!Ctx, Views!Range
  <2>7. ~Views!Ready(c.content) => meta = c.content
    BY <2>5, <2>6 DEF Views!MetaView, c
  <2>8. Views!Ready(c.content) => Views!Ready(meta)
    <3> SUFFICES ASSUME Views!Ready(c.content)
                 PROVE  Views!Ready(meta)
      OBVIOUS
    <3>1. meta = [base |-> c.base, in_library |-> Views!InLibrary(Views!Ctx, Title), server |-> Views!Ctx.base_url,
                  videos |-> [v \in ShownVideos |-> Views!Progress(Views!Ctx, v)]]
      BY <2>5, <2>6 DEF Views!MetaView, c
    <3>2. Views!InLibrary(Views!Ctx, Title) \in BOOLEAN
      BY DEF Views!InLibrary
    <3>3. Views!Ctx.base_url \in BOOLEAN
      BY DEF Views!Ctx, ViewsInv
    <3>4. \A v : Views!Progress(Views!Ctx, v) \in progress
      <4>1. entries[Title] \in Entries[Title]
        BY ViewsAssumption DEF ViewsInv, Views!CollectionsAssumption
      <4> QED
        BY <4>1 DEF Views!Progress, Views!Ctx
    <3>5. [v \in ShownVideos |-> Views!Progress(Views!Ctx, v)] \in [ShownVideos -> progress]
      <4> HIDE DEF progress
      <4> QED
        BY <3>4
    <3>6. c.base \in Views!Bases
      BY <1>1, <2>3, <2>4
    <3>7. meta \in Metadata
      <4> HIDE DEF progress, meta
      <4> QED
        BY <3>1, <3>2, <3>3, <3>5, <3>6
    <3> QED
      BY <1>3, <3>7 DEF Views!Ready
  <2>9. CASE there # {}
    <3>1. Views!Ready(c.content)
      BY <2>1, <2>4, <2>9
    <3>2. given # {Failed}
      <4>1. c.content \in given /\ c.content # Failed
        BY <2>3, <2>4, <3>1 DEF Views!Ready
      <4> QED
        BY <4>1
    <3>3. Views!Ready(meta) /\ meta # Failed
      BY <2>8, <3>1 DEF Views!Ready
    <3> QED
      BY <3>2, <3>3 DEF items
  <2>10. CASE there = {} /\ awaited # {}
    <3>1. c.content = Loading
      BY <2>1, <2>4, <2>10
    <3>2. meta = Loading
      BY <2>7, <3>1 DEF Views!Ready
    <3>3. Loading \in given
      BY <2>3, <2>4, <3>1
    <3>4. ~(\E x \in given : Views!Ready(x))
      BY <2>10
    <3> QED
      BY <3>2, <3>3, <3>4, LoadableAssumption DEF items
  <2>11. CASE there = {} /\ awaited = {}
    <3>1. \A i \in DOMAIN items : items[i].content = Failed
      BY <1>1, <1>2, <2>11
    <3>2. c.content = Failed /\ given = {Failed}
      BY <2>3, <2>4, <3>1
    <3>3. meta = Failed
      BY <2>7, <3>2 DEF Views!Ready
    <3>4. ~Views!Ready(Failed)
      BY DEF Views!Ready
    <3> QED
      BY <3>2, <3>3, <3>4 DEF items
  <2> QED
    BY <2>9, <2>10, <2>11
<1> QED
  BY <1>5, <1>6

\* No streams are hidden.
LEMMA GroupsAreShown ==
  ASSUME ViewsInv, screen = "meta_details"
  PROVE  Len(Views!StreamsView(shown_field, Views!Ctx)) = Len(Views!StreamGroups(shown_field))
<1> DEFINE groups == Views!StreamGroups(shown_field)
           c == Views!ChosenMeta(shown_field)
<1>1. /\ addons \in Seq(Views!Bases) /\ DOMAIN addons = 1 .. Len(addons) /\ Len(addons) \in Nat
      /\ OfEach(shown_field.items, addons) /\ OfEach(shown_field.groups, addons)
  BY CollectionIs DEF ViewsInv, DetailsField
<1>0. /\ DOMAIN shown_field.items = DOMAIN addons /\ DOMAIN shown_field.groups = DOMAIN addons
      /\ \A i \in DOMAIN addons : shown_field.items[i] = [base |-> addons[i], content |-> shown_field.items[i].content]
      /\ \A i \in DOMAIN addons : shown_field.groups[i] = [base |-> addons[i], content |-> shown_field.groups[i].content]
  BY <1>1 DEF OfEach
<1>2. \A i \in DOMAIN addons : Views!Installed(Views!Ctx, addons[i])
  BY DEF Views!Installed, Views!Ctx, Views!Range
<1>3. \E T : groups \in Seq(T) /\ \A i \in DOMAIN groups : Views!Installed(Views!Ctx, groups[i].base)
  <2>1. CASE c # None /\ Views!Ready(c.content) /\ c.content.inline # {}
    <3>1. groups = <<Views!Resource(c.base, c.content.inline)>>
      BY <2>1 DEF Views!StreamGroups
    <3>2. Views!Installed(Views!Ctx, c.base)
      <4> DEFINE items == shown_field.items
                 there == {i \in DOMAIN items : Views!Ready(items[i].content)}
                 awaited == {i \in DOMAIN items : items[i].content = Loading}
                 among == IF there # {} THEN there ELSE IF awaited # {} THEN awaited ELSE DOMAIN items
      <4>1. c = IF among = {} THEN None ELSE items[Views!FirstOf(among)]
        BY DEF Views!ChosenMeta
      <4>2. among # {} /\ c = items[Views!FirstOf(among)]
        BY <2>1, <4>1
      <4>0. DOMAIN items = DOMAIN addons
        BY <1>0
      <4>3. among \subseteq Nat /\ among \subseteq DOMAIN addons
        BY <1>1, <4>0
      <4>4. Views!FirstOf(among) \in DOMAIN addons
        <5> HIDE DEF among
        <5> QED
          BY <4>2, <4>3, FirstIs
      <4> DEFINE k == Views!FirstOf(among)
      <4>5. c = shown_field.items[k] /\ k \in DOMAIN addons
        BY <4>2, <4>4
      <4> HIDE DEF k, c
      <4>6. c.base = addons[k]
        <5>1. c = [base |-> addons[k], content |-> shown_field.items[k].content]
          BY <1>0, <4>5
        <5> QED
          BY <5>1
      <4> QED
        BY <1>2, <4>5, <4>6
    <3>3. groups \in Seq({Views!Resource(c.base, c.content.inline)})
      BY <3>1
    <3>4. \A i \in DOMAIN groups : groups[i].base = c.base
      BY <3>1 DEF Views!Resource
    <3> QED
      BY <3>2, <3>3, <3>4
  <2>2. CASE ~(c # None /\ Views!Ready(c.content) /\ c.content.inline # {})
    <3>1. groups = shown_field.groups
      BY <2>2 DEF Views!StreamGroups
    <3> DEFINE T == {shown_field.groups[i] : i \in DOMAIN addons}
    <3>2. groups \in [1 .. Len(addons) -> T]
      BY <1>1, <3>1 DEF OfEach
    <3>3. groups \in Seq(T)
      <4> HIDE DEF T, groups
      <4> QED
        BY <1>1, <3>2
    <3>4. \A i \in DOMAIN groups : Views!Installed(Views!Ctx, groups[i].base)
      <4> TAKE i \in DOMAIN groups
      <4>1. i \in DOMAIN addons /\ groups[i] = [base |-> addons[i], content |-> shown_field.groups[i].content]
        BY <1>0, <3>1
      <4>2. groups[i].base = addons[i]
        BY <4>1
      <4> QED
        BY <1>2, <4>1, <4>2
    <3> QED
      BY <3>3, <3>4
  <2> QED
    BY <2>1, <2>2
<1> HIDE DEF groups
<1>4. PICK T : groups \in Seq(T) /\ \A i \in DOMAIN groups : Views!Installed(Views!Ctx, groups[i].base)
  BY <1>3
<1>5. Views!OfInstalled(Views!Ctx, groups) = groups
  <2>1. {i \in DOMAIN groups : Views!Installed(Views!Ctx, groups[i].base)} = DOMAIN groups
    BY <1>4
  <2> QED
    BY <1>4, <2>1, KeptAll, ViewsKept DEF Views!OfInstalled
<1>6. DOMAIN Views!StreamsView(shown_field, Views!Ctx) = DOMAIN groups
  BY <1>5 DEF Views!StreamsView, groups
<1>7. DOMAIN groups = 1 .. Len(groups) /\ Len(groups) \in Nat
  BY <1>4
<1> QED
  BY <1>6, <1>7 DEF groups

LEMMA AnswerShown ==
  ASSUME ViewsInv
  PROVE  Views!AnswerIsShown
BY ChosenIs, GroupsAreShown DEF Views!AnswerIsShown

\* Previews are of the titles they are made for.
LEMMA PreviewsAre ==
  ASSUME NEW V, NEW ids \in Seq(V)
  PROVE  Views!Ids(Views!Previews(Views!Ctx, ids)) = ids
<1>1. DOMAIN Views!Previews(Views!Ctx, ids) = DOMAIN ids /\ \A i \in DOMAIN ids : Views!Previews(Views!Ctx, ids)[i].id = ids[i]
  BY DEF Views!Previews, Views!Preview
<1>2. Views!Ids(Views!Previews(Views!Ctx, ids)) = [i \in DOMAIN ids |-> ids[i]]
  BY <1>1 DEF Views!Ids
<1> QED
  BY <1>2

\* The pages of the discover screen that are there, one after the other.
LEMMA DiscoverListed ==
  ASSUME ViewsInv, screen = "discover",
         Views!Ready(Views!DiscoverView(shown_field, Views!Ctx).content)
  PROVE  LET ids == Views!Ids(Views!DiscoverView(shown_field, Views!Ctx).content)
         IN /\ Views!IsInjective(ids)
            /\ Views!Range(ids) = UNION {Views!Range(page) : page \in {p \in Views!Range(shown_field.pages) : Views!Ready(p)}}
<1> DEFINE pages == shown_field.pages
           places == {i \in DOMAIN pages : Views!Ready(pages[i])}
           there == Views!Kept(pages, places)
           flat == Views!Flat(there)
           V == UNION {Views!Range(page) : page \in Pages}
           T == Pages \cup {Loading, Failed}
           content == Views!DiscoverView(shown_field, Views!Ctx).content
<1>1. pages \in Seq(T) /\ pages # <<>>
  BY DEF ViewsInv, DiscoverField
<1> HIDE DEF T
<1>2. DOMAIN pages = 1 .. Len(pages) /\ Len(pages) \in Nat /\ \A i \in DOMAIN pages : pages[i] \in T
  BY <1>1
<1> USE DEF T
<1>3. \A i \in places : pages[i] \in Pages
  BY <1>2 DEF Views!Ready
<1>4. Views!DiscoverView(shown_field, Views!Ctx) =
        [installed |-> Views!Installed(Views!Ctx, shown_field.base),
         content |-> IF Views!Ready(pages[1]) THEN Views!Previews(Views!Ctx, Views!Unique(flat)) ELSE pages[1]]
  BY <1>1 DEF Views!DiscoverView
<1>5. content = Views!Previews(Views!Ctx, Views!Unique(flat))
  <2>1. content = IF Views!Ready(pages[1]) THEN Views!Previews(Views!Ctx, Views!Unique(flat)) ELSE pages[1]
    BY <1>4
  <2> QED
    BY <2>1
<1> HIDE DEF content, T
<1>6. /\ there \in Seq(T)
      /\ \A n \in DOMAIN there : \E i \in places : there[n] = pages[i]
      /\ \A i \in places : \E n \in DOMAIN there : there[n] = pages[i]
  <2> HIDE DEF there
  <2>1. places \in SUBSET DOMAIN pages
    OBVIOUS
  <2> QED
    BY <1>1, <2>1, KeptSeq DEF there
<1>7. there \in Seq(Seq(V))
  <2>1. \A page \in Pages : page \in Seq(V)
    <3> TAKE page \in Pages
    <3>1. page \in Seq(Views!Range(page))
      BY ViewsAssumption DEF Views!AnswersAssumption
    <3>2. DOMAIN page = 1 .. Len(page) /\ Len(page) \in Nat /\ page \in [1 .. Len(page) -> Views!Range(page)]
      BY <3>1
    <3>3. Views!Range(page) \subseteq V
      OBVIOUS
    <3>4. page \in [1 .. Len(page) -> V]
      <4> HIDE DEF V
      <4> QED
        BY <3>2, <3>3
    <3> QED
      BY <3>2, <3>4
  <2> HIDE DEF there, V
  <2>2. DOMAIN there = 1 .. Len(there) /\ Len(there) \in Nat /\ there = [n \in DOMAIN there |-> there[n]]
    BY <1>6
  <2>3. \A n \in 1 .. Len(there) : there[n] \in Seq(V)
    BY <1>3, <1>6, <2>1, <2>2
  <2>4. there \in [1 .. Len(there) -> Seq(V)]
    BY <2>2, <2>3
  <2> QED
    BY <2>2, <2>4
<1>8. flat \in Seq(V) /\ Views!Range(flat) = UNION {Views!Range(there[i]) : i \in DOMAIN there}
  <2> HIDE DEF V, there
  <2> QED
    BY <1>7, FlatIs
<1> HIDE DEF flat
<1>9. Views!Unique(flat) \in Seq(V) /\ Views!IsInjective(Views!Unique(flat)) /\ Views!Range(Views!Unique(flat)) = Views!Range(flat)
  <2> HIDE DEF V
  <2> QED
    BY <1>8, UniqueSeq
<1>10. Views!Ids(content) = Views!Unique(flat)
  <2> HIDE DEF V
  <2> QED
    BY <1>5, <1>9, PreviewsAre
<1> HIDE DEF there
<1>11. UNION {Views!Range(there[i]) : i \in DOMAIN there} =
         UNION {Views!Range(page) : page \in {p \in Views!Range(pages) : Views!Ready(p)}}
  <2>1. \A p : p \in {q \in Views!Range(pages) : Views!Ready(q)} <=> \E i \in places : p = pages[i]
    BY DEF Views!Range
  <2>2. \A p : p \in {q \in Views!Range(pages) : Views!Ready(q)} <=> \E n \in DOMAIN there : p = there[n]
    BY <1>6, <2>1
  <2>3. {Views!Range(there[i]) : i \in DOMAIN there} = {Views!Range(page) : page \in {p \in Views!Range(pages) : Views!Ready(p)}}
    BY <2>2
  <2> QED
    BY <2>3
<1> QED
  BY <1>8, <1>9, <1>10, <1>11 DEF content

\* A row of the board, of the first page of its catalog.
LEMMA BoardListed ==
  ASSUME ViewsInv, screen = "board",
         NEW i \in DOMAIN Views!BoardView(shown_field, Views!Ctx), NEW r \in Views!Range(shown_field.rows),
         Views!BoardView(shown_field, Views!Ctx)[i].row = r.row, Views!Ready(r.content)
  PROVE  LET ids == Views!Ids(Views!BoardView(shown_field, Views!Ctx)[i].content)
         IN /\ Views!IsInjective(ids) /\ Len(ids) <= PreviewSize
            /\ Len(ids) = PreviewSize \/ Views!Range(ids) = Views!Range(r.content)
<1> DEFINE rows == shown_field.rows
           view == Views!BoardView(shown_field, Views!Ctx)
           has(row) == Views!Installed(Views!Ctx, row.base) /\ row.list \in Lists[row.base]
           places == {k \in DOMAIN rows : has(rows[k].row)}
           on == Views!Kept(rows, places)
           T == [row : Views!Range(Rows), content : Pages \cup {Loading, Failed}]
           ids == Views!Ids(view[i].content)
           page == r.content
<1>1. rows \in Seq(T) /\ \A j, k \in DOMAIN rows : rows[j].row = rows[k].row => j = k
  BY DEF ViewsInv, BoardField
<1>2. view = [n \in DOMAIN on |->
                [row |-> on[n].row,
                 content |-> IF Views!Ready(on[n].content) THEN Views!Previews(Views!Ctx, Views!Take(Views!Unique(on[n].content), PreviewSize))
                             ELSE on[n].content]]
  BY DEF Views!BoardView
<1>3. \A n \in DOMAIN on : \E k \in DOMAIN rows : on[n] = rows[k]
  <2> HIDE DEF on, rows, T
  <2>1. places \in SUBSET DOMAIN rows
    OBVIOUS
  <2>2. \A n \in DOMAIN on : \E k \in places : on[n] = rows[k]
    BY <1>1, <2>1, KeptSeq DEF on
  <2> QED
    BY <2>2
<1> HIDE DEF view, on, rows
<1>4. i \in DOMAIN on /\ view[i].row = on[i].row
  BY <1>2 DEF view
<1>5. on[i] = r
  <2>1. PICK j \in DOMAIN rows : on[i] = rows[j]
    BY <1>3, <1>4
  <2>2. PICK k \in DOMAIN rows : r = rows[k]
    BY DEF Views!Range, rows
  <2>3. rows[j].row = rows[k].row
    BY <1>4, <2>1, <2>2 DEF view
  <2> QED
    BY <1>1, <2>1, <2>2, <2>3
<1>6. view[i].content = Views!Previews(Views!Ctx, Views!Take(Views!Unique(page), PreviewSize))
  BY <1>2, <1>4, <1>5
<1>7. page \in Pages
  <2>1. \A k \in DOMAIN rows : rows[k] \in T
    <3> HIDE DEF T
    <3> QED
      BY <1>1
  <2>2. r \in T
    BY <2>1 DEF Views!Range, rows
  <2> QED
    BY <2>2 DEF Views!Ready
<1>8. page \in Seq(Views!Range(page))
  BY <1>7, ViewsAssumption DEF Views!AnswersAssumption
<1> HIDE DEF page
<1> DEFINE V == Views!Range(page)
           once == Views!Unique(page)
           taken == Views!Take(once, PreviewSize)
<1>9. once \in Seq(V) /\ Views!IsInjective(once) /\ Views!Range(once) = V
  <2> HIDE DEF V
  <2>1. page \in Seq(V)
    BY <1>8 DEF V
  <2>2. once \in Seq(V) /\ Views!IsInjective(once) /\ Views!Range(once) = Views!Range(page)
    BY <2>1, UniqueSeq
  <2> QED
    BY <2>2 DEF V
<1> HIDE DEF V, once
<1>10. /\ taken \in Seq(V) /\ Len(taken) <= PreviewSize /\ Views!IsInjective(taken)
       /\ Len(taken) = PreviewSize \/ taken = once
  <2>1. PreviewSize \in Nat
    BY ViewsAssumption DEF Views!CollectionsAssumption
  <2> QED
    BY <1>9, <2>1, TakeIs
<1> HIDE DEF taken
<1>11. ids = taken
  BY <1>6, <1>10, PreviewsAre DEF taken, once
<1> QED
  BY <1>9, <1>10, <1>11 DEF V, page, view

\* The links of a title, those of each add-on.
LEMMA ExtensionsListed ==
  ASSUME ViewsInv, screen = "meta_details"
  PROVE  Views!IsInjective(Views!ExtensionsView(shown_field, Views!Ctx))
<1> DEFINE items == shown_field.items
           has(r) == Views!Installed(Views!Ctx, r.base) /\ Views!Ready(r.content)
           places == {i \in DOMAIN items : has(items[i])}
           there == Views!Kept(items, places)
           all == [i \in DOMAIN there |-> there[i].content.links]
           V == UNION {Views!Range(answer.links) : answer \in MetaAnswers}
           T == {items[i] : i \in DOMAIN addons}
<1>1. /\ DOMAIN items = DOMAIN addons /\ DOMAIN addons = 1 .. Len(addons) /\ Len(addons) \in Nat
      /\ items = [i \in DOMAIN items |-> items[i]]
      /\ \A i \in DOMAIN items : items[i].content \in MetaAnswers \cup {Loading, Failed}
  BY CollectionIs DEF ViewsInv, DetailsField, OfEach
<1>2. items \in Seq(T)
  <2>1. items \in [1 .. Len(addons) -> T]
    <3> HIDE DEF items
    <3> QED
      BY <1>1
  <2> HIDE DEF items, T
  <2> QED
    BY <1>1, <2>1
<1>3. \A i \in places : items[i].content \in MetaAnswers
  BY <1>1 DEF Views!Ready
<1> HIDE DEF items, T
<1>4. there \in Seq(T) /\ \A n \in DOMAIN there : \E i \in places : there[n] = items[i]
  <2>1. places \in SUBSET DOMAIN items
    OBVIOUS
  <2> HIDE DEF places
  <2> QED
    BY <1>2, <2>1, KeptSeq
<1>5. Views!ExtensionsView(shown_field, Views!Ctx) = Views!Unique(Views!Flat(all))
  BY DEF Views!ExtensionsView, items
<1> HIDE DEF there
<1>6. \A answer \in MetaAnswers : answer.links \in Seq(V)
  <2> TAKE answer \in MetaAnswers
  <2>1. answer.links \in Seq(Views!Range(answer.links))
    BY ViewsAssumption DEF Views!AnswersAssumption
  <2>2. Views!Range(answer.links) \subseteq V
    OBVIOUS
  <2> DEFINE linked == answer.links
  <2> HIDE DEF linked
  <2>3. linked \in Seq(Views!Range(linked))
    BY <2>1 DEF linked
  <2>4. DOMAIN linked = 1 .. Len(linked) /\ Len(linked) \in Nat /\ linked \in [1 .. Len(linked) -> Views!Range(linked)]
    BY <2>3
  <2>5. linked \in [1 .. Len(linked) -> V]
    <3> HIDE DEF V
    <3> QED
      BY <2>2, <2>4 DEF linked
  <2>6. linked \in Seq(V)
    <3> HIDE DEF V
    <3> QED
      BY <2>4, <2>5
  <2> QED
    BY <2>6 DEF linked
<1>7. all \in Seq(Seq(V))
  <2> HIDE DEF V
  <2>1. DOMAIN there = 1 .. Len(there) /\ Len(there) \in Nat
    BY <1>4
  <2>2. \A n \in DOMAIN there : there[n].content \in MetaAnswers
    BY <1>3, <1>4
  <2>3. all \in [1 .. Len(there) -> Seq(V)]
    BY <1>6, <2>1, <2>2
  <2> HIDE DEF all
  <2> QED
    BY <2>1, <2>3
<1> HIDE DEF V, all
<1>8. Views!Flat(all) \in Seq(V)
  BY <1>7, FlatIs
<1>9. Views!IsInjective(Views!Unique(Views!Flat(all)))
  BY <1>8, UniqueSeq
<1> QED
  BY <1>5, <1>9

\* Subtitles of the player: those of an add-on are numbered, and it is asked once.
LEMMA SubtitlesListed ==
  ASSUME ViewsInv, screen = "player"
  PROVE  Views!IsInjective(Views!SubtitlesView(shown_field, Views!Ctx))
<1> DEFINE subs == shown_field.subtitles
           has(r) == Views!Installed(Views!Ctx, r.base) /\ Views!Ready(r.content)
           places == {i \in DOMAIN subs : has(subs[i])}
           there == Views!Kept(subs, places)
           row(n) == [k \in 1 .. there[n].content |-> <<there[n].base, k>>]
           all == [n \in DOMAIN there |-> row(n)]
           V == Views!Bases \X Nat
           T == [base : Views!Bases, content : {Loading, Failed, 2}]
<1>1. /\ subs \in Seq(T)
      /\ \A i, j \in DOMAIN subs : subs[i].base = subs[j].base => i = j
  BY DEF ViewsInv, PlayerField
<1> HIDE DEF subs
<1>2. \A i \in places : subs[i] \in T /\ subs[i].content = 2 /\ subs[i].base \in Views!Bases
  <2>1. \A i \in DOMAIN subs : subs[i] \in T
    <3> HIDE DEF T
    <3> QED
      BY <1>1
  <2> QED
    BY <2>1 DEF Views!Ready
<1>3. /\ there \in Seq(T)
      /\ \A n \in DOMAIN there : \E i \in places : there[n] = subs[i]
      /\ \A m, n \in DOMAIN there : there[m] = there[n] /\ m # n =>
           \E i, j \in places : i < j /\ subs[i] = subs[j]
  <2>1. places \in SUBSET DOMAIN subs
    OBVIOUS
  <2> HIDE DEF places, T
  <2> QED
    BY <1>1, <2>1, KeptSeq
<1>4. Views!SubtitlesView(shown_field, Views!Ctx) = Views!Flat(all)
  BY DEF Views!SubtitlesView, subs
<1> HIDE DEF there
<1>5. DOMAIN there = 1 .. Len(there) /\ Len(there) \in Nat
  <2> HIDE DEF T
  <2> QED
    BY <1>3
<1>6. \A n \in DOMAIN there : there[n].content = 2 /\ there[n].base \in Views!Bases
  BY <1>2, <1>3
<1>7. \A m, n \in DOMAIN there : there[m].base = there[n].base => m = n
  <2> SUFFICES ASSUME NEW m \in DOMAIN there, NEW n \in DOMAIN there, there[m].base = there[n].base, m # n
               PROVE  FALSE
    OBVIOUS
  <2>1. PICK i \in places : there[m] = subs[i]
    BY <1>3
  <2>2. PICK j \in places : there[n] = subs[j]
    BY <1>3
  <2>3. i = j
    BY <1>1, <2>1, <2>2
  <2>4. there[m] = there[n]
    BY <2>1, <2>2, <2>3
  <2>5. PICK k \in places : \E l \in places : k < l /\ subs[k] = subs[l]
    BY <1>3, <2>4
  <2>6. PICK l \in places : k < l /\ subs[k] = subs[l]
    BY <2>5
  <2>7. k = l
    BY <1>1, <2>6
  <2>8. k \in Nat
    <3>1. DOMAIN subs \subseteq Nat
      <4> HIDE DEF T
      <4> QED
        BY <1>1
    <3> QED
      BY <3>1
  <2> QED
    BY <2>6, <2>7, <2>8
<1>8. \A n \in DOMAIN there :
        /\ DOMAIN all[n] = 1 .. 2 /\ all[n] \in Seq(V)
        /\ \A k \in DOMAIN all[n] : all[n][k] = <<there[n].base, k>>
  <2> TAKE n \in DOMAIN there
  <2>1. all[n] = [k \in 1 .. 2 |-> <<there[n].base, k>>]
    BY <1>6
  <2> HIDE DEF all
  <2>2. all[n] \in [1 .. 2 -> V]
    BY <1>6, <2>1
  <2>3. all[n] \in Seq(V)
    <3> DEFINE numbered == all[n]
    <3> HIDE DEF V, numbered
    <3>1. numbered \in [1 .. 2 -> V]
      BY <2>2 DEF numbered
    <3>2. \A N \in Nat : numbered \in [1 .. N -> V] => numbered \in Seq(V)
      OBVIOUS
    <3>3. numbered \in Seq(V)
      BY <3>1, <3>2
    <3> QED
      BY <3>3 DEF numbered
  <2> QED
    BY <2>1, <2>3
<1>9. all \in Seq(Seq(V)) /\ DOMAIN all = DOMAIN there
  <2>1. DOMAIN all = DOMAIN there /\ all = [n \in DOMAIN all |-> all[n]]
    OBVIOUS
  <2> HIDE DEF all, V
  <2>2. all \in [1 .. Len(there) -> Seq(V)]
    BY <1>5, <1>8, <2>1
  <2> QED
    BY <1>5, <2>1, <2>2
<1> HIDE DEF all, V
<1> DEFINE flat == Views!Flat(all)
<1>10. \A m, n \in DOMAIN flat : m # n /\ flat[m] = flat[n] =>
         \E i, j \in DOMAIN all : \E k \in DOMAIN all[i], l \in DOMAIN all[j] :
           <<i, k>> # <<j, l>> /\ flat[m] = all[i][k] /\ flat[n] = all[j][l]
  BY <1>9, FlatIs
<1> HIDE DEF flat
<1>11. \A m, n \in DOMAIN flat : flat[m] = flat[n] => m = n
  <2> SUFFICES ASSUME NEW m \in DOMAIN flat, NEW n \in DOMAIN flat, flat[m] = flat[n], m # n
               PROVE  FALSE
    OBVIOUS
  <2>1. PICK i \in DOMAIN all : \E j \in DOMAIN all : \E k \in DOMAIN all[i], l \in DOMAIN all[j] :
           <<i, k>> # <<j, l>> /\ flat[m] = all[i][k] /\ flat[n] = all[j][l]
    BY <1>10
  <2>2. PICK j \in DOMAIN all : \E k \in DOMAIN all[i], l \in DOMAIN all[j] :
           <<i, k>> # <<j, l>> /\ flat[m] = all[i][k] /\ flat[n] = all[j][l]
    BY <2>1
  <2>3. PICK k \in DOMAIN all[i], l \in DOMAIN all[j] :
           <<i, k>> # <<j, l>> /\ flat[m] = all[i][k] /\ flat[n] = all[j][l]
    BY <2>2
  <2>4. <<there[i].base, k>> = <<there[j].base, l>>
    BY <1>8, <1>9, <2>3
  <2>5. i = j /\ k = l
    BY <1>7, <1>9, <2>4
  <2> QED
    BY <2>3, <2>5
<1> QED
  BY <1>4, <1>11 DEF Views!IsInjective, flat

LEMMA ViewsShow ==
  ASSUME ViewsInv
  PROVE  Views!ViewsAreTold /\ Views!AnswerIsShown /\ Views!ListedOnce
<1>1. screen = "discover" =>
        LET content == Views!DiscoverView(shown_field, Views!Ctx).content IN
        Views!Ready(content) =>
          /\ Views!IsInjective(Views!Ids(content))
          /\ Views!Range(Views!Ids(content)) = UNION {Views!Range(page) : page \in {p \in Views!Range(shown_field.pages) : Views!Ready(p)}}
  BY DiscoverListed
<1>2. screen = "board" =>
        LET rows == Views!BoardView(shown_field, Views!Ctx) IN
        \A i \in DOMAIN rows, r \in Views!Range(shown_field.rows) :
          rows[i].row = r.row /\ Views!Ready(r.content) =>
            LET ids == Views!Ids(rows[i].content) IN
            /\ Views!IsInjective(ids) /\ Len(ids) <= PreviewSize
            /\ Len(ids) = PreviewSize \/ Views!Range(ids) = Views!Range(r.content)
  BY BoardListed
<1>3. Views!ListedOnce
  BY <1>1, <1>2, ExtensionsListed, SubtitlesListed DEF Views!ListedOnce
<1> QED
  BY <1>3, ViewsTypes, AnswerShown

(* Links *)

\* A stream as add-ons have it is told from its keys for what it is.
LEMMA SourceIsKept ==
  ASSUME NEW s \in Links!Source
  PROVE  Links!Decode(Links!Encode(s)) = s
<1> DEFINE json == Links!Encode(s)
           there == {i \in DOMAIN Links!Kinds : Links!KeyOf[Links!Kinds[i]] \in DOMAIN json.keys}
<1>1. s = [kind |-> s.kind, url |-> s.url, proxy |-> s.proxy] /\ s.kind \in Links!ToSet(Links!Kinds)
  BY DEF Links!Source
<1>2. "played" \notin DOMAIN s
  BY <1>1
<1>3. json.keys = [k \in {Links!KeyOf[s.kind]} |-> s.url] /\ json.proxy = s.proxy
  BY <1>2 DEF Links!Encode
<1>4. PICK n \in DOMAIN Links!Kinds : Links!Kinds[n] = s.kind
  BY <1>1 DEF Links!ToSet
<1>5. \A i, j \in DOMAIN Links!Kinds : Links!KeyOf[Links!Kinds[i]] = Links!KeyOf[Links!Kinds[j]] => i = j
  BY DEF Links!Kinds, Links!KeyOf
<1>6. there = {n}
  BY <1>3, <1>4, <1>5
<1>7. (CHOOSE i \in there : \A j \in there : i <= j) = n
  BY <1>6 DEF Links!Kinds
<1> QED
  BY <1>1, <1>3, <1>4, <1>7 DEF Links!Decode

\* One that is converted has its url, which comes first.
LEMMA ServedIsUrl ==
  ASSUME NEW s \in Links!Served
  PROVE  Links!Decode(Links!Encode(s)) = [kind |-> "url", url |-> s.played, proxy |-> s.proxy]
<1> DEFINE json == Links!Encode(s)
           there == {i \in DOMAIN Links!Kinds : Links!KeyOf[Links!Kinds[i]] \in DOMAIN json.keys}
<1>1. "played" \in DOMAIN s /\ s.kind \in {"youtube", "torrent"}
  BY DEF Links!Served
<1>2. DOMAIN json.keys = {Links!KeyOf[s.kind], "url"} /\ json.keys["url"] = s.played /\ json.proxy = s.proxy
  BY <1>1 DEF Links!Encode, Links!KeyOf
<1>3. 1 \in there /\ there \subseteq 1 .. 11 /\ Links!Kinds[1] = "url" /\ Links!KeyOf["url"] = "url"
  BY <1>2 DEF Links!Kinds, Links!KeyOf
<1>4. \A i \in there : 1 <= i /\ (i <= 1 => i = 1)
  BY <1>3
<1>5. (CHOOSE i \in there : \A j \in there : i <= j) = 1
  <2> HIDE DEF there
  <2> QED
    BY <1>3, <1>4
<1> QED
  BY <1>2, <1>3, <1>5 DEF Links!Decode

\* What goes through a service is a url that a server is asked for.
LEMMA ViaIsUrl ==
  ASSUME NEW server \in Servers, NEW service \in Links!Services, NEW url \in Links!Url
  PROVE  Links!Via(server, service, url) \in Links!Url /\ Links!Scheme(Links!Via(server, service, url)) = "http"
<1>1. url = [scheme |-> url.scheme, hops |-> url.hops] /\ url.hops \in Seq(Servers \X Links!Services)
  BY DEF Links!Url
<1>2. Append(url.hops, <<server, service>>) \in Seq(Servers \X Links!Services)
  BY <1>1
<1>3. Append(url.hops, <<server, service>>) # <<>>
  BY <1>1, AppendProperties
<1>4. Links!Via(server, service, url) = [scheme |-> url.scheme, hops |-> Append(url.hops, <<server, service>>)]
  BY <1>1 DEF Links!Via
<1> QED
  BY <1>1, <1>2, <1>3, <1>4 DEF Links!Scheme, Links!Url

LEMMA FtpIsUrl ==
  ASSUME NEW server \in Links!Option(Servers), NEW url \in Links!Url
  PROVE  \/ Links!FtpUrl(server, url) = url /\ Links!Scheme(url) # "ftp"
         \/ Links!FtpUrl(server, url) = Failed /\ server = None /\ Links!Scheme(url) = "ftp"
         \/ /\ server # None /\ Links!FtpUrl(server, url) \in Links!Url /\ Links!Scheme(Links!FtpUrl(server, url)) = "http"
BY ViaIsUrl, LinksAssumption DEF Links!FtpUrl, Links!Option, Links!Services, Links!MarksAssumption

\* What a stream is converted to: an error, itself, a url that is neither of FTP nor a
\* magnet link, or what the server plays.
Settled(url) == url \in Links!Url /\ Links!Scheme(url) \notin {"ftp", "magnet"}
Itself(s) == s.kind \in {"frame", "external"} \/ (s.kind = "url" /\ Links!Scheme(s.url) = "magnet")

LEMMA UrlHasIt ==
  ASSUME NEW s \in Links!Source, s.kind \notin Links!Archives \cup {"external"}
  PROVE  s.url \in Links!Url
BY DEF Links!Source, Links!Option

LEMMA ConvertedIs ==
  ASSUME NEW s \in Links!Source, NEW server \in Links!Option(Servers)
  PROVE  LET c == Links!Convert(s, server) IN
         \/ c = Failed
         \/ c = s /\ Itself(s)
         \/ c \in Links!Source /\ c.kind = "url" /\ Settled(c.url)
         \/ server # None /\ c \in Links!Served /\ Links!Scheme(c.played) = "http"
<1> DEFINE c == Links!Convert(s, server)
<1>1. s = [kind |-> s.kind, url |-> s.url, proxy |-> s.proxy] /\ s.kind \in Links!ToSet(Links!Kinds)
      /\ s.url \in Links!Option(Links!Url) /\ s.proxy \in BOOLEAN
  BY DEF Links!Source
<1>2. Links!ToSet(Links!Kinds) = Links!Archives \cup {"nzb", "url", "youtube", "torrent", "frame", "external"}
  BY DEF Links!ToSet, Links!Kinds, Links!Archives
<1>3. ASSUME NEW url \in Links!Url, NEW proxy \in BOOLEAN PROVE [kind |-> "url", url |-> url, proxy |-> proxy] \in Links!Source
  BY <1>2, <1>3, LinksAssumption DEF Links!Source, Links!Option, Links!MarksAssumption
<1>4. CASE s.kind \in Links!Archives \cup {"nzb"}
  <2>1. c = Links!ConvertPacked(s, server)
    BY <1>4 DEF Links!Convert, Links!Archives
  <2>2. CASE server = None \/ s.url = None
    BY <2>1, <2>2 DEF Links!ConvertPacked
  <2>3. CASE server # None /\ s.url # None
    <3>1. server \in Servers /\ s.url \in Links!Url /\ s.kind \in Links!Services
      BY <1>1, <1>4, <2>3 DEF Links!Option, Links!Services
    <3>2. Links!FtpUrl(server, s.url) \in Links!Url
      BY <3>1, <2>3, FtpIsUrl
    <3>3. c = [kind |-> "url", url |-> Links!Via(server, s.kind, Links!FtpUrl(server, s.url)), proxy |-> s.proxy]
      BY <2>1, <2>3 DEF Links!ConvertPacked
    <3> QED
      BY <1>1, <1>3, <3>1, <3>2, <3>3, ViaIsUrl DEF Settled
  <2> QED
    BY <2>2, <2>3
<1>5. CASE s.kind = "url"
  <2>1. s.url \in Links!Url /\ s.kind \notin Links!Archives \cup {"nzb"}
    BY <1>5, UrlHasIt DEF Links!Archives
  <2>2. CASE Links!Scheme(s.url) = "magnet"
    BY <1>5, <2>1, <2>2 DEF Links!Convert, Itself
  <2>3. CASE Links!Scheme(s.url) # "magnet"
    <3> DEFINE url == Links!FtpUrl(server, s.url)
    <3>1. c = Links!ConvertUrl(s, server)
      BY <1>5, <2>1, <2>3 DEF Links!Convert
    <3>2. CASE url = Failed
      BY <3>1, <3>2 DEF Links!ConvertUrl
    <3>3. CASE url # Failed
      <4>1. Settled(url)
        BY <2>1, <2>3, <3>3, FtpIsUrl DEF Settled
      <4>2. server # None => Settled(Links!Via(server, "proxy", url))
        BY <4>1, ViaIsUrl DEF Settled, Links!Option, Links!Services
      <4>3. c = [kind |-> "url", url |-> IF s.proxy /\ server # None THEN Links!Via(server, "proxy", url) ELSE url,
                 proxy |-> s.proxy]
        BY <3>1, <3>3 DEF Links!ConvertUrl
      <4> QED
        BY <1>1, <1>3, <4>1, <4>2, <4>3 DEF Settled
    <3> QED
      BY <3>2, <3>3
  <2> QED
    BY <2>2, <2>3
<1>6. CASE s.kind \in {"youtube", "torrent"}
  <2>1. s.url \in Links!Url /\ s.kind \in Links!Services
    BY <1>6, UrlHasIt DEF Links!Archives, Links!Services
  <2>2. c = Links!ConvertServed(s, server)
    BY <1>6 DEF Links!Convert, Links!Archives
  <2>3. server # None => server \in Servers
    BY DEF Links!Option
  <2> QED
    BY <1>1, <1>6, <2>1, <2>2, <2>3, ViaIsUrl DEF Links!ConvertServed, Links!Served
<1>7. CASE s.kind \in {"frame", "external"}
  BY <1>7 DEF Links!Convert, Links!Archives, Itself
<1> QED
  BY <1>1, <1>2, <1>4, <1>5, <1>6, <1>7

\* A url that is settled stays, unless headers go with it.
LEMMA SettledStays ==
  ASSUME NEW s \in Links!Source, s.kind = "url", Settled(s.url), ~s.proxy, NEW server \in Links!Option(Servers)
  PROVE  Links!Convert(s, server) = s /\ Links!Convert(s, server) # Failed
<1>1. s = [kind |-> s.kind, url |-> s.url, proxy |-> s.proxy] /\ s.proxy \in BOOLEAN
  BY DEF Links!Source
<1>2. Failed \notin Links!Source /\ Failed \notin Links!Url
  BY LinksAssumption DEF Links!MarksAssumption
<1>3. Links!FtpUrl(server, s.url) = s.url
  BY DEF Links!FtpUrl, Settled
<1>4. Links!ConvertUrl(s, server) = s
  BY <1>1, <1>2, <1>3 DEF Links!ConvertUrl, Settled
<1> QED
  BY <1>2, <1>4 DEF Links!Convert, Links!Archives, Settled

\* What was converted plays the same when it is converted again, unless headers go with it.
LEMMA AgainIsTheSame ==
  ASSUME NEW s \in Links!Source, NEW server \in Servers, NEW other \in Servers,
         NEW c, c = Links!Convert(s, server), c # Failed, ~c.proxy
  PROVE  LET again == Links!Convert(Links!Decode(Links!Encode(c)), other) IN
         again # Failed /\ Links!StreamingUrl(again) = Links!StreamingUrl(c)
<1>1. server \in Links!Option(Servers) /\ other \in Links!Option(Servers) /\ Failed \notin Links!Source
  BY LinksAssumption DEF Links!Option, Links!MarksAssumption
<1>2. CASE c = s /\ Itself(s)
  <2>1. Links!Decode(Links!Encode(c)) = c
    BY <1>2, SourceIsKept
  <2>2. Links!Convert(c, other) = c
    BY <1>2 DEF Links!Convert, Itself, Links!Archives
  <2> QED
    BY <1>1, <1>2, <2>1, <2>2
<1>3. CASE c \in Links!Source /\ c.kind = "url" /\ Settled(c.url)
  <2>1. Links!Decode(Links!Encode(c)) = c
    BY <1>3, SourceIsKept
  <2>2. Links!Convert(c, other) = c
    BY <1>1, <1>3, SettledStays
  <2> QED
    BY <1>1, <1>3, <2>1, <2>2
<1>4. CASE c \in Links!Served /\ Links!Scheme(c.played) = "http"
  <2> DEFINE d == [kind |-> "url", url |-> c.played, proxy |-> c.proxy]
  <2>1. Links!Decode(Links!Encode(c)) = d
    BY <1>4, ServedIsUrl
  <2>2. c.played \in Links!Url /\ c.proxy \in BOOLEAN /\ c.kind \in {"youtube", "torrent"}
    BY <1>4 DEF Links!Served
  <2>3. d \in Links!Source
    <3>1. "url" \in Links!ToSet(Links!Kinds) /\ None \notin Links!Url
      BY LinksAssumption DEF Links!ToSet, Links!Kinds, Links!MarksAssumption
    <3> QED
      BY <2>2, <3>1 DEF Links!Source, Links!Option
  <2>4. Settled(d.url)
    BY <1>4, <2>2 DEF Settled
  <2>5. Links!Convert(d, other) = d
    BY <1>1, <2>3, <2>4, SettledStays
  <2>6. Links!StreamingUrl(d) = c.played /\ Links!StreamingUrl(c) = c.played
    BY <2>2, <2>4 DEF Links!StreamingUrl, Settled
  <2> QED
    BY <1>1, <2>1, <2>3, <2>5, <2>6
<1> QED
  BY <1>1, <1>2, <1>3, <1>4, ConvertedIs

(* Links: the invariant *)

\* What the player makes of a stream.
Played(s, server) ==
  LET c == Links!Convert(s, server) IN IF c = Failed THEN Failed ELSE [source |-> c, urls |-> Links!UrlsOf(c, server)]

\* A link that is shown for a stream, as add-ons have it.
ShownInv ==
  /\ links.what = None => links.player = None
  /\ links.what # None => links.what \in Links!FromAddon /\ links.player = Links!Encode(links.what)

\* One that is shown for what the player plays.
AgainInv ==
  \E s \in Links!Source, server \in Servers :
    /\ links.what = Links!Convert(s, server) /\ links.what # Failed
    /\ links.player = Links!Encode(links.what) /\ links.external.streaming = Links!StreamingUrl(links.what)

LinksInv ==
  /\ streaming_server_url \in Servers /\ base_url \in Links!Option(Servers)
  /\ opened # None => opened \in Links!Source /\ \E server \in Servers : opened_stream = Played(opened, server)
  /\ opened = None => opened_stream = None
  /\ links # None => IF links.of = "played" THEN AgainInv ELSE ShownInv
  /\ Links!OfflineLinksWork /\ Links!TitleLeadsSomewhere

LEMMA MagnetIsUrl ==
  ASSUME NEW url \in Links!Url
  PROVE  [url EXCEPT !.scheme = "magnet"] \in Links!Url
<1>1. url = [scheme |-> url.scheme, hops |-> url.hops] /\ url.hops \in Seq(Servers \X Links!Services)
  BY DEF Links!Url
<1>2. [url EXCEPT !.scheme = "magnet"] = [scheme |-> "magnet", hops |-> url.hops]
  BY <1>1
<1> QED
  BY <1>1, <1>2 DEF Links!Url, Links!Schemes

LEMMA PlayedIsSome ==
  ASSUME NEW s \in Links!Source, NEW server \in Servers
  PROVE  Played(s, server) # None /\ (Links!Convert(s, server) # Failed => Played(s, server) # Failed)
<1> DEFINE c == Links!Convert(s, server)
<1>1. Failed # None
  BY LinksAssumption DEF Links!MarksAssumption
<1>2. server \in Links!Option(Servers) /\ server # None
  BY LinksAssumption DEF Links!Option, Links!MarksAssumption
<1>3. ASSUME c # Failed PROVE c \in Links!Source \cup Links!Served /\ Links!UrlsOf(c, server) \in Links!Urls
  <2>1. (c \in Links!Source /\ c.kind \in {"url", "frame", "external"}) \/ c \in Links!Served
    BY <1>2, <1>3, ConvertedIs DEF Itself
  <2>2. CASE c \in Links!Source /\ c.kind \in {"url", "frame", "external"}
    <3>1. c.url \in Links!Option(Links!Url) /\ (c.kind = "url" => c.url \in Links!Url)
      BY <2>2 DEF Links!Source, Links!Option, Links!Archives
    <3>2. Links!StreamingUrl(c) \in Links!Option(Links!Url)
      BY <2>2, <3>1 DEF Links!StreamingUrl, Links!Option
    <3>3. Links!DownloadUrl(c, server) \in Links!Option(Links!Url)
      BY <2>2, <3>1 DEF Links!DownloadUrl, Links!Option
    <3>4. Links!MagnetUrl(c) \in Links!Option(Links!Url)
      BY <2>2, <3>1, MagnetIsUrl DEF Links!MagnetUrl, Links!Option
    <3> QED
      BY <2>2, <3>2, <3>3, <3>4 DEF Links!UrlsOf, Links!Urls
  <2>3. CASE c \in Links!Served
    <3>1. c.url \in Links!Url /\ c.played \in Links!Url /\ c.kind \in {"youtube", "torrent"}
      BY <2>3 DEF Links!Served
    <3>2. Links!StreamingUrl(c) \in Links!Option(Links!Url)
      BY <3>1 DEF Links!StreamingUrl, Links!Option
    <3>3. Links!DownloadUrl(c, server) \in Links!Option(Links!Url)
      BY <3>1 DEF Links!DownloadUrl, Links!Option
    <3>4. Links!MagnetUrl(c) \in Links!Option(Links!Url)
      BY <3>1, MagnetIsUrl DEF Links!MagnetUrl, Links!Option
    <3> QED
      BY <2>3, <3>2, <3>3, <3>4 DEF Links!UrlsOf, Links!Urls
  <2> QED
    BY <2>1, <2>2, <2>3
<1>4. ASSUME c # Failed
      PROVE  [source |-> c, urls |-> Links!UrlsOf(c, server)] \in [source : Links!Source \cup Links!Served, urls : Links!Urls]
  BY <1>3, <1>4
<1> QED
  BY <1>1, <1>4, LinksAssumption DEF Played, Links!MarksAssumption

LEMMA LinksBegin == Links!Init => LinksInv
BY DEF Links!Init, LinksInv, Links!OfflineLinksWork, Links!TitleLeadsSomewhere, Links!Shown, Links!Option

\* Without a server, nobody is sent to one; and a stream that has nothing needs one.
LEMMA OfflineIsFair ==
  ASSUME NEW s \in Links!FromAddon, NEW type, Links!ServerOfLinks = None
  PROVE  LET external == Links!ExternalPlayerLink(s, type)
             urls == {external.streaming, external.download, external.web} \ {None}
         IN /\ \A url \in urls : url.hops = <<>>
            /\ urls = {} => Links!NeedsServer(s) \/ s.url = None
<1> DEFINE external == Links!ExternalPlayerLink(s, type)
           urls == {external.streaming, external.download, external.web} \ {None}
           c == Links!Convert(s, None)
<1>0. s \in Links!Source /\ (s.url # None => s.url.hops = <<>>)
  BY DEF Links!FromAddon
<1>1. s.kind \in Links!Archives \cup {"nzb", "url", "youtube", "torrent", "frame", "external"}
  BY <1>0 DEF Links!Source, Links!ToSet, Links!Kinds, Links!Archives
<1>2. s.url # None => s.url.hops = <<>> /\ s.url \in Links!Url
  BY <1>0 DEF Links!Source, Links!Option
<1>3. CASE Links!NeedsServer(s)
  <2>1. c = Failed
    <3>1. CASE s.kind \in Links!Archives \cup {"nzb"}
      BY <3>1 DEF Links!Convert, Links!ConvertPacked, Links!Archives
    <3>2. CASE s.kind \in {"torrent", "youtube"}
      BY <3>2 DEF Links!Convert, Links!ConvertServed, Links!Archives
    <3>3. CASE s.kind = "url" /\ s.url.scheme = "ftp"
      <4>1. s.url \in Links!Url /\ s.url.hops = <<>>
        BY <1>0, <1>2, <3>3, UrlHasIt, LinksAssumption DEF Links!Archives, Links!MarksAssumption
      <4>2. Links!Scheme(s.url) = "ftp"
        BY <3>3, <4>1 DEF Links!Scheme
      <4> QED
        BY <3>3, <4>2 DEF Links!Convert, Links!ConvertUrl, Links!FtpUrl, Links!Archives
    <3> QED
      BY <1>3, <3>1, <3>2, <3>3 DEF Links!NeedsServer
  <2>2. external = Links!NoPlayerLink(None)
    BY <2>1 DEF Links!ExternalPlayerLink
  <2>3. urls = {}
    BY <2>2 DEF Links!NoPlayerLink
  <2> QED
    BY <1>3, <2>3
<1>4. CASE ~Links!NeedsServer(s)
  <2>1. s.kind \in {"url", "frame", "external"}
    BY <1>1, <1>4 DEF Links!NeedsServer
  <2>2. c = s
    <3>1. CASE s.kind = "url"
      <4>1. s.url \in Links!Url /\ s.url.scheme # "ftp" /\ Links!Scheme(s.url) # "ftp"
        BY <1>0, <1>2, <1>4, <3>1, UrlHasIt DEF Links!Archives, Links!NeedsServer, Links!Scheme
      <4>2. s = [kind |-> "url", proxy |-> s.proxy, url |-> s.url] /\ s.url # Failed
        BY <1>0, <3>1, <4>1, LinksAssumption DEF Links!Source, Links!MarksAssumption
      <4> QED
        BY <3>1, <4>1, <4>2 DEF Links!Convert, Links!ConvertUrl, Links!FtpUrl, Links!Archives
    <3>2. CASE s.kind \in {"frame", "external"}
      BY <3>2 DEF Links!Convert, Links!Archives
    <3> QED
      BY <2>1, <3>1, <3>2
  <2>3. c # Failed
    BY <1>0, <2>2, LinksAssumption DEF Links!MarksAssumption
  <2>4. external = Links!ConvertedPlayerLink(s, None, type)
    BY <2>2, <2>3 DEF Links!ExternalPlayerLink
  <2>5. /\ external.streaming = Links!StreamingUrl(s) /\ external.download = Links!DownloadUrl(s, None)
        /\ external.web \in {s.url, None}
    BY <2>4 DEF Links!ConvertedPlayerLink, Links!UrlsOf
  <2>6. Links!StreamingUrl(s) \in {s.url, None} /\ Links!DownloadUrl(s, None) = s.url
    BY <2>1 DEF Links!StreamingUrl, Links!DownloadUrl
  <2>7. urls = {s.url} \ {None}
    BY <2>5, <2>6
  <2> QED
    BY <1>2, <2>7
<1> QED
  BY <1>3, <1>4

LEMMA ExternalIs ==
  ASSUME NEW s, NEW type
  PROVE  Links!ExternalPlayerLink(s, type).server = Links!ServerOfLinks
BY DEF Links!ExternalPlayerLink, Links!NoPlayerLink, Links!ConvertedPlayerLink

\* The streams that links are shown for are of add-ons.
LEMMA YoutubeStream ==
  ASSUME NEW v
  PROVE  Links!Youtube(v) \in Links!FromAddon
<1>1. Links!Origin("youtube") \in Links!Url /\ Links!Origin("youtube").hops = <<>>
  BY DEF Links!Origin, Links!Url, Links!Schemes
<1>2. "youtube" \in Links!ToSet(Links!Kinds)
  BY DEF Links!ToSet, Links!Kinds
<1> QED
  BY <1>1, <1>2, LinksAssumption DEF Links!Youtube, Links!FromAddon, Links!Source, Links!Option, Links!MarksAssumption

LEMMA VideosStream ==
  ASSUME NEW v \in Playable
  PROVE  Links!VideoStream(v) \in Links!Option(Links!FromAddon)
<1>1. v.streams \in Seq(Links!FromAddon)
  BY LinksAssumption DEF Links!StreamsAssumption
<1>2. CASE Len(v.streams) = 1
  BY <1>1, <1>2 DEF Links!VideoStream, Links!Option
<1> QED
  BY <1>2, YoutubeStream DEF Links!VideoStream, Links!Option

\* A link is shown of a stream with the server there is.
LEMMA ShownFor ==
  ASSUME NEW s \in Links!Option(Links!FromAddon), NEW type, links' # None, links'.of # "played", links'.what = s,
         links'.player = (IF s = None THEN None ELSE Links!Encode(s)), UNCHANGED base_url,
         UNCHANGED streaming_server_url,
         links'.external \in {None, IF s = None THEN None ELSE Links!ExternalPlayerLink(s, type)}
  PROVE  Links!OfflineLinksWork' /\ ShownInv'
<1>1. ShownInv'
  BY DEF ShownInv, Links!Option
<1>2. ASSUME s # None, links'.external # None, links'.external.server = None
      PROVE  LET urls == {links'.external.streaming, links'.external.download, links'.external.web} \ {None}
             IN /\ \A url \in urls : url.hops = <<>>
                /\ urls = {} => Links!NeedsServer(s) \/ s.url = None
  <2>1. links'.external = Links!ExternalPlayerLink(s, type) /\ Links!ServerOfLinks = None
    BY <1>2, ExternalIs
  <2> QED
    BY <1>2, <2>1, OfflineIsFair DEF Links!Option
<1> QED
  BY <1>1, <1>2 DEF Links!OfflineLinksWork, Links!Shown

LEMMA OptionsShown ==
  ASSUME NEW title \in Openable
  PROVE  /\ title.default # None => title.default \in Playable /\ title.default.id # None
         /\ title.video # None => title.video \in Playable /\ title.video.id # None
BY LinksAssumption DEF Links!StreamsAssumption, Links!Option

LEMMA LinksShow ==
  ASSUME LinksInv, Links!ShowStream \/ Links!ShowVideo \/ Links!ShowTitle \/ Links!ShowItem
  PROVE  LinksInv'
<1>0. /\ UNCHANGED <<streaming_server_url, base_url, opened, opened_stream>>
  BY DEF Links!ShowStream, Links!ShowVideo, Links!ShowTitle, Links!ShowItem, Links!Show
<1>1. SUFFICES links' # None => links'.of # "played" /\ ShownInv' /\ Links!OfflineLinksWork' /\ Links!TitleLeadsSomewhere'
  BY <1>0 DEF LinksInv, Links!OfflineLinksWork, Links!TitleLeadsSomewhere, Links!Shown
<1>2. SUFFICES ASSUME links' # None
               PROVE  links'.of # "played" /\ ShownInv' /\ Links!OfflineLinksWork' /\ Links!TitleLeadsSomewhere'
  OBVIOUS
<1>3. CASE Links!ShowStream
  <2>1. PICK s \in Sources, type \in ExternalPlayers : links' = Links!StreamLinks(s, type)
    BY <1>3 DEF Links!ShowStream, Links!Show
  <2>2. s \in Links!FromAddon /\ s \in Links!Option(Links!FromAddon) /\ s # None
    BY LinksAssumption DEF Links!StreamsAssumption, Links!MarksAssumption, Links!FromAddon, Links!Option
  <2>3. /\ links'.of = "stream" /\ links'.what = s /\ links'.player = Links!Encode(s)
        /\ links'.external = Links!ExternalPlayerLink(s, type)
    BY <2>1 DEF Links!StreamLinks
  <2>4. Links!OfflineLinksWork' /\ ShownInv'
    BY <1>0, <1>2, <2>2, <2>3, ShownFor
  <2> QED
    BY <2>3, <2>4 DEF Links!TitleLeadsSomewhere
<1>4. CASE Links!ShowVideo
  <2>1. PICK v \in Playable, type \in ExternalPlayers : links' = Links!VideoLinks(v, type)
    BY <1>4 DEF Links!ShowVideo, Links!Show
  <2> DEFINE s == Links!VideoStream(v)
  <2>2. s \in Links!Option(Links!FromAddon)
    BY VideosStream
  <2>3. /\ links'.of = "video" /\ links'.what = s /\ links'.player = (IF s = None THEN None ELSE Links!Encode(s))
        /\ links'.external = (IF s = None THEN None ELSE Links!ExternalPlayerLink(s, type))
    BY <2>1 DEF Links!VideoLinks
  <2>4. Links!OfflineLinksWork' /\ ShownInv'
    BY <1>0, <1>2, <2>2, <2>3, ShownFor
  <2> QED
    BY <2>3, <2>4 DEF Links!TitleLeadsSomewhere
<1>5. CASE Links!ShowTitle
  <2>1. PICK title \in Openable : links' = Links!MetaItemLinks(title)
    BY <1>5 DEF Links!ShowTitle, Links!Show
  <2> DEFINE v == title.default
             s == IF v # None /\ v.youtube THEN Links!Youtube(v) ELSE None
  <2>2. s \in Links!Option(Links!FromAddon)
    BY YoutubeStream DEF Links!Option
  <2>3. /\ links'.of = "title" /\ links'.what = s /\ links'.player = (IF s = None THEN None ELSE Links!Encode(s))
        /\ links'.external = None /\ links'.page = Links!PageOf(title)
        /\ links'.streams = (IF v = None THEN None ELSE v.id)
    BY <2>1 DEF Links!MetaItemLinks
  <2>4. Links!OfflineLinksWork' /\ ShownInv'
    BY <1>0, <1>2, <2>2, <2>3, ShownFor
  <2>5. links'.page # None \/ links'.streams # None
    BY <2>3, OptionsShown, LinksAssumption DEF Links!PageOf, Links!MarksAssumption
  <2> QED
    BY <2>3, <2>4, <2>5 DEF Links!TitleLeadsSomewhere
<1>6. CASE Links!ShowItem
  <2>1. PICK title \in Openable, type \in ExternalPlayers, last \in Sources \cup {None} :
          (title.video = None => last = None) /\ links' = Links!LibraryItemLinks(title, last, type)
    BY <1>6 DEF Links!ShowItem, Links!Show
  <2>2. last \in Links!Option(Links!FromAddon)
    BY LinksAssumption DEF Links!StreamsAssumption, Links!Option
  <2>3. /\ links'.of = "item" /\ links'.what = last /\ links'.player = (IF last = None THEN None ELSE Links!Encode(last))
        /\ links'.external = (IF last = None THEN None ELSE Links!ExternalPlayerLink(last, type))
        /\ links'.page = Links!PageOf(title) /\ links'.watching = title.watching
        /\ links'.streams = (IF title.watching /\ title.video # None THEN title.video.id
                              ELSE IF title.default = None THEN None ELSE title.default.id)
        /\ links'.video = (IF last = None THEN None ELSE title.video.id)
    BY <2>1 DEF Links!LibraryItemLinks
  <2>4. Links!OfflineLinksWork' /\ ShownInv'
    BY <1>0, <1>2, <2>2, <2>3, ShownFor
  <2>5. links'.page # None \/ links'.streams # None
    BY <2>3, OptionsShown, LinksAssumption DEF Links!PageOf, Links!MarksAssumption
  <2>6. links'.player # None /\ links'.watching => links'.streams = links'.video
    BY <2>1, <2>3
  <2> QED
    BY <2>3, <2>4, <2>5, <2>6 DEF Links!TitleLeadsSomewhere
<1> QED
  BY <1>3, <1>4, <1>5, <1>6

\* What the player has converted, it has converted with a server.
LEMMA PlayedIsConverted ==
  ASSUME LinksInv, opened_stream \notin {None, Failed}
  PROVE  /\ opened \in Links!Source
         /\ \E server \in Servers : opened_stream.source = Links!Convert(opened, server) /\ opened_stream.source # Failed
BY DEF LinksInv, Played

LEMMA LinksPlayed ==
  ASSUME LinksInv, Links!ShowPlayed
  PROVE  LinksInv'
<1>1. PICK type \in ExternalPlayers : links' = Links!PlayedLinks(type)
  BY DEF Links!ShowPlayed, Links!Show
<1>2. opened_stream \notin {None, Failed} /\ UNCHANGED <<streaming_server_url, base_url, opened, opened_stream>>
  BY DEF Links!ShowPlayed, Links!Show
<1>3. /\ links'.of = "played" /\ links'.what = opened_stream.source /\ links'.player = Links!Encode(opened_stream.source)
      /\ links'.external.streaming = Links!StreamingUrl(opened_stream.source)
  BY <1>1 DEF Links!PlayedLinks, Links!ConvertedPlayerLink, Links!UrlsOf
<1>4. AgainInv'
  BY <1>2, <1>3, PlayedIsConverted DEF AgainInv
<1>5. Links!OfflineLinksWork' /\ Links!TitleLeadsSomewhere'
  BY <1>3 DEF Links!OfflineLinksWork, Links!TitleLeadsSomewhere, Links!Shown
<1> QED
  BY <1>2, <1>3, <1>4, <1>5 DEF LinksInv

\* What a link has is a stream again once it is decoded.
LEMMA LinkIsSource ==
  ASSUME LinksInv, links # None, links.player # None \/ links.of = "played"
  PROVE  Links!Decode(links.player) \in Links!Source
<1>1. CASE links.of # "played"
  BY <1>1, SourceIsKept DEF LinksInv, ShownInv, Links!FromAddon
<1>2. CASE links.of = "played"
  <2>1. PICK s \in Links!Source, server \in Servers :
          links.what = Links!Convert(s, server) /\ links.what # Failed /\ links.player = Links!Encode(links.what)
    BY <1>2 DEF LinksInv, AgainInv
  <2>2. links.what \in Links!Source \/ links.what \in Links!Served
    BY <2>1, ConvertedIs DEF Links!Option
  <2>3. ASSUME links.what \in Links!Served PROVE Links!Decode(links.player) \in Links!Source
    <3>1. "url" \in Links!ToSet(Links!Kinds) /\ None \notin Links!Url
      BY LinksAssumption DEF Links!ToSet, Links!Kinds, Links!MarksAssumption
    <3> QED
      BY <2>1, <2>3, <3>1, ServedIsUrl DEF Links!Served, Links!Source, Links!Option
  <2> QED
    BY <2>1, <2>2, <2>3, SourceIsKept
<1> QED
  BY <1>1, <1>2

LEMMA LinksNext ==
  ASSUME LinksInv, Links!Next
  PROVE  LinksInv'
<1>1. CASE Links!OpenPlayerLink
  <2>1. /\ opened' = Links!Decode(links.player) /\ opened' \in Links!Source /\ opened' # None
        /\ opened_stream' = Played(opened', streaming_server_url)
    BY <1>1, LinkIsSource, LinksAssumption DEF Links!OpenPlayerLink, Played, Links!MarksAssumption
  <2> QED
    BY <1>1, <2>1
    DEF Links!OpenPlayerLink, LinksInv, AgainInv, ShownInv, Links!OfflineLinksWork, Links!TitleLeadsSomewhere, Links!Shown
<1>2. CASE Links!Unload
  BY <1>2 DEF Links!Unload, LinksInv, AgainInv, ShownInv, Links!OfflineLinksWork, Links!TitleLeadsSomewhere, Links!Shown
<1>3. CASE Links!ServerChanged
  BY <1>3 DEF Links!ServerChanged, LinksInv, AgainInv, ShownInv, Links!OfflineLinksWork, Links!TitleLeadsSomewhere, Links!Shown, Links!Option
<1>4. CASE Links!ServerAnswered
  BY <1>4 DEF Links!ServerAnswered, LinksInv, AgainInv, ShownInv, Links!OfflineLinksWork, Links!TitleLeadsSomewhere, Links!Shown, Links!Option
<1> QED
  BY <1>1, <1>2, <1>3, <1>4, LinksShow, LinksPlayed DEF Links!Next

LEMMA LinksRest ==
  ASSUME LinksInv, UNCHANGED linkVars
  PROVE  LinksInv'
BY DEF linkVars, LinksInv, AgainInv, ShownInv, Links!OfflineLinksWork, Links!TitleLeadsSomewhere, Links!Shown

LEMMA LinksHold ==
  ASSUME LinksInv
  PROVE  Links!TypeOK /\ Links!LinkKeepsStream /\ Links!OfflineLinksWork /\ Links!PlayedAgainIsTheSame /\ Links!TitleLeadsSomewhere
<1>1. Links!TypeOK
  <2>1. streaming_server_url \in Servers /\ base_url \in Servers \cup {None}
    BY DEF LinksInv, Links!Option
  <2>2. opened # None => opened.kind \in Links!ToSet(Links!Kinds)
    BY DEF LinksInv, Links!Source
  <2>3. (opened_stream = None) <=> (opened = None)
    BY PlayedIsSome DEF LinksInv
  <2> QED
    BY <2>1, <2>2, <2>3 DEF Links!TypeOK
<1>2. Links!LinkKeepsStream
  BY SourceIsKept DEF LinksInv, Links!LinkKeepsStream, Links!Shown, ShownInv, Links!FromAddon
<1>3. Links!PlayedAgainIsTheSame
  <2> SUFFICES ASSUME links # None, links.of = "played", ~links.what.proxy, opened = Links!Decode(links.player)
               PROVE  opened_stream.urls.streaming = links.external.streaming
    BY DEF Links!PlayedAgainIsTheSame
  <2>1. PICK s \in Links!Source, server \in Servers :
          /\ links.what = Links!Convert(s, server) /\ links.what # Failed
          /\ links.player = Links!Encode(links.what) /\ links.external.streaming = Links!StreamingUrl(links.what)
    BY DEF LinksInv, AgainInv
  <2>2. opened \in Links!Source /\ opened # None
    BY LinkIsSource, LinksAssumption DEF Links!MarksAssumption
  <2>3. PICK other \in Servers : opened_stream = Played(opened, other)
    BY <2>2 DEF LinksInv
  <2>4. /\ Links!Convert(opened, other) # Failed
        /\ Links!StreamingUrl(Links!Convert(opened, other)) = Links!StreamingUrl(links.what)
    BY <2>1, AgainIsTheSame
  <2> QED
    BY <2>1, <2>3, <2>4 DEF Played, Links!UrlsOf
<1> QED
  BY <1>1, <1>2, <1>3 DEF LinksInv

(* The parts together *)

PlayerInv ==
  /\ part \in Parts
  /\ part = "progress" => ProgressInv /\ CountedInv
  /\ part = "resources" => ResourceInv
  /\ part = "links" => LinksInv
  /\ part = "views" => ViewsInv
  /\ part = "transport" => TransportInv

\* What holds besides while no clock is ahead.
CalmInv == part = "progress" => AheadInv /\ EditInv /\ RoundsInv /\ LossInv

LEMMA CalmStart == Progress!Init => CountedInv /\ AheadInv /\ EditInv /\ RoundsInv /\ LossInv
<1> SUFFICES ASSUME Progress!Init PROVE CountedInv /\ AheadInv /\ EditInv /\ RoundsInv /\ LossInv
  OBVIOUS
<1> DEFINE first == [Progress!NewItem EXCEPT !.removed = FALSE, !.temp = FALSE]
<1>1. first \in Item /\ first.times_watched = 0 /\ first.no_notif = FALSE /\ first.ahead = FALSE
  BY DEF Item, Progress!Item, Progress!NewItem
<1> HIDE DEF first
<1>2. /\ now = PushEvery /\ pushed = 0 /\ library \in {None, first}
      /\ selected = None /\ library_item = None /\ todo = None /\ pos = None
      /\ rounds = 0 /\ loads = 0 /\ wanted = FALSE
  BY DEF Progress!Init, first
<1>3. CountedInv /\ AheadInv
  BY <1>1, <1>2, ProgressConstants DEF CountedInv, AheadInv, Copies
<1>4. EditInv
  BY <1>1, <1>2, ProgressConstants DEF EditInv, Copies
<1>41. RoundsInv
  BY <1>1, <1>2, ProgressConstants DEF RoundsInv, Copies
<1>5. LossInv
  BY <1>1, <1>2, ProgressConstants DEF LossInv, Near
<1> QED
  BY <1>3, <1>4, <1>41, <1>5

LEMMA PlayerStart == Init => PlayerInv /\ CalmInv
BY ProgressStart, ResourceStart, LinksBegin, ViewsBegin, TransportBegins, CalmStart DEF Init, PlayerInv, CalmInv

LEMMA ProgressRests ==
  ASSUME UNCHANGED playerVars
  PROVE  /\ ProgressInv /\ CountedInv => ProgressInv' /\ CountedInv'
         /\ AheadInv /\ EditInv /\ RoundsInv /\ LossInv => AheadInv' /\ EditInv' /\ RoundsInv' /\ LossInv'
<1>1. UNCHANGED <<now, library, selected, ready, library_item, pushed, todo, pos, rounds, played, loads,
                  disturbed, wanted>>
  BY DEF playerVars, progressVars
<1>2. ProgressInv /\ CountedInv => ProgressInv' /\ CountedInv'
  BY <1>1 DEF ProgressInv, Progress!TypeOK, CountedInv, Copies
<1>3. AheadInv /\ EditInv /\ RoundsInv => AheadInv' /\ EditInv' /\ RoundsInv'
  BY <1>1 DEF AheadInv, EditInv, RoundsInv, Copies, Restarted
<1>4. LossInv => LossInv'
  BY <1>1 DEF LossInv, Near, SameVideo
<1> QED
  BY <1>2, <1>3, <1>4

LEMMA ResourcesRest ==
  ASSUME UNCHANGED playerVars, ResourceInv
  PROVE  ResourceInv'
<1>1. UNCHANGED <<chosen, meta_item, video_params, subtitles, next_video, next_streams, next_stream, skip_gaps,
                  stream_state, streams, key, calls, blind>>
  BY DEF playerVars, resourceVars
<1>2. Resources!TypeOK'
  BY <1>1 DEF ResourceInv, Resources!TypeOK, Resources!Option
<1> QED
  BY <1>1, <1>2 DEF ResourceInv, NoneSelected, Resources!SubtitlesOfVideo, WaitInv, Waits, UnderWay, NextInv,
     Resources!Ready, DelayInv, Resources!DelayIsOfStream, DelaysKept

LEMMA PlayerStep == PlayerInv /\ [Next]_playerVars => PlayerInv'
<1> SUFFICES ASSUME PlayerInv, [Next]_playerVars PROVE PlayerInv'
  OBVIOUS
<1>1. CASE UNCHANGED playerVars
  <2>1. part' = part
    BY <1>1 DEF playerVars
  <2>2. UNCHANGED linkVars /\ UNCHANGED viewVars /\ UNCHANGED transportVars
    BY <1>1 DEF playerVars
  <2>3. /\ part = "progress" => ProgressInv' /\ CountedInv'
        /\ part = "resources" => ResourceInv'
    BY <1>1, ProgressRests, ResourcesRest DEF PlayerInv
  <2>4. /\ part = "links" => LinksInv'
        /\ part = "views" => ViewsInv'
        /\ part = "transport" => TransportInv'
    BY <2>2, LinksRest, ViewsStep, TransportSteps DEF PlayerInv
  <2> QED
    BY <2>1, <2>3, <2>4 DEF PlayerInv
<1>2. CASE Next
  <2>1. /\ part' = part
        /\ part = "progress" => Progress!Next
        /\ part = "resources" => Resources!Next
        /\ part = "links" => Links!Next
        /\ part = "views" => Views!Next
        /\ part = "transport" => Transport!Next
    BY <1>2 DEF Next
  <2>2. part = "progress" => ProgressInv' /\ CountedInv'
    BY <2>1, ProgressNext, CountedNext DEF PlayerInv
  <2>3. part = "resources" => ResourceInv'
    BY <2>1, ResourceNext DEF PlayerInv
  <2>4. /\ part = "links" => LinksInv'
        /\ part = "views" => ViewsInv'
        /\ part = "transport" => TransportInv'
    BY <2>1, LinksNext, ViewsStep, TransportSteps DEF PlayerInv
  <2> QED
    BY <2>1, <2>2, <2>3, <2>4 DEF PlayerInv
<1> QED
  BY <1>1, <1>2

LEMMA CalmStep == NoneAhead /\ PlayerInv /\ PlayerInv' /\ CalmInv /\ [Next]_playerVars => CalmInv'
<1> SUFFICES ASSUME NoneAhead, PlayerInv, PlayerInv', CalmInv, [Next]_playerVars PROVE CalmInv'
  OBVIOUS
<1>1. CASE UNCHANGED playerVars
  <2>1. part' = part
    BY <1>1 DEF playerVars
  <2> QED
    BY <1>1, <2>1, ProgressRests DEF CalmInv
<1>2. CASE Next
  <2>1. part' = part /\ (part = "progress" => Progress!Next)
    BY <1>2 DEF Next
  <2> QED
    BY <2>1, AheadNext, EditNext, RoundsNext, LossNext DEF PlayerInv, CalmInv
<1> QED
  BY <1>1, <1>2

LEMMA PlayerSpec == Spec => []PlayerInv
BY PlayerStart, PlayerStep, PTL DEF Spec

LEMMA CalmSpec == ASSUME NoneAhead PROVE Spec => []CalmInv
BY PlayerStart, PlayerSpec, CalmStep, PTL DEF Spec

\* Both sides of the player, and what leads to it, keep the types of their state.
THEOREM PlayerTypes == Spec => []TypeOK
<1>1. PlayerInv => TypeOK
  BY LinksHold, ViewsTypes, TransportTypes DEF PlayerInv, ProgressInv, ResourceInv, TypeOK
<1> QED
  BY <1>1, PlayerSpec, PTL

\* A video is counted as watched at most once for each time that it is loaded, or
\* begun on another device, whatever other devices send (player.rs:522).
THEOREM CountsOnce == Spec => []WatchedOncePerLoad
<1>1. PlayerInv => WatchedOncePerLoad
  <2> SUFFICES ASSUME ProgressInv, CountedInv, library # None PROVE library.times_watched <= loads
    BY DEF PlayerInv, WatchedOncePerLoad, Progress!WatchedOncePerLoad
  <2>1. library \in Item
    BY ProgressTypes DEF ProgressInv
  <2> QED
    BY <2>1, ItemFields DEF CountedInv, Copies
<1> QED
  BY <1>1, PlayerSpec, PTL

\* What the user sets while a video plays is not undone by an older copy that the
\* player hands over (player.rs:870, player.rs:689), unless a clock is ahead.
THEOREM EditsSurvive == NoneAhead => (Spec => []EditsSurvivePlaying)
<1> SUFFICES ASSUME NoneAhead PROVE Spec => []EditsSurvivePlaying
  OBVIOUS
<1>1. PlayerInv /\ CalmInv => EditsSurvivePlaying
  <2> SUFFICES ASSUME ProgressInv, EditInv, todo = None, library # None PROVE library.no_notif = wanted
    BY DEF PlayerInv, CalmInv, EditsSurvivePlaying, Progress!EditsSurvivePlaying
  <2>1. library \in Item
    BY ProgressTypes DEF ProgressInv
  <2> QED
    BY <2>1, ItemFields DEF EditInv, Copies
<1> QED
  BY <1>1, PlayerSpec, CalmSpec, PTL

\* What a stop would lose is less than PushEvery of playing, as long as one plays on
\* without seeking and no clock is ahead (player.rs:876).
THEOREM LosesLittle == NoneAhead => (Spec => []LossIsBounded)
<1> SUFFICES ASSUME NoneAhead PROVE Spec => []LossIsBounded
  OBVIOUS
<1>1. PlayerInv /\ CalmInv => LossIsBounded
  <2> SUFFICES ASSUME ProgressInv, LossInv, todo = None, library # None, library_item # None, ~disturbed,
                      library.video_id = library_item.video_id
               PROVE  library_item.time_watched < library.time_watched + PushEvery
    BY DEF PlayerInv, CalmInv, LossIsBounded, Progress!LossIsBounded
  <2>1. library \in Item /\ library_item \in Item
    BY ProgressTypes DEF ProgressInv
  <2>2. /\ library.time_watched \in Nat /\ library.time_offset \in Nat
        /\ library_item.time_watched \in Nat /\ library_item.time_offset \in Nat
    BY <2>1, ItemFields
  <2>3. SameVideo(library_item, library) /\ Near(library)
    BY DEF LossInv
  <2>4. pos # None => pos \in Nat
    BY ProgressTypes, ProgressConstants DEF ProgressInv
  <2> QED
    BY <2>2, <2>3, <2>4, ProgressConstants DEF SameVideo, Near
<1> QED
  BY <1>1, PlayerSpec, CalmSpec, PTL

\* The messages that the player and the library exchange come to an end unless a
\* clock is ahead, and what is Loading has a request under way.
THEOREM Settles == NoneAhead => (Spec => []PlayerSettles)
<1> SUFFICES ASSUME NoneAhead PROVE Spec => []PlayerSettles
  OBVIOUS
<1>1. PlayerInv /\ CalmInv => PlayerSettles
  <2>1. RoundsInv => Progress!MessagesSettle
    BY DEF RoundsInv, Progress!MessagesSettle
  <2>2. ResourceInv => Resources!ResourcesAreAnswered
    BY DEF ResourceInv, WaitInv, Waits, UnderWay, Resources!ResourcesAreAnswered, Resources!UnderWay
  <2> QED
    BY <2>1, <2>2 DEF PlayerInv, CalmInv, PlayerSettles
<1> QED
  BY <1>1, PlayerSpec, CalmSpec, PTL

\* The subtitles, their delay and the stream that continues a binge are of what is
\* selected (player.rs:1196, :1042, streams_item.rs:98), and so is an intro taken up
\* while all that gaps are asked for with is known (player.rs:836).
THEOREM ShowsOfVideo == Spec => ShownIsOfVideo
<1>1. PlayerInv => (part = "resources" =>
                      /\ Resources!SubtitlesOfVideo /\ Resources!KnownDelayIsOfStream
                      /\ Resources!NextStreamIsOfNextVideo)
  <2> SUFFICES ASSUME ResourceInv
               PROVE  /\ Resources!SubtitlesOfVideo /\ Resources!KnownDelayIsOfStream
                      /\ Resources!NextStreamIsOfNextVideo
    BY DEF PlayerInv
  <2>1. Resources!SubtitlesOfVideo /\ Resources!KnownDelayIsOfStream
    BY DEF ResourceInv, DelayInv, Resources!KnownDelayIsOfStream
  <2>2. Resources!NextStreamIsOfNextVideo
    BY DEF ResourceInv, NextInv, Resources!NextStreamIsOfNextVideo, Resources!StreamRequest
  <2> QED
    BY <2>1, <2>2
<1>2. PlayerInv /\ [Next]_playerVars =>
        [LET want == Resources!WantedGaps(chosen, meta_item, video_params)' IN
         intro_outro' \notin {None, intro_outro} /\ want # None => intro_outro' = want]_(Resources!resourceVars)
  <2>1. UNCHANGED resourceVars => UNCHANGED Resources!resourceVars
    BY DEF resourceVars, Resources!resourceVars
  <2>2. UNCHANGED playerVars => UNCHANGED resourceVars
    BY DEF playerVars
  <2>3. PlayerInv /\ Next => Resources!Next \/ UNCHANGED resourceVars
    BY DEF PlayerInv, Parts, Next
  <2> QED
    BY <2>1, <2>2, <2>3, IntroStep
<1> QED
  BY <1>1, <1>2, PlayerSpec, PTL DEF Spec, ShownIsOfVideo, Resources!IntroTakenIsOfVideo

\* Add-ons are asked for what they offer, under their own names and told apart
\* (legacy/mod.rs:161), and what they answer is read and put in order (response.rs:91);
\* the interface is told of it, and shown all of it, once (serialize_meta_details.rs:115);
\* and the links in it lead to what they are shown for, now and when the player shows
\* them again, and nowhere that is not there (stream.rs:756, mod.rs:92).
THEOREM OffersAreKept == Spec => []OffersHold
<1>1. PlayerInv => OffersHold
  BY LinksHold, ViewsShow, TransportAsks, TransportTells, ResponseIsShown, VideosAreInOrder
  DEF PlayerInv, OffersHold
<1> QED
  BY <1>1, PlayerSpec, PTL
=============================================================================
