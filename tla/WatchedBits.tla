----------------------------- MODULE WatchedBits -----------------------------
(***************************************************************************)
(* Which videos of a title were watched, as a bit for each place in the    *)
(* list of its videos, with an anchor by which the bits are found again in *)
(* a list that has become another                                          *)
(* (stremio-watched-bitfield/src/bitfield8.rs, watched_bitfield.rs).       *)
(*                                                                         *)
(* A bit field is [length, values]: values has a bit for each place of its *)
(* bytes, from 0 on.  Text and compression keep the values and their       *)
(* number, but not the length, which is that of the bytes when it is read. *)
(***************************************************************************)
EXTENDS Integers, Sequences

CONSTANTS
  Byte,        \* bits of a byte; 8 in the code
  Videos,      \* bound: ids of videos, as a sequence that lists are cut from
  Undefined    \* the anchor of a field without videos

ByteAssumption == Byte \in Nat \ {0}

\* A video is listed once: by its id it is found again.
VideosAssumption ==
  /\ Videos \in Seq({Videos[i] : i \in DOMAIN Videos})
  /\ \A i, j \in DOMAIN Videos : Videos[i] = Videos[j] => i = j

VARIABLES
  video_ids,   \* the videos of the title, as the add-on lists them
  bitfield,    \* WatchedBitField.bitfield, for these videos
  field,       \* LibraryItem.state.watched, as it was last written
  seen         \* history: the videos that are marked as watched

watchedVars == <<video_ids, bitfield, field, seen>>

Bytes(n) == (n + Byte - 1) \div Byte
Values(n) == [i \in 0 .. Bytes(n) * Byte - 1 |-> FALSE]

\* BitField8::new: the length is the number of bytes.
New(n) == [length |-> Bytes(n), values |-> Values(n)]

\* BitField8::new_with_values, with a length: what is missing is added.
WithValues(values, n) ==
  [length |-> n,
   values |-> [i \in DOMAIN values \cup DOMAIN Values(n) |-> i \in DOMAIN values /\ values[i]]]

Get(b, i) == i \in DOMAIN b.values /\ b.values[i]

\* BitField8::set, within the values there are: no caller sets a bit beyond them.
Set(b, i, v) == [b EXCEPT !.values[i] = v]

\* BitField8::last_index_of(true), or 0: only below the length.
LastIndex(b) ==
  LET set == {i \in 0 .. b.length - 1 : Get(b, i)} IN
  IF set = {} THEN 0 ELSE CHOOSE i \in set : \A j \in set : j <= i

\* WatchedField::from
FieldOf(b, ids) ==
  [anchor_video |-> IF ids = <<>> THEN Undefined ELSE ids[LastIndex(b) + 1],
   anchor_length |-> LastIndex(b) + 1, values |-> b.values]

Positions(ids, id) == {i \in DOMAIN ids : ids[i] = id}

\* WatchedBitField::construct_with_videos
Construct(f, ids) ==
  IF Positions(ids, f.anchor_video) = {} THEN New(Len(ids))
  ELSE LET anchor == (CHOOSE i \in Positions(ids, f.anchor_video) : TRUE) - 1
           offset == f.anchor_length - anchor - 1
           old == WithValues(f.values, Len(ids))
           new == New(Len(ids))
       IN IF offset = 0 THEN old
          ELSE [new EXCEPT !.values = [i \in DOMAIN @ |->
                 /\ i < Len(ids)
                 /\ i + offset >= 0 /\ i + offset < old.length /\ Get(old, i + offset)]]

\* WatchedBitField::get_video
GetVideo(id) == \E i \in Positions(video_ids, id) : Get(bitfield, i - 1)
-----------------------------------------------------------------------------
\* WatchedBitField::set_video, and the field of the library item with it
\* (LibraryItem::mark_video_as_watched).
MarkVideoAsWatched(id, watched) ==
  LET marked == Set(bitfield, (CHOOSE i \in Positions(video_ids, id) : TRUE) - 1, watched) IN
  /\ bitfield' = marked /\ field' = FieldOf(marked, video_ids)
  /\ seen' = IF watched THEN seen \cup {id} ELSE seen \ {id}
  /\ UNCHANGED video_ids

\* The field is read for the videos that are listed by then (watched_bitfield of
\* LibraryItemState).
Construe(ids) ==
  /\ video_ids' = ids
  /\ bitfield' = Construct(field, ids)
  /\ UNCHANGED <<field, seen>>

List(first, last) == SubSeq(Videos, first, last)
Ranges == {r \in (1 .. Len(Videos)) \X (1 .. Len(Videos)) : r[1] <= r[2]}

Within(s, t) == {s[i] : i \in DOMAIN s} \subseteq {t[i] : i \in DOMAIN t}

\* Videos are added, before or after the ones there are.
Grow == \E r \in Ranges :
  Within(video_ids, List(r[1], r[2])) /\ Construe(List(r[1], r[2]))

\* Videos go, but not the anchor, and none that were watched.
Shrink == \E r \in Ranges :
  LET ids == List(r[1], r[2]) IN
  /\ Within(ids, video_ids) /\ Positions(ids, field.anchor_video) # {}
  /\ \A id \in seen : Positions(ids, id) # {}
  /\ Construe(ids)

Init ==
  /\ \E r \in Ranges : video_ids = List(r[1], r[2])
  /\ bitfield = New(Len(video_ids)) /\ field = FieldOf(bitfield, video_ids)
  /\ seen = {}

Mark == \E i \in DOMAIN video_ids, watched \in BOOLEAN : MarkVideoAsWatched(video_ids[i], watched)

Next == Mark \/ Grow

Spec == Init /\ [][Next]_watchedVars
-----------------------------------------------------------------------------
\* A video is watched exactly when it was marked, whatever was written and read in
\* between and however often the list grew at either end.
WatchedSurvives == \A i \in DOMAIN video_ids : GetVideo(video_ids[i]) <=> video_ids[i] \in seen
=============================================================================
