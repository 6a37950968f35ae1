--------------------------- MODULE LibraryBuckets ---------------------------
(***************************************************************************)
(* The library bucket of src/types/library/library_bucket.rs as values:    *)
(* a bucket is the account it belongs to and a map from item ids to items, *)
(* and the operators below are the methods of LibraryBucket.               *)
(*                                                                         *)
(* An item keeps only what the methods and the properties tell apart: its  *)
(* modification time, its content (everything eq_no_mtime compares) and,   *)
(* as history, the account under which that content was written.           *)
(***************************************************************************)
EXTENDS Naturals, FiniteSets

CONSTANTS
  Ids,                    \* library item ids
  Users,                  \* accounts of the API
  NoUser,                 \* the UID None: nobody is logged in
  Bodies,                 \* contents of an item, without its mtime
  Absent,                 \* what a map has for an id it does not hold
  LIBRARY_RECENT_COUNT    \* how many items the recent slot holds (200)

UID == Users \cup {NoUser}

Item == [mtime : Nat, body : Bodies, owner : UID]

ASSUME IdsAssumption == IsFiniteSet(Ids)
ASSUME NoUserAssumption == NoUser \notin Users
ASSUME AbsentAssumption == Absent \notin Item
ASSUME RecentCountAssumption == LIBRARY_RECENT_COUNT \in Nat \ {0}

\* HashMap<String, LibraryItem>
ItemMap == [Ids -> Item \cup {Absent}]

Present(items) == {id \in Ids : items[id] # Absent}

NoItems == [id \in Ids |-> Absent]

\* The part of a map on a set of ids (LibraryBucketRef::new).
Part(items, S) == [id \in Ids |-> IF id \in S THEN items[id] ELSE Absent]

LibraryBucket == [uid : UID, items : ItemMap]

\* LibraryBucket::new; LibraryBucket::default() is New(NoUser, NoItems).
New(uid, items) == [uid |-> uid, items |-> items]

\* LibraryItem::eq_no_mtime
EqNoMtime(a, b) == a.body = b.body

\* Changed: of two equal times the item there stays.
MergeItems_Strict(items, new) ==
  [id \in Ids |->
     IF /\ new[id] # Absent
        /\ items[id] # Absent => new[id].mtime > items[id].mtime
       THEN new[id]
       ELSE items[id]]

\* Changed: the incoming item wins, whatever the times.
MergeItems_Incoming(items, new) ==
  [id \in Ids |-> IF new[id] # Absent THEN new[id] ELSE items[id]]

\* merge_items: the last writer wins, and of two equal times the incoming item.
MergeItems(items, new) ==
  [id \in Ids |->
     IF /\ new[id] # Absent
        /\ items[id] # Absent => new[id].mtime >= items[id].mtime
       THEN new[id]
       ELSE items[id]]

\* Changed: the bucket's account is not compared.
MergeBucket_AnyAccount(bucket, other) ==
  [bucket EXCEPT !.items = MergeItems(bucket.items, other.items)]

\* merge_bucket: a bucket of another account is left out.
MergeBucket(bucket, other) ==
  IF bucket.uid = other.uid
    THEN [bucket EXCEPT !.items = MergeItems(bucket.items, other.items)]
    ELSE bucket

RecentSize(items) ==
  IF Cardinality(Present(items)) <= LIBRARY_RECENT_COUNT
    THEN Cardinality(Present(items))
    ELSE LIBRARY_RECENT_COUNT

(***************************************************************************)
(* The ids that sorting by mtime, latest first, and taking                 *)
(* LIBRARY_RECENT_COUNT items can return.  Items of equal mtime come in    *)
(* the order of the hash map, so the code's answer is one of a set; when   *)
(* no two mtimes are equal the set has one element.                        *)
(***************************************************************************)
Recents(items) ==
  {R \in SUBSET Present(items) :
     /\ Cardinality(R) = RecentSize(items)
     /\ \A r \in R, o \in Present(items) \ R : items[r].mtime >= items[o].mtime}
=============================================================================
