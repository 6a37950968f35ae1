--------------------------- MODULE LibraryStorage ---------------------------
(***************************************************************************)
(* The user's library in memory and in the two storage slots it is kept    *)
(* in (src/models/ctx/update_library.rs), through account changes, writes  *)
(* that fail, and a process that stops between any two writes and starts   *)
(* again from storage (initialize_runtime of stremio-core-web).            *)
(*                                                                         *)
(* Every change of the library hands the environment's sequential executor *)
(* one job: the slots to write, with the values serialized at that moment. *)
(* A library of more than LIBRARY_RECENT_COUNT items is split between the  *)
(* slots, and a change of items that are all recent rewrites the recent    *)
(* slot only.  The API is present through `versions' alone: every version  *)
(* of an item any device ever wrote; what the API answers is some of them. *)
(***************************************************************************)
EXTENDS LibraryBuckets, Sequences, TLC

CONSTANTS
  Missing,    \* the value of a slot nothing is stored in
  MaxStamp,   \* bound: modification times are 1 .. MaxStamp
  MaxJobs     \* bound: jobs the executor has not finished

ASSUME MissingAssumption == Missing \notin UID \cup LibraryBucket
ASSUME BoundsAssumption == MaxStamp \in Nat /\ MaxJobs \in Nat

VARIABLES
  uid,        \* ctx.profile.uid()
  library,    \* ctx.library
  queue,      \* jobs of the sequential executor, the oldest first
  storage,    \* what each slot holds
  versions,   \* history: every version of an item ever written, with its id
  failed,     \* history: slots whose last write failed in this process
  torn        \* history: the process started from slots no one job left behind

vars == <<uid, library, queue, storage, versions, failed, torn>>

LibrarySlots == {"library_recent", "library"}
Slots == LibrarySlots \cup {"profile"}

SlotValue == LibraryBucket \cup {Missing}

Write == [slot : LibrarySlots, value : SlotValue] \cup [slot : {"profile"}, value : UID]

\* The writes of a job, and those of them that are still to do.
Jobs == [all : SUBSET Write, todo : SUBSET Write]

TypeOK ==
  /\ uid \in UID
  /\ library \in LibraryBucket
  /\ queue \in Seq(Jobs)
  /\ storage \in [Slots -> SlotValue \cup UID]
  /\ storage["profile"] \in UID \cup {Missing}
  /\ \A s \in LibrarySlots : storage[s] \in SlotValue
  /\ versions \subseteq [id : Ids, item : Item]
  /\ failed \subseteq Slots
  /\ torn \in BOOLEAN
-----------------------------------------------------------------------------
(* What a process that starts from `store' has in memory. *)

\* Changed: an absent profile is not replaced by the default one.
LoadedUid_NoDefault(store) == store["profile"]

LoadedUid(store) == IF store["profile"] = Missing THEN NoUser ELSE store["profile"]

MergeSlot(bucket, slot) == IF slot = Missing THEN bucket ELSE MergeBucket(bucket, slot)

LoadedLibrary(store, u) ==
  MergeSlot(MergeSlot(New(u, NoItems), store["library_recent"]), store["library"])
-----------------------------------------------------------------------------
(* The jobs. *)

Job(writes) == [all |-> writes, todo |-> writes]

WriteRecent(b, R) == [slot |-> "library_recent", value |-> New(b.uid, Part(b.items, R))]
WriteOthers(b, R) == [slot |-> "library", value |-> New(b.uid, Part(b.items, Ids \ R))]
RemoveOthers == [slot |-> "library", value |-> Missing]
WriteProfile(u) == [slot |-> "profile", value |-> u]

\* push_library_to_storage
PushLibrary(b, R) == Job({WriteRecent(b, R), WriteOthers(b, R)})

Room(n) == Len(queue) + n <= MaxJobs

Enqueue(writes) == queue' = Append(queue, Job(writes))

\* Changed: whether the ids are recent is looked up after the merge.
MergeAndPush_LookupAfter(items) ==
  LET after == [library EXCEPT !.items = MergeItems(library.items, items)] IN
  /\ library' = after
  /\ \/ /\ Cardinality(Present(after.items)) <= LIBRARY_RECENT_COUNT
        /\ Enqueue({WriteRecent(after, Ids), RemoveOthers})
     \/ /\ Cardinality(Present(after.items)) > LIBRARY_RECENT_COUNT
        /\ \E R \in Recents(after.items) :
             \/ Present(items) \subseteq R /\ Enqueue({WriteRecent(after, R)})
             \/ ~(Present(items) \subseteq R)
                /\ Enqueue({WriteRecent(after, R), WriteOthers(after, R)})

\* Changed: the slot of the other items is removed when the library is split.
MergeAndPush_OthersRemoved(items) ==
  LET after == [library EXCEPT !.items = MergeItems(library.items, items)] IN
  /\ library' = after
  /\ \E R \in Recents(after.items) : Enqueue({WriteRecent(after, R), RemoveOthers})

\* update_and_push_items_to_storage: whether the ids are recent is looked up
\* before the merge, the library is split after it.
MergeAndPush(items) ==
  LET after == [library EXCEPT !.items = MergeItems(library.items, items)] IN
  /\ library' = after
  /\ \/ /\ Cardinality(Present(after.items)) <= LIBRARY_RECENT_COUNT
        /\ Enqueue({WriteRecent(after, Ids), RemoveOthers})
     \/ /\ Cardinality(Present(after.items)) > LIBRARY_RECENT_COUNT
        /\ \E R0 \in Recents(library.items), R \in Recents(after.items) :
             \/ Present(items) \subseteq R0 /\ Enqueue({WriteRecent(after, R)})
             \/ ~(Present(items) \subseteq R0)
                /\ Enqueue({WriteRecent(after, R), WriteOthers(after, R)})
-----------------------------------------------------------------------------
\* No two writes happen at the same time; a later one may read an earlier time.
Fresh(stamp) == \A v \in versions : v.item.mtime # stamp

\* Internal::UpdateLibraryItem, sent by every action on an item of the library.
UpdateLibraryItem(id, body, now) ==
  LET item == [mtime |-> now, body |-> body, owner |-> uid] IN
  /\ Room(1) /\ Fresh(now)
  /\ library.items[id] # Absent => ~EqNoMtime(library.items[id], item)
  /\ MergeAndPush([NoItems EXCEPT ![id] = item])
  /\ versions' = versions \cup {[id |-> id, item |-> item]}
  /\ UNCHANGED <<uid, storage, failed, torn>>

\* Another device writes an item of account u; a later answer may hold it.
RemoteWrite(u, id, body, now) ==
  /\ Fresh(now)
  /\ versions' = versions \cup {[id |-> id, item |-> [mtime |-> now, body |-> body, owner |-> u]]}
  /\ UNCHANGED <<uid, library, queue, storage, failed, torn>>

\* A library the API may answer for account u: at most one version of each id.
Answers(u) ==
  {items \in [Ids -> {v.item : v \in versions} \cup {Absent}] :
     \A id \in Present(items) : items[id].owner = u /\ [id |-> id, item |-> items[id]] \in versions}

\* Internal::LibraryPullResult(Ok) for the account that is logged in.
LibraryPullResult ==
  /\ uid # NoUser /\ Room(1)
  /\ \E items \in Answers(uid) : Present(items) # {} /\ MergeAndPush(items)
  /\ UNCHANGED <<uid, storage, versions, failed, torn>>

\* Profile and library are replaced by Logout and CtxAuthResult: ProfileChanged
\* is handled before LibraryChanged(false), and neither is sent when the value
\* is the same.  The profile has settings and addons as well, so that it may
\* change when the account does not.
Replace(u, next) ==
  /\ uid' = u
  /\ library' = next
  /\ \E profileChanged \in BOOLEAN, R \in Recents(next.items) :
       LET profile == IF profileChanged THEN <<Job({WriteProfile(u)})>> ELSE <<>>
           push == IF library # next THEN <<PushLibrary(next, R)>> ELSE <<>>
       IN /\ uid # u => profileChanged
          /\ queue' = queue \o profile \o push
  /\ UNCHANGED <<storage, versions, failed, torn>>

\* Internal::CtxAuthResult(Ok) for account u; a failed library fetch answers
\* no items.
CtxAuthResult(u) ==
  /\ Room(2)
  /\ \E items \in Answers(u) : Replace(u, New(u, items))

\* Internal::Logout, also by a user who is not logged in.
Logout ==
  /\ Room(2)
  /\ Replace(NoUser, New(NoUser, NoItems))
-----------------------------------------------------------------------------
\* The executor runs one job at a time; the writes of a job run concurrently.
Running == IF queue = <<>> THEN {} ELSE Head(queue).todo

WholeLibrary(job) == \A s \in LibrarySlots : \E w \in job.all : w.slot = s

Left(rest) ==
  /\ queue' = IF rest = {} THEN Tail(queue) ELSE [queue EXCEPT ![1].todo = rest]
  /\ torn' = (torn /\ ~(rest = {} /\ WholeLibrary(Head(queue)) /\ failed' \cap LibrarySlots = {}))

WriteSlot(w) ==
  /\ w \in Running
  /\ storage' = [storage EXCEPT ![w.slot] = w.value]
  /\ failed' = failed \ {w.slot}
  /\ Left(Running \ {w})
  /\ UNCHANGED <<uid, library, versions>>

\* set_storage answers an error: try_join_all gives up, which may drop a write
\* that had not started, an event is emitted and nothing is retried.
WriteFails(w) ==
  /\ w \in Running
  /\ \E rest \in {{}, Running \ {w}} :
       /\ failed' = failed \cup {v.slot : v \in Running \ rest}
       /\ Left(rest)
  /\ UNCHANGED <<uid, library, storage, versions>>

\* The process stops, losing what the executor had not run, and starts again.
Restart ==
  /\ uid' = LoadedUid(storage)
  /\ library' = LoadedLibrary(storage, uid')
  /\ queue' = <<>>
  /\ failed' = {}
  /\ torn' = (torn \/ failed # {} \/ (queue # <<>> /\ Running # Head(queue).all))
  /\ UNCHANGED <<storage, versions>>
-----------------------------------------------------------------------------
Init ==
  /\ uid = NoUser
  /\ library = New(NoUser, NoItems)
  /\ queue = <<>>
  /\ storage = [s \in Slots |-> Missing]
  /\ versions = {}
  /\ failed = {}
  /\ torn = FALSE

Stamps == 1 .. MaxStamp

Next ==
  \/ \E id \in Ids, body \in Bodies, now \in Stamps : UpdateLibraryItem(id, body, now)
  \/ \E u \in Users, id \in Ids, body \in Bodies, now \in Stamps : RemoteWrite(u, id, body, now)
  \/ LibraryPullResult
  \/ \E u \in Users : CtxAuthResult(u)
  \/ Logout
  \/ \E w \in Running : WriteSlot(w)
  \/ \E w \in Running : WriteFails(w)
  \/ Restart

Spec == Init /\ [][Next]_vars
-----------------------------------------------------------------------------
\* The account of the library is the account of the profile, and no item in
\* memory was written under another account, whichever slots a restart found
\* (merge_bucket's comparison of uids, library_bucket.rs:27).  A user pulled with a
\* token, whom the library does not follow (update_profile.rs:379), is left out.
AccountIsolation ==
  /\ library.uid = uid
  /\ \A id \in Present(library.items) : library.items[id].owner = uid

\* Once the executor has nothing left and no slot's last write failed, a restart
\* brings back exactly the profile's account and the library in memory, although
\* most changes rewrite one slot only (update_library.rs:302).  A process that
\* started from slots one job had written in part is exempt until both slots are
\* written again: its first one-slot write can drop an item from storage.
DrainedIsRecoverable ==
  queue = <<>> /\ failed = {} /\ ~torn =>
    /\ LoadedUid(storage) = uid
    /\ LoadedLibrary(storage, uid) = library

\* While no slot's last write has failed, the current version of every item in
\* memory is in a slot or in a write that waits: stopping between the two writes
\* of a job loses at most what that job still had to write.
Holds(v, id) == v # Missing /\ v.uid = uid /\ v.items[id] = library.items[id]

LostOnlyWhatWaits ==
  failed = {} /\ ~torn =>
    \A id \in Present(library.items) :
      \/ \E s \in LibrarySlots : Holds(storage[s], id)
      \/ \E i \in DOMAIN queue : \E w \in queue[i].todo :
           w.slot \in LibrarySlots /\ Holds(w.value, id)

\* For TLC: items differ in their ids only, and so do bodies.
Symmetry == Permutations(Ids) \cup Permutations(Bodies)
=============================================================================
