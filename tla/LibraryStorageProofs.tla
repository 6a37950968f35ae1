------------------------ MODULE LibraryStorageProofs ------------------------
(***************************************************************************)
(* Proofs about LibraryStorage for every set of ids, accounts and contents *)
(* and every size of the recent slot.                                      *)
(*                                                                         *)
(* AccountIsolation is not inductive: a restart reads the slots, and the   *)
(* executor writes the slots from its jobs.  OwnersAgree says of each      *)
(* bucket, wherever it is, that its items were written under its own uid;  *)
(* Inv says it of the memory, of the slots and of every write in a job.    *)
(* The second half of the module is about what a restart finds.            *)
(***************************************************************************)
EXTENDS LibraryStorage, FiniteSetTheorems, TLAPS

OwnersAgree(b) == \A id \in Ids : b.items[id] # Absent => b.items[id].owner = b.uid

SafeValue == {v \in SlotValue : v # Missing => OwnersAgree(v)}

SafeWrite == [slot : LibrarySlots, value : SafeValue] \cup [slot : {"profile"}, value : UID]

SafeJobs == [all : SUBSET SafeWrite, todo : SUBSET SafeWrite]

Inv ==
  /\ TypeOK
  /\ library.uid = uid
  /\ OwnersAgree(library)
  /\ queue \in Seq(SafeJobs)
  /\ \A s \in LibrarySlots : storage[s] \in SafeValue
-----------------------------------------------------------------------------
(* The methods of LibraryBucket keep types and owners. *)

LEMMA MergeKeeps ==
  ASSUME NEW b \in LibraryBucket, OwnersAgree(b),
         NEW new \in ItemMap,
         \A id \in Ids : new[id] # Absent => new[id].owner = b.uid
  PROVE  LET m == [b EXCEPT !.items = MergeItems(b.items, new)] IN
         m \in LibraryBucket /\ m.uid = b.uid /\ OwnersAgree(m)
BY DEF LibraryBucket, ItemMap, MergeItems, OwnersAgree

LEMMA NewPartKeeps ==
  ASSUME NEW b \in LibraryBucket, OwnersAgree(b), NEW S
  PROVE  New(b.uid, Part(b.items, S)) \in SafeValue
BY DEF LibraryBucket, ItemMap, New, Part, OwnersAgree, SafeValue, SlotValue

LEMMA MergeSlotKeeps ==
  ASSUME NEW b \in LibraryBucket, OwnersAgree(b), NEW v \in SafeValue
  PROVE  LET m == MergeSlot(b, v) IN
         m \in LibraryBucket /\ m.uid = b.uid /\ OwnersAgree(m)
<1>1. CASE v = Missing \/ b.uid # v.uid
  BY <1>1 DEF MergeSlot, MergeBucket
<1>2. CASE v # Missing /\ b.uid = v.uid
  <2>1. v \in LibraryBucket /\ OwnersAgree(v)
    BY <1>2 DEF SafeValue, SlotValue
  <2>2. v.items \in ItemMap /\ \A id \in Ids : v.items[id] # Absent => v.items[id].owner = b.uid
    BY <1>2, <2>1 DEF LibraryBucket, OwnersAgree
  <2>3. MergeSlot(b, v) = [b EXCEPT !.items = MergeItems(b.items, v.items)]
    BY <1>2 DEF MergeSlot, MergeBucket
  <2> QED
    BY <2>2, <2>3, MergeKeeps
<1> QED
  BY <1>1, <1>2

LEMMA NewEmpty ==
  ASSUME NEW u \in UID
  PROVE  New(u, NoItems) \in LibraryBucket /\ New(u, NoItems).uid = u /\ OwnersAgree(New(u, NoItems))
BY DEF New, NoItems, LibraryBucket, ItemMap, OwnersAgree

LEMMA JobKeeps ==
  ASSUME NEW W \in SUBSET SafeWrite
  PROVE  Job(W) \in SafeJobs
BY DEF Job, SafeJobs

LEMMA WritesKeep ==
  ASSUME NEW b \in LibraryBucket, OwnersAgree(b), NEW R
  PROVE  WriteRecent(b, R) \in SafeWrite /\ WriteOthers(b, R) \in SafeWrite
<1>1. New(b.uid, Part(b.items, R)) \in SafeValue /\ New(b.uid, Part(b.items, Ids \ R)) \in SafeValue
  BY NewPartKeeps
<1> QED
  BY <1>1 DEF WriteRecent, WriteOthers, SafeWrite, LibrarySlots

LEMMA PushKeeps ==
  ASSUME NEW b \in LibraryBucket, OwnersAgree(b), NEW R
  PROVE  /\ PushLibrary(b, R) \in SafeJobs
         /\ Job({WriteRecent(b, R), RemoveOthers}) \in SafeJobs
         /\ Job({WriteRecent(b, R)}) \in SafeJobs
<1>1. RemoveOthers \in SafeWrite
  BY DEF RemoveOthers, SafeWrite, LibrarySlots, SafeValue, SlotValue
<1>2. WriteRecent(b, R) \in SafeWrite /\ WriteOthers(b, R) \in SafeWrite
  BY WritesKeep
<1> QED
  BY <1>1, <1>2, JobKeeps DEF PushLibrary

LEMMA ProfileJobKeeps ==
  ASSUME NEW u \in UID
  PROVE  Job({WriteProfile(u)}) \in SafeJobs
<1>1. {WriteProfile(u)} \in SUBSET SafeWrite
  BY DEF WriteProfile, SafeWrite
<1> QED
  BY <1>1, JobKeeps

LEMMA SafeIsTyped == SafeJobs \subseteq Jobs /\ SafeWrite \subseteq Write
<1>1. SafeWrite \subseteq Write
  BY DEF SafeWrite, Write, SafeValue
<1> QED
  BY <1>1 DEF SafeJobs, Jobs

LEMMA LoadedKeeps ==
  ASSUME NEW u \in UID, \A s \in LibrarySlots : storage[s] \in SafeValue
  PROVE  LET m == LoadedLibrary(storage, u) IN
         m \in LibraryBucket /\ m.uid = u /\ OwnersAgree(m)
<1> DEFINE first == MergeSlot(New(u, NoItems), storage["library_recent"])
<1>1. first \in LibraryBucket /\ first.uid = u /\ OwnersAgree(first)
  BY NewEmpty, MergeSlotKeeps DEF LibrarySlots
<1> HIDE DEF first
<1>2. LET m == MergeSlot(first, storage["library"]) IN
      m \in LibraryBucket /\ m.uid = u /\ OwnersAgree(m)
  BY <1>1, MergeSlotKeeps DEF LibrarySlots
<1> QED
  BY <1>2 DEF LoadedLibrary, first
-----------------------------------------------------------------------------
(* The steps. *)

\* What a step has to establish for Inv to hold after it.
LEMMA InvAfter ==
  ASSUME uid' \in UID, library' \in LibraryBucket, library'.uid = uid', OwnersAgree(library'),
         queue' \in Seq(SafeJobs),
         storage' \in [Slots -> SlotValue \cup UID],
         storage'["profile"] \in UID \cup {Missing},
         \A s \in LibrarySlots : storage'[s] \in SafeValue,
         versions' \subseteq [id : Ids, item : Item], failed' \subseteq Slots, torn' \in BOOLEAN
  PROVE  Inv'
<1>1. queue' \in Seq(Jobs)
  BY SafeIsTyped
<1>2. \A s \in LibrarySlots : storage'[s] \in SlotValue
  BY DEF SafeValue
<1>3. OwnersAgree(library)'
  BY DEF OwnersAgree
<1> QED
  BY <1>1, <1>2, <1>3 DEF Inv, TypeOK

LEMMA EnqueueKeeps ==
  ASSUME queue \in Seq(SafeJobs), NEW job \in SafeJobs
  PROVE  Append(queue, job) \in Seq(SafeJobs)
OBVIOUS

LEMMA NoneOrOne ==
  ASSUME NEW S, NEW e \in S
  PROVE  <<>> \in Seq(S) /\ <<e>> \in Seq(S)
OBVIOUS

LEMMA MergeAndPushKeeps ==
  ASSUME Inv, NEW items \in ItemMap,
         \A id \in Ids : items[id] # Absent => items[id].owner = uid,
         MergeAndPush(items)
  PROVE  /\ library' \in LibraryBucket /\ library'.uid = uid /\ OwnersAgree(library')
         /\ queue' \in Seq(SafeJobs)
<1> DEFINE after == [library EXCEPT !.items = MergeItems(library.items, items)]
<1>1. library' = after
  BY DEF MergeAndPush
<1>2. after \in LibraryBucket /\ after.uid = uid /\ OwnersAgree(after)
  BY MergeKeeps DEF Inv, TypeOK
<1>3. \/ queue' = Append(queue, Job({WriteRecent(after, Ids), RemoveOthers}))
      \/ \E R : queue' = Append(queue, Job({WriteRecent(after, R)}))
      \/ \E R : queue' = Append(queue, PushLibrary(after, R))
  BY DEF MergeAndPush, Enqueue, PushLibrary
<1> HIDE DEF after
<1>4. PICK job \in SafeJobs : queue' = Append(queue, job)
  BY <1>2, <1>3, PushKeeps
<1> QED
  BY <1>1, <1>2, <1>4, EnqueueKeeps DEF Inv

LEMMA ReplaceKeeps ==
  ASSUME Inv, NEW u \in UID, NEW next \in LibraryBucket, next.uid = u, OwnersAgree(next),
         Replace(u, next)
  PROVE  Inv'
<1>1. Job({WriteProfile(u)}) \in SafeJobs
  BY ProfileJobKeeps
<1>2. \A R : PushLibrary(next, R) \in SafeJobs
  BY PushKeeps
<1>3. PICK profile, push, R :
        /\ queue' = queue \o profile \o push
        /\ profile = <<>> \/ profile = <<Job({WriteProfile(u)})>>
        /\ push = <<>> \/ push = <<PushLibrary(next, R)>>
  BY DEF Replace
<1>4. profile \in Seq(SafeJobs)
  BY <1>1, <1>3, NoneOrOne
<1>5. push \in Seq(SafeJobs)
  BY <1>1, <1>2, <1>3, NoneOrOne
<1>6. queue' \in Seq(SafeJobs)
  BY <1>3, <1>4, <1>5 DEF Inv
<1>7. uid' = u /\ library' = next /\ UNCHANGED <<storage, versions, failed, torn>>
  BY DEF Replace
<1> QED
  BY <1>6, <1>7, InvAfter DEF Inv, TypeOK

LEMMA UpdateLibraryItemKeeps ==
  ASSUME Inv, NEW id \in Ids, NEW body \in Bodies, NEW now \in Stamps,
         UpdateLibraryItem(id, body, now)
  PROVE  Inv'
<1> DEFINE item == [mtime |-> now, body |-> body, owner |-> uid]
<1> DEFINE items == [NoItems EXCEPT ![id] = item]
<1>1. item \in Item
  BY DEF Inv, TypeOK, Item, Stamps
<1>2. MergeAndPush(items) /\ UNCHANGED <<uid, storage, failed, torn>>
      /\ versions' = versions \cup {[id |-> id, item |-> item]}
  BY DEF UpdateLibraryItem
<1>3. items \in ItemMap /\ \A i \in Ids : items[i] # Absent => items[i].owner = uid
  BY <1>1 DEF ItemMap, NoItems
<1>4. versions' \subseteq [id : Ids, item : Item]
  BY <1>1, <1>2 DEF Inv, TypeOK
<1> HIDE DEF items, item
<1>5. /\ library' \in LibraryBucket /\ library'.uid = uid /\ OwnersAgree(library')
      /\ queue' \in Seq(SafeJobs)
  BY <1>2, <1>3, MergeAndPushKeeps
<1> QED
  BY <1>2, <1>4, <1>5, InvAfter DEF Inv, TypeOK

LEMMA AnswersType ==
  ASSUME Inv, NEW u, NEW items \in Answers(u)
  PROVE  items \in ItemMap /\ \A id \in Ids : items[id] # Absent => items[id].owner = u
BY DEF Answers, ItemMap, Present, Inv, TypeOK

LEMMA LibraryPullResultKeeps ==
  ASSUME Inv, LibraryPullResult
  PROVE  Inv'
<1>1. PICK items \in Answers(uid) : MergeAndPush(items)
  BY DEF LibraryPullResult
<1>2. /\ library' \in LibraryBucket /\ library'.uid = uid /\ OwnersAgree(library')
      /\ queue' \in Seq(SafeJobs)
  BY <1>1, AnswersType, MergeAndPushKeeps
<1> QED
  BY <1>2, InvAfter DEF Inv, TypeOK, LibraryPullResult

LEMMA CtxAuthResultKeeps ==
  ASSUME Inv, NEW u \in Users, CtxAuthResult(u)
  PROVE  Inv'
<1>1. PICK items \in Answers(u) : Replace(u, New(u, items))
  BY DEF CtxAuthResult
<1>2. New(u, items) \in LibraryBucket /\ New(u, items).uid = u /\ OwnersAgree(New(u, items))
  BY AnswersType DEF New, LibraryBucket, OwnersAgree, UID
<1> QED
  BY <1>1, <1>2, ReplaceKeeps DEF UID

LEMMA LeftKeeps ==
  ASSUME Inv, queue # <<>>, NEW rest \in SUBSET Running, Left(rest)
  PROVE  queue' \in Seq(SafeJobs) /\ torn' \in BOOLEAN
<1>1. queue \in Seq(SafeJobs) /\ queue[1] \in SafeJobs /\ Running = queue[1].todo
  BY DEF Inv, Running
<1>2. CASE rest = {}
  BY <1>2 DEF Left, Inv
<1>3. CASE rest # {}
  <2>1. [queue[1] EXCEPT !.todo = rest] \in SafeJobs
    BY <1>1 DEF SafeJobs
  <2> DEFINE job == [queue[1] EXCEPT !.todo = rest]
  <2>2. queue' = [queue EXCEPT ![1] = job] /\ torn' \in BOOLEAN
    BY <1>3 DEF Left
  <2> HIDE DEF job
  <2>3. [queue EXCEPT ![1] = job] \in Seq(SafeJobs)
    BY <1>1, <2>1 DEF job
  <2> QED
    BY <2>2, <2>3
<1> QED
  BY <1>2, <1>3

LEMMA RunningIsSafe ==
  ASSUME Inv, Running # {}
  PROVE  queue # <<>> /\ Running \subseteq SafeWrite
<1>1. queue # <<>> /\ Running = Head(queue).todo
  BY DEF Running
<1>2. Head(queue) \in SafeJobs
  BY <1>1 DEF Inv
<1> QED
  BY <1>1, <1>2 DEF SafeJobs

LEMMA WriteSlotKeeps ==
  ASSUME Inv, NEW w \in Running, WriteSlot(w)
  PROVE  Inv'
<1>1. queue # <<>> /\ w \in SafeWrite
  BY RunningIsSafe
<1>2. queue' \in Seq(SafeJobs) /\ torn' \in BOOLEAN
  BY <1>1, LeftKeeps DEF WriteSlot
<1>3. /\ storage' \in [Slots -> SlotValue \cup UID]
      /\ storage'["profile"] \in UID \cup {Missing}
      /\ \A s \in LibrarySlots : storage'[s] \in SafeValue
  BY <1>1 DEF WriteSlot, Inv, TypeOK, SafeWrite, SafeValue, Slots, LibrarySlots
<1> QED
  BY <1>2, <1>3, InvAfter DEF WriteSlot, Inv, TypeOK

LEMMA WriteFailsKeeps ==
  ASSUME Inv, NEW w \in Running, WriteFails(w)
  PROVE  Inv'
<1>1. queue # <<>> /\ Running \subseteq SafeWrite
  BY RunningIsSafe
<1>2. PICK rest \in SUBSET Running :
        failed' = failed \cup {v.slot : v \in Running \ rest} /\ Left(rest)
  BY DEF WriteFails
<1>3. queue' \in Seq(SafeJobs) /\ torn' \in BOOLEAN
  BY <1>1, <1>2, LeftKeeps
<1>4. failed' \subseteq Slots
  BY <1>1, <1>2 DEF Inv, TypeOK, SafeWrite, Slots
<1> QED
  BY <1>3, <1>4, InvAfter DEF WriteFails, Inv, TypeOK

LEMMA RestartKeeps ==
  ASSUME Inv, Restart
  PROVE  Inv'
<1>1. LoadedUid(storage) \in UID
  BY DEF LoadedUid, Inv, TypeOK, UID
<1>2. /\ library' \in LibraryBucket /\ library'.uid = uid' /\ OwnersAgree(library')
  BY <1>1, LoadedKeeps DEF Restart, Inv
<1>3. queue' \in Seq(SafeJobs) /\ torn' \in BOOLEAN
  BY DEF Restart, Inv, TypeOK
<1> QED
  BY <1>1, <1>2, <1>3, InvAfter DEF Restart, Inv, TypeOK

LEMMA InitInv == Init => Inv
<1> SUFFICES ASSUME Init PROVE Inv
  OBVIOUS
<1>1. library \in LibraryBucket /\ library.uid = NoUser /\ OwnersAgree(library)
  BY NewEmpty DEF Init, UID
<1>2. queue \in Seq(SafeJobs) /\ queue \in Seq(Jobs)
  BY DEF Init
<1> QED
  BY <1>1, <1>2 DEF Init, Inv, TypeOK, UID, Slots, LibrarySlots, SlotValue, SafeValue

LEMMA NextInv == Inv /\ [Next]_vars => Inv'
<1> SUFFICES ASSUME Inv, [Next]_vars PROVE Inv'
  OBVIOUS
<1>1. ASSUME NEW id \in Ids, NEW body \in Bodies, NEW now \in Stamps,
             UpdateLibraryItem(id, body, now)
      PROVE  Inv'
  BY <1>1, UpdateLibraryItemKeeps
<1>2. ASSUME NEW u \in Users, NEW id \in Ids, NEW body \in Bodies, NEW now \in Stamps,
             RemoteWrite(u, id, body, now)
      PROVE  Inv'
  <2>1. versions' \subseteq [id : Ids, item : Item]
    BY <1>2 DEF RemoteWrite, Inv, TypeOK, Item, Stamps, UID
  <2> QED
    BY <1>2, <2>1, InvAfter DEF RemoteWrite, Inv, TypeOK
<1>3. CASE LibraryPullResult
  BY <1>3, LibraryPullResultKeeps
<1>4. ASSUME NEW u \in Users, CtxAuthResult(u)
      PROVE  Inv'
  BY <1>4, CtxAuthResultKeeps
<1>5. CASE Logout
  <2>1. Replace(NoUser, New(NoUser, NoItems)) /\ NoUser \in UID
    BY <1>5 DEF Logout, UID
  <2> QED
    BY <2>1, NewEmpty, ReplaceKeeps
<1>6. ASSUME NEW w \in Running, WriteSlot(w) \/ WriteFails(w)
      PROVE  Inv'
  BY <1>6, WriteSlotKeeps, WriteFailsKeeps
<1>7. CASE Restart
  BY <1>7, RestartKeeps
<1>8. CASE UNCHANGED vars
  BY <1>8, InvAfter DEF vars, Inv, TypeOK
<1> QED
  BY <1>1, <1>2, <1>3, <1>4, <1>5, <1>6, <1>7, <1>8 DEF Next
-----------------------------------------------------------------------------
\* The invariant the theorems below rest on.
LEMMA SpecInv == Spec => []Inv
  BY InitInv, NextInv, PTL DEF Spec

\* Every variable keeps its type: the account, both kinds of slot values and the
\* jobs of the executor stay what the code's types allow, through failures and
\* restarts.
THEOREM TypeCorrect == Spec => []TypeOK
<1>1. Inv => TypeOK
  BY DEF Inv
<1> QED
  BY <1>1, SpecInv, PTL

\* The library in memory is the profile's, and none of its items was written
\* under another account, for any number of accounts and items and whatever the
\* executor had written when the process stopped.
THEOREM Isolation == Spec => []AccountIsolation
<1>1. Inv => AccountIsolation
  BY DEF Inv, AccountIsolation, OwnersAgree, Present
<1> QED
  BY <1>1, SpecInv, PTL
-----------------------------------------------------------------------------
(***************************************************************************)
(* Proofs that a restart loses nothing: DrainedIsRecoverable and           *)
(* LostOnlyWhatWaits, for any items, accounts and size of the recent slot. *)
(*                                                                         *)
(* Most jobs write the recent slot only, so that what the other slot has   *)
(* must fit what is written long after it.  Leaves says what a slot will   *)
(* hold once the first i jobs are done, as far as it can be known: not     *)
(* when its last write failed or the process began from slots that one job *)
(* had written in part.  The invariant says that the two slots are one     *)
(* library cut in two after any number of jobs (Chained), which is what a  *)
(* restart needs, and the library in memory after all of them (Follows),   *)
(* which is what the next job needs.  That a job may leave the other slot  *)
(* alone rests on the recent items being determined: no two versions have  *)
(* the same time (Known).                                                  *)
(***************************************************************************)

Asks(job, s) == \E w \in job.all : w.slot = s
Sets(job, s, v) == \E w \in job.all : w.slot = s /\ w.value = v

\* After the first i jobs of q, the slot s will hold v.
Leaves(q, store, bad, s, i, v) ==
  \/ \E k \in 1 .. i : Sets(q[k], s, v) /\ \A j \in (k + 1) .. i : ~Asks(q[j], s)
  \/ v = store[s] /\ s \notin bad /\ \A j \in 1 .. i : ~Asks(q[j], s)

\* The slots that hold something else than what was written last.
Bad == failed \cup {s \in LibrarySlots : torn}

\* A library and its parts in the two slots.
RecentOf(b, v) == \E R \in Recents(b.items) : v = New(b.uid, Part(b.items, R))
OthersOf(b, v) ==
  \/ \E R \in Recents(b.items) : v = New(b.uid, Part(b.items, Ids \ R))
  \/ v = Missing /\ Present(b.items) \in Recents(b.items)
Alien(b, v) == b.items = NoItems /\ (v = Missing \/ v.uid # b.uid)

Pair(b, R, r, o) ==
  /\ r = New(b.uid, Part(b.items, R))
  /\ \/ o = New(b.uid, Part(b.items, Ids \ R))
     \/ o = Missing /\ R = Present(b.items)

Paired(r, o) ==
  \/ r = Missing /\ o = Missing
  \/ \E b \in LibraryBucket : \E R \in Recents(b.items) : Pair(b, R, r, o)

Shaped(job) ==
  /\ job.all \subseteq SafeWrite
  /\ job.todo \subseteq job.all
  /\ \A v, w \in job.all : v.slot = w.slot => v = w
  /\ Asks(job, "library") => Asks(job, "library_recent")

Orderly(q) ==
  /\ q \in Seq(SafeJobs)
  /\ \A i \in 1 .. Len(q) : Shaped(q[i]) /\ (i # 1 => q[i].todo = q[i].all)

Chained(q, store, bad) ==
  \A i \in 0 .. Len(q) : \A r, o :
    /\ i = 0 /\ q # <<>> => q[1].todo = q[1].all
    /\ Leaves(q, store, bad, "library_recent", i, r)
    /\ Leaves(q, store, bad, "library", i, o)
    => Paired(r, o)

ProfileFollows(q, store, bad, u) ==
  \A v : Leaves(q, store, bad, "profile", Len(q), v) => v = u \/ (v = Missing /\ u = NoUser)

LibraryFollows(q, store, bad, b) ==
  /\ \A v : Leaves(q, store, bad, "library_recent", Len(q), v) => RecentOf(b, v) \/ Alien(b, v)
  /\ \A v : Leaves(q, store, bad, "library", Len(q), v) => OthersOf(b, v) \/ Alien(b, v)

\* Each slot has a value in the end.
Ends(q, store) == \A s \in Slots : \E v : Leaves(q, store, {}, s, Len(q), v)

\* The items of a bucket are versions somebody wrote.
From(b, V) == \A id \in Ids : b.items[id] # Absent => [id |-> id, item |-> b.items[id]] \in V

Distinct(V) == \A v, w \in V : v.item.mtime = w.item.mtime => v = w

JobFrom(job, V) == \A w \in job.all : w.slot \in LibrarySlots /\ w.value # Missing => From(w.value, V)

Known ==
  /\ Distinct(versions)
  /\ From(library, versions)
  /\ \A s \in LibrarySlots : storage[s] # Missing => From(storage[s], versions)

\* The jobs write versions, and what the one that runs has done is in the slots, or
\* failed.
Waiting(q, store, lost, V) ==
  /\ \A i \in 1 .. Len(q) : JobFrom(q[i], V) /\ q[i].todo # {}
  /\ q # <<>> => \A w \in q[1].all \ q[1].todo : w.slot \in lost \/ store[w.slot] = w.value

Recovers ==
  /\ Known /\ Orderly(queue)
  /\ Waiting(queue, storage, failed, versions)
  /\ Chained(queue, storage, Bad)
  /\ ProfileFollows(queue, storage, Bad, uid)
  /\ LibraryFollows(queue, storage, Bad, library)
  /\ Ends(queue, storage)
-----------------------------------------------------------------------------
(* The recent items. *)

LEMMA PresentIsFinite ==
  ASSUME NEW items
  PROVE  /\ IsFiniteSet(Present(items)) /\ Cardinality(Present(items)) \in Nat
         /\ \A R \in SUBSET Present(items) : IsFiniteSet(R) /\ Cardinality(R) \in Nat
<1>1. Present(items) \in SUBSET Ids
  BY DEF Present
<1>2. \A R \in SUBSET Ids : IsFiniteSet(R) /\ Cardinality(R) \in Nat
  BY IdsAssumption, FS_Subset, FS_CardinalityType
<1> QED
  BY <1>1, <1>2

LEMMA RecentsAreOne ==
  ASSUME NEW items \in ItemMap,
         \A i, j \in Present(items) : items[i].mtime = items[j].mtime => i = j,
         NEW R \in Recents(items), NEW T \in Recents(items)
  PROVE  R = T
<1>1. /\ R \in SUBSET Present(items) /\ T \in SUBSET Present(items)
      /\ Cardinality(R) = Cardinality(T) /\ IsFiniteSet(R) /\ IsFiniteSet(T)
  BY PresentIsFinite DEF Recents
<1>2. ASSUME R # T
      PROVE  FALSE
  <2>1. PICK i \in R : i \notin T
    BY <1>1, <1>2, FS_Subset
  <2>2. PICK j \in T : j \notin R
    BY <1>1, <1>2, FS_Subset
  <2>3. items[i].mtime >= items[j].mtime /\ items[j].mtime >= items[i].mtime
    BY <1>1, <2>1, <2>2 DEF Recents
  <2>4. items[i].mtime \in Nat /\ items[j].mtime \in Nat
    BY <1>1, <2>1, <2>2 DEF Present, ItemMap, Item
  <2> QED
    BY <1>1, <2>1, <2>2, <2>3, <2>4
<1> QED
  BY <1>2

LEMMA SmallIsRecent ==
  ASSUME NEW items \in ItemMap
  PROVE  /\ Cardinality(Present(items)) <= LIBRARY_RECENT_COUNT =>
              /\ Present(items) \in Recents(items)
              /\ \A R \in Recents(items) : R = Present(items)
         /\ Present(items) \in Recents(items) => Cardinality(Present(items)) <= LIBRARY_RECENT_COUNT
         /\ Cardinality(Present(items)) > LIBRARY_RECENT_COUNT =>
              \A R \in Recents(items) : Cardinality(R) = LIBRARY_RECENT_COUNT
<1>1. LIBRARY_RECENT_COUNT \in Nat
  BY RecentCountAssumption
<1>2. Cardinality(Present(items)) \in Nat /\ IsFiniteSet(Present(items))
  BY PresentIsFinite
<1>3. \A R \in Recents(items) : R \in SUBSET Present(items) /\ Cardinality(R) = RecentSize(items)
  BY DEF Recents
<1>4. ASSUME Cardinality(Present(items)) <= LIBRARY_RECENT_COUNT, NEW R \in Recents(items)
      PROVE  R = Present(items)
  BY <1>2, <1>3, <1>4, FS_Subset DEF RecentSize
<1> QED
  BY <1>1, <1>2, <1>3, <1>4 DEF Recents, RecentSize

LEMMA OneVersionATime ==
  ASSUME NEW b \in LibraryBucket, NEW V, From(b, V), Distinct(V)
  PROVE  \A i, j \in Present(b.items) : b.items[i].mtime = b.items[j].mtime => i = j
<1> SUFFICES ASSUME NEW i \in Present(b.items), NEW j \in Present(b.items),
                    b.items[i].mtime = b.items[j].mtime
             PROVE  i = j
  OBVIOUS
<1> DEFINE v == [id |-> i, item |-> b.items[i]]
           w == [id |-> j, item |-> b.items[j]]
<1>1. v \in V /\ w \in V /\ v.item = b.items[i] /\ w.item = b.items[j] /\ v.id = i /\ w.id = j
  BY DEF From, Present
<1> HIDE DEF v, w
<1> QED
  BY <1>1 DEF Distinct

\* Touching recent items leaves the recent ones the same.
LEMMA RecentsStay ==
  ASSUME NEW items \in ItemMap, NEW new \in ItemMap, NEW R \in Recents(items), Present(new) \subseteq R
  PROVE  /\ R \in Recents(MergeItems(items, new))
         /\ Present(MergeItems(items, new)) = Present(items)
         /\ Part(MergeItems(items, new), Ids \ R) = Part(items, Ids \ R)
<1> DEFINE after == MergeItems(items, new)
<1>1. R \subseteq Present(items) /\ Present(items) \subseteq Ids
  BY DEF Recents, Present
<1>2. \A id \in Ids \ R : after[id] = items[id]
  BY DEF MergeItems, Present
<1>3. \A id \in R : /\ after[id] # Absent /\ after[id].mtime >= items[id].mtime
                    /\ after[id] \in Item /\ items[id] \in Item
  BY <1>1 DEF MergeItems, Present, ItemMap, Item
<1>4. Present(after) = Present(items)
  BY <1>1, <1>2, <1>3 DEF Present
<1>5. \A r \in R, o \in Present(items) \ R : after[r].mtime >= after[o].mtime
  <2> SUFFICES ASSUME NEW r \in R, NEW o \in Present(items) \ R
               PROVE  after[r].mtime >= after[o].mtime
    OBVIOUS
  <2>1. items[r].mtime >= items[o].mtime /\ after[o] = items[o] /\ items[o] \in Item
    BY <1>1, <1>2 DEF Recents, ItemMap, Present
  <2> QED
    BY <1>3, <2>1 DEF Item
<1>6. R \in Recents(after)
  BY <1>4, <1>5 DEF Recents, RecentSize
<1>7. Part(after, Ids \ R) = Part(items, Ids \ R)
  BY <1>2 DEF Part
<1> QED
  BY <1>4, <1>6, <1>7
-----------------------------------------------------------------------------
(* Queues that grow. *)

LEMMA AppendedAt ==
  ASSUME NEW q \in Seq(SafeJobs), NEW job \in SafeJobs
  PROVE  /\ Len(Append(q, job)) = Len(q) + 1 /\ Len(q) \in Nat /\ Append(q, job) \in Seq(SafeJobs)
         /\ \A i \in 1 .. Len(q) : Append(q, job)[i] = q[i]
         /\ Append(q, job)[Len(q) + 1] = job
         /\ Append(q, job) # <<>>
         /\ q = <<>> <=> Len(q) = 0
OBVIOUS

LEMMA AppendLeaves ==
  ASSUME NEW q \in Seq(SafeJobs), NEW job \in SafeJobs, NEW store, NEW bad, NEW s, NEW v
  PROVE  /\ \A i \in 0 .. Len(q) :
              Leaves(Append(q, job), store, bad, s, i, v) <=> Leaves(q, store, bad, s, i, v)
         /\ Leaves(Append(q, job), store, bad, s, Len(q) + 1, v) <=>
              Sets(job, s, v) \/ (~Asks(job, s) /\ Leaves(q, store, bad, s, Len(q), v))
<1> DEFINE a == Append(q, job)
           n == Len(q)
<1>1. n \in Nat /\ (\A i \in 1 .. n : a[i] = q[i]) /\ a[n + 1] = job
  BY AppendedAt
<1> HIDE DEF a, n
<1>2. ASSUME NEW i \in 0 .. n
      PROVE  Leaves(a, store, bad, s, i, v) <=> Leaves(q, store, bad, s, i, v)
  BY <1>1, <1>2 DEF Leaves
<1>3. ASSUME Leaves(a, store, bad, s, n + 1, v)
      PROVE  Sets(job, s, v) \/ (~Asks(job, s) /\ Leaves(q, store, bad, s, n, v))
  <2>1. CASE \E k \in 1 .. n + 1 : Sets(a[k], s, v) /\ \A j \in (k + 1) .. (n + 1) : ~Asks(a[j], s)
    <3>1. PICK k \in 1 .. n + 1 : Sets(a[k], s, v) /\ \A j \in (k + 1) .. (n + 1) : ~Asks(a[j], s)
      BY <2>1
    <3>2. CASE k = n + 1
      BY <1>1, <3>1, <3>2
    <3>3. CASE k # n + 1
      <4>1. k \in 1 .. n /\ n + 1 \in (k + 1) .. (n + 1)
        BY <1>1, <3>3
      <4>2. Sets(q[k], s, v) /\ ~Asks(job, s) /\ \A j \in (k + 1) .. n : ~Asks(q[j], s)
        BY <1>1, <3>1, <4>1
      <4> QED
        BY <4>1, <4>2 DEF Leaves
    <3> QED
      BY <3>2, <3>3
  <2>2. CASE v = store[s] /\ s \notin bad /\ \A j \in 1 .. n + 1 : ~Asks(a[j], s)
    <3>1. ~Asks(job, s) /\ \A j \in 1 .. n : ~Asks(q[j], s)
      BY <1>1, <2>2
    <3> QED
      BY <2>2, <3>1 DEF Leaves
  <2> QED
    BY <1>3, <2>1, <2>2 DEF Leaves
<1>4. ASSUME Sets(job, s, v)
      PROVE  Leaves(a, store, bad, s, n + 1, v)
  <2>1. Sets(a[n + 1], s, v) /\ n + 1 \in 1 .. n + 1 /\ (n + 2) .. (n + 1) = {}
    BY <1>1, <1>4
  <2> QED
    BY <1>1, <2>1 DEF Leaves
<1>5. ASSUME ~Asks(job, s), Leaves(q, store, bad, s, n, v)
      PROVE  Leaves(a, store, bad, s, n + 1, v)
  <2>1. \A j \in 1 .. n + 1 : j \in 1 .. n \/ j = n + 1
    BY <1>1
  <2>2. \A j \in 1 .. n + 1 : ~Asks(q[j], s) \/ j = n + 1 => ~Asks(a[j], s)
    BY <1>1, <1>5, <2>1
  <2>3. CASE v = store[s] /\ s \notin bad /\ \A j \in 1 .. n : ~Asks(q[j], s)
    BY <2>1, <2>2, <2>3 DEF Leaves
  <2>4. ASSUME NEW k \in 1 .. n, Sets(q[k], s, v), \A j \in (k + 1) .. n : ~Asks(q[j], s)
        PROVE  Leaves(a, store, bad, s, n + 1, v)
    <3>1. k \in 1 .. n + 1 /\ Sets(a[k], s, v)
      BY <1>1, <2>4
    <3>2. \A j \in (k + 1) .. (n + 1) : ~Asks(a[j], s)
      BY <1>1, <2>1, <2>2, <2>4
    <3> QED
      BY <3>1, <3>2 DEF Leaves
  <2> QED
    BY <1>5, <2>3, <2>4 DEF Leaves
<1> QED
  BY <1>2, <1>3, <1>4, <1>5 DEF a, n

\* A job whose writes fit what the other slot is left with keeps the chain.
LEMMA AppendChains ==
  ASSUME NEW q, Orderly(q), NEW job \in SafeJobs, Shaped(job), job.todo = job.all,
         NEW store, NEW bad, Chained(q, store, bad),
         \A r, o : /\ Leaves(Append(q, job), store, bad, "library_recent", Len(q) + 1, r)
                   /\ Leaves(Append(q, job), store, bad, "library", Len(q) + 1, o)
                   => Paired(r, o)
  PROVE  Orderly(Append(q, job)) /\ Chained(Append(q, job), store, bad)
<1> DEFINE a == Append(q, job)
<1>1. /\ Len(a) = Len(q) + 1 /\ Len(q) \in Nat /\ a \in Seq(SafeJobs)
      /\ \A i \in 1 .. Len(q) : a[i] = q[i]
      /\ a[Len(q) + 1] = job /\ a # <<>> /\ (q = <<>> <=> Len(q) = 0)
  BY AppendedAt DEF Orderly
<1>2. \A s, v : \A i \in 0 .. Len(q) : Leaves(a, store, bad, s, i, v) <=> Leaves(q, store, bad, s, i, v)
  BY AppendLeaves DEF Orderly
<1>3. \A r, o : /\ Leaves(a, store, bad, "library_recent", Len(q) + 1, r)
                /\ Leaves(a, store, bad, "library", Len(q) + 1, o)
                => Paired(r, o)
  OBVIOUS
<1> HIDE DEF a
<1>4. Orderly(a)
  <2>1. ASSUME NEW i \in 1 .. Len(a)
        PROVE  Shaped(a[i]) /\ (i # 1 => a[i].todo = a[i].all)
    <3>1. i \in 1 .. Len(q) \/ i = Len(q) + 1
      BY <1>1
    <3> QED
      BY <1>1, <3>1 DEF Orderly
  <2> QED
    BY <1>1, <2>1 DEF Orderly
<1>5. Chained(a, store, bad)
  <2> SUFFICES ASSUME NEW i \in 0 .. Len(a), NEW r, NEW o,
                      i = 0 => a[1].todo = a[1].all,
                      Leaves(a, store, bad, "library_recent", i, r),
                      Leaves(a, store, bad, "library", i, o)
               PROVE  Paired(r, o)
    BY <1>1 DEF Chained
  <2>1. i \in 0 .. Len(q) \/ i = Len(q) + 1
    BY <1>1
  <2>2. CASE i = Len(q) + 1
    BY <1>3, <2>2
  <2>3. CASE i \in 0 .. Len(q)
    <3>1. Leaves(q, store, bad, "library_recent", i, r) /\ Leaves(q, store, bad, "library", i, o)
      BY <1>2, <2>3
    <3>2. i = 0 /\ q # <<>> => q[1].todo = q[1].all
      BY <1>1
    <3> QED
      BY <2>3, <3>1, <3>2 DEF Chained
  <2> QED
    BY <2>1, <2>2, <2>3
<1> QED
  BY <1>4, <1>5 DEF a

LEMMA AppendEnds ==
  ASSUME NEW q \in Seq(SafeJobs), NEW job \in SafeJobs, NEW store, Ends(q, store)
  PROVE  Ends(Append(q, job), store)
<1> SUFFICES ASSUME NEW s \in Slots
             PROVE  \E v : Leaves(Append(q, job), store, {}, s, Len(q) + 1, v)
  BY AppendedAt DEF Ends
<1>1. CASE Asks(job, s)
  <2>1. PICK v : Sets(job, s, v)
    BY <1>1 DEF Asks, Sets
  <2> QED
    BY <2>1, AppendLeaves
<1>2. CASE ~Asks(job, s)
  BY <1>2, AppendLeaves DEF Ends
<1> QED
  BY <1>1, <1>2
-----------------------------------------------------------------------------
(* The jobs. *)

RecentWrite(r) == [slot |-> "library_recent", value |-> r]
OthersWrite(o) == [slot |-> "library", value |-> o]

LEMMA ProfileJob ==
  ASSUME NEW u \in UID
  PROVE  LET job == Job({WriteProfile(u)}) IN
         /\ job \in SafeJobs /\ Shaped(job) /\ job.todo = job.all /\ job.todo # {}
         /\ \A s : Asks(job, s) <=> s = "profile"
         /\ \A v : Sets(job, "profile", v) <=> v = u
<1> DEFINE job == Job({WriteProfile(u)})
<1>1. job \in SafeJobs
  BY ProfileJobKeeps
<1>2. job.all = {[slot |-> "profile", value |-> u]} /\ job.todo = job.all
  BY DEF Job, WriteProfile
<1> HIDE DEF job
<1>3. job.all \subseteq SafeWrite
  BY <1>1 DEF SafeJobs
<1>4. job.todo # {} /\ (\A s : Asks(job, s) <=> s = "profile") /\ \A v : Sets(job, "profile", v) <=> v = u
  BY <1>2 DEF Asks, Sets
<1>5. Shaped(job)
  BY <1>2, <1>3, <1>4 DEF Shaped
<1> QED
  BY <1>1, <1>2, <1>4, <1>5 DEF job

LEMMA WholeJob ==
  ASSUME NEW r \in SafeValue, NEW o \in SafeValue
  PROVE  LET job == Job({RecentWrite(r), OthersWrite(o)}) IN
         /\ job \in SafeJobs /\ Shaped(job) /\ job.todo = job.all /\ job.todo # {}
         /\ \A s : Asks(job, s) <=> s \in LibrarySlots
         /\ \A v : Sets(job, "library_recent", v) <=> v = r
         /\ \A v : Sets(job, "library", v) <=> v = o
<1> DEFINE job == Job({RecentWrite(r), OthersWrite(o)})
<1>1. job.all = {[slot |-> "library_recent", value |-> r], [slot |-> "library", value |-> o]}
      /\ job.todo = job.all
  BY DEF Job, RecentWrite, OthersWrite
<1>2. RecentWrite(r) \in SafeWrite /\ OthersWrite(o) \in SafeWrite
  BY DEF RecentWrite, OthersWrite, SafeWrite, LibrarySlots
<1>3. {RecentWrite(r), OthersWrite(o)} \in SUBSET SafeWrite
  BY <1>2
<1>4. job \in SafeJobs
  BY <1>3, JobKeeps
<1>5. job.all \subseteq SafeWrite
  BY <1>4 DEF SafeJobs
<1> HIDE DEF job
<1>6. /\ job.todo # {}
      /\ \A s : Asks(job, s) <=> s \in LibrarySlots
      /\ \A v : Sets(job, "library_recent", v) <=> v = r
      /\ \A v : Sets(job, "library", v) <=> v = o
  BY <1>1 DEF Asks, Sets, LibrarySlots
<1>7. \A v, w \in job.all : v.slot = w.slot => v = w
  BY <1>1
<1>8. Shaped(job)
  BY <1>1, <1>5, <1>6, <1>7 DEF Shaped, LibrarySlots
<1> QED
  BY <1>1, <1>4, <1>6, <1>8 DEF job

LEMMA RecentJob ==
  ASSUME NEW r \in SafeValue
  PROVE  LET job == Job({RecentWrite(r)}) IN
         /\ job \in SafeJobs /\ Shaped(job) /\ job.todo = job.all /\ job.todo # {}
         /\ \A s : Asks(job, s) <=> s = "library_recent"
         /\ \A v : Sets(job, "library_recent", v) <=> v = r
<1> DEFINE job == Job({RecentWrite(r)})
<1>1. job.all = {[slot |-> "library_recent", value |-> r]} /\ job.todo = job.all
  BY DEF Job, RecentWrite
<1>2. {RecentWrite(r)} \in SUBSET SafeWrite
  BY DEF RecentWrite, SafeWrite, LibrarySlots
<1>3. job \in SafeJobs
  BY <1>2, JobKeeps
<1>4. job.all \subseteq SafeWrite
  BY <1>3 DEF SafeJobs
<1> HIDE DEF job
<1>5. /\ job.todo # {}
      /\ \A s : Asks(job, s) <=> s = "library_recent"
      /\ \A v : Sets(job, "library_recent", v) <=> v = r
  BY <1>1 DEF Asks, Sets
<1>6. Shaped(job)
  BY <1>1, <1>4, <1>5 DEF Shaped
<1> QED
  BY <1>1, <1>3, <1>5, <1>6 DEF job

\* The writes of a job carry what the library holds.
LEMMA PartFrom ==
  ASSUME NEW b \in LibraryBucket, NEW V, From(b, V), NEW S
  PROVE  From(New(b.uid, Part(b.items, S)), V)
BY DEF From, New, Part

LEMMA PairIsSafe ==
  ASSUME NEW b \in LibraryBucket, OwnersAgree(b), NEW V, From(b, V), NEW R, NEW r, NEW o, Pair(b, R, r, o)
  PROVE  /\ r \in SafeValue /\ o \in SafeValue
         /\ r # Missing => From(r, V)
         /\ o # Missing => From(o, V)
<1>1. Missing \in SafeValue
  BY DEF SafeValue, SlotValue
<1> QED
  BY <1>1, NewPartKeeps, PartFrom DEF Pair

LEMMA AppendProfile ==
  ASSUME NEW q, Orderly(q), NEW store, NEW bad, Chained(q, store, bad), Ends(q, store), NEW u \in UID
  PROVE  LET a == Append(q, Job({WriteProfile(u)})) IN
         /\ Orderly(a) /\ Chained(a, store, bad) /\ Ends(a, store)
         /\ ProfileFollows(a, store, bad, u)
         /\ \A b : LibraryFollows(q, store, bad, b) => LibraryFollows(a, store, bad, b)
<1> DEFINE job == Job({WriteProfile(u)})
           a == Append(q, job)
<1>1. /\ job \in SafeJobs /\ Shaped(job) /\ job.todo = job.all
      /\ \A s : Asks(job, s) <=> s = "profile"
      /\ \A v : Sets(job, "profile", v) <=> v = u
  BY ProfileJob
<1>2. \A s, v : Sets(job, s, v) => Asks(job, s)
  BY DEF Sets, Asks
<1> HIDE DEF job
<1>3. q \in Seq(SafeJobs) /\ Len(a) = Len(q) + 1 /\ Len(q) \in Nat /\ (q = <<>> <=> Len(q) = 0)
  BY <1>1, AppendedAt DEF Orderly
<1>4. \A s, v : Leaves(a, store, bad, s, Len(q) + 1, v) <=>
                  Sets(job, s, v) \/ (~Asks(job, s) /\ Leaves(q, store, bad, s, Len(q), v))
  BY <1>1, <1>3, AppendLeaves
<1>5. ASSUME NEW r, NEW o, Leaves(a, store, bad, "library_recent", Len(q) + 1, r),
             Leaves(a, store, bad, "library", Len(q) + 1, o)
      PROVE  Paired(r, o)
  <2>1. Leaves(q, store, bad, "library_recent", Len(q), r) /\ Leaves(q, store, bad, "library", Len(q), o)
    BY <1>1, <1>2, <1>4, <1>5
  <2> QED
    BY <1>3, <2>1 DEF Chained
<1>6. Orderly(a) /\ Chained(a, store, bad)
  BY <1>1, <1>5, AppendChains
<1>7. Ends(a, store)
  BY <1>1, <1>3, AppendEnds
<1>8. ProfileFollows(a, store, bad, u)
  BY <1>1, <1>3, <1>4 DEF ProfileFollows
<1>9. ASSUME NEW b, LibraryFollows(q, store, bad, b)
      PROVE  LibraryFollows(a, store, bad, b)
  <2>1. \A v : /\ Leaves(a, store, bad, "library_recent", Len(a), v) => Leaves(q, store, bad, "library_recent", Len(q), v)
               /\ Leaves(a, store, bad, "library", Len(a), v) => Leaves(q, store, bad, "library", Len(q), v)
    BY <1>1, <1>2, <1>3, <1>4
  <2> QED
    BY <1>9, <2>1 DEF LibraryFollows
<1> QED
  BY <1>6, <1>7, <1>8, <1>9 DEF job

\* A job that writes both slots.
LEMMA AppendWhole ==
  ASSUME NEW q, Orderly(q), NEW store, NEW bad, Chained(q, store, bad), Ends(q, store),
         NEW b \in LibraryBucket, NEW R \in Recents(b.items), NEW r \in SafeValue, NEW o \in SafeValue,
         Pair(b, R, r, o)
  PROVE  LET a == Append(q, Job({RecentWrite(r), OthersWrite(o)})) IN
         /\ Orderly(a) /\ Chained(a, store, bad) /\ Ends(a, store)
         /\ LibraryFollows(a, store, bad, b)
         /\ \A u : ProfileFollows(q, store, bad, u) => ProfileFollows(a, store, bad, u)
<1> DEFINE job == Job({RecentWrite(r), OthersWrite(o)})
           a == Append(q, job)
<1>1. /\ job \in SafeJobs /\ Shaped(job) /\ job.todo = job.all
      /\ \A s : Asks(job, s) <=> s \in LibrarySlots
      /\ \A v : Sets(job, "library_recent", v) <=> v = r
      /\ \A v : Sets(job, "library", v) <=> v = o
  BY WholeJob
<1>2. \A s, v : Sets(job, s, v) => Asks(job, s)
  BY DEF Sets, Asks
<1> HIDE DEF job
<1>3. q \in Seq(SafeJobs) /\ Len(a) = Len(q) + 1 /\ Len(q) \in Nat
  BY <1>1, AppendedAt DEF Orderly
<1>4. \A s, v : Leaves(a, store, bad, s, Len(q) + 1, v) <=>
                  Sets(job, s, v) \/ (~Asks(job, s) /\ Leaves(q, store, bad, s, Len(q), v))
  BY <1>1, <1>3, AppendLeaves
<1>5. \A v : /\ Leaves(a, store, bad, "library_recent", Len(q) + 1, v) => v = r
             /\ Leaves(a, store, bad, "library", Len(q) + 1, v) => v = o
  BY <1>1, <1>4 DEF LibrarySlots
<1>6. Paired(r, o)
  BY DEF Paired
<1>7. Orderly(a) /\ Chained(a, store, bad)
  BY <1>1, <1>5, <1>6, AppendChains
<1>8. Ends(a, store)
  BY <1>1, <1>3, AppendEnds
<1>9. LibraryFollows(a, store, bad, b)
  BY <1>3, <1>5 DEF LibraryFollows, Pair, RecentOf, OthersOf
<1>10. ASSUME NEW u, ProfileFollows(q, store, bad, u)
       PROVE  ProfileFollows(a, store, bad, u)
  BY <1>1, <1>2, <1>3, <1>4, <1>10 DEF ProfileFollows, LibrarySlots
<1> QED
  BY <1>7, <1>8, <1>9, <1>10 DEF job

\* A job that writes the recent slot only, when the other one fits.
LEMMA AppendRecent ==
  ASSUME NEW q, Orderly(q), NEW store, NEW bad, Chained(q, store, bad), Ends(q, store),
         NEW b \in LibraryBucket, NEW R \in Recents(b.items), NEW r \in SafeValue,
         r = New(b.uid, Part(b.items, R)),
         \A o : Leaves(q, store, bad, "library", Len(q), o) => Pair(b, R, r, o)
  PROVE  LET a == Append(q, Job({RecentWrite(r)})) IN
         /\ Orderly(a) /\ Chained(a, store, bad) /\ Ends(a, store)
         /\ LibraryFollows(a, store, bad, b)
         /\ \A u : ProfileFollows(q, store, bad, u) => ProfileFollows(a, store, bad, u)
<1> DEFINE job == Job({RecentWrite(r)})
           a == Append(q, job)
<1>1. /\ job \in SafeJobs /\ Shaped(job) /\ job.todo = job.all
      /\ \A s : Asks(job, s) <=> s = "library_recent"
      /\ \A v : Sets(job, "library_recent", v) <=> v = r
  BY RecentJob
<1>2. \A s, v : Sets(job, s, v) => Asks(job, s)
  BY DEF Sets, Asks
<1> HIDE DEF job
<1>3. q \in Seq(SafeJobs) /\ Len(a) = Len(q) + 1 /\ Len(q) \in Nat
  BY <1>1, AppendedAt DEF Orderly
<1>4. \A s, v : Leaves(a, store, bad, s, Len(q) + 1, v) <=>
                  Sets(job, s, v) \/ (~Asks(job, s) /\ Leaves(q, store, bad, s, Len(q), v))
  BY <1>1, <1>3, AppendLeaves
<1>5. \A v : /\ Leaves(a, store, bad, "library_recent", Len(q) + 1, v) => v = r
             /\ Leaves(a, store, bad, "library", Len(q) + 1, v) => Pair(b, R, r, v)
  BY <1>1, <1>2, <1>4
<1>6. \A o : Pair(b, R, r, o) => Paired(r, o)
  BY DEF Paired
<1>7. Orderly(a) /\ Chained(a, store, bad)
  BY <1>1, <1>5, <1>6, AppendChains
<1>8. Ends(a, store)
  BY <1>1, <1>3, AppendEnds
<1>9. LibraryFollows(a, store, bad, b)
  BY <1>3, <1>5 DEF LibraryFollows, Pair, RecentOf, OthersOf
<1>10. ASSUME NEW u, ProfileFollows(q, store, bad, u)
       PROVE  ProfileFollows(a, store, bad, u)
  BY <1>1, <1>2, <1>3, <1>4, <1>10 DEF ProfileFollows
<1> QED
  BY <1>7, <1>8, <1>9, <1>10 DEF job

LEMMA AppendWaits ==
  ASSUME NEW q, q \in Seq(SafeJobs), NEW job \in SafeJobs, job.todo = job.all, job.todo # {},
         NEW store, NEW lost, NEW V, NEW W, V \subseteq W, Waiting(q, store, lost, V), JobFrom(job, W)
  PROVE  Waiting(Append(q, job), store, lost, W)
<1> DEFINE a == Append(q, job)
<1>1. /\ Len(a) = Len(q) + 1 /\ Len(q) \in Nat
      /\ \A i \in 1 .. Len(q) : a[i] = q[i]
      /\ a[Len(q) + 1] = job /\ (q = <<>> <=> Len(q) = 0)
  BY AppendedAt
<1> HIDE DEF a
<1>2. ASSUME NEW i \in 1 .. Len(a)
      PROVE  JobFrom(a[i], W) /\ a[i].todo # {}
  <2>1. i \in 1 .. Len(q) \/ i = Len(q) + 1
    BY <1>1
  <2> QED
    BY <1>1, <2>1 DEF Waiting, JobFrom, From
<1>3. \A w \in a[1].all \ a[1].todo : w.slot \in lost \/ store[w.slot] = w.value
  BY <1>1 DEF Waiting
<1> QED
  BY <1>2, <1>3 DEF Waiting, a
-----------------------------------------------------------------------------
(* The steps that add jobs. *)

\* Merging versions gives versions.
LEMMA MergeFrom ==
  ASSUME NEW b \in LibraryBucket, NEW V, From(b, V), NEW new \in ItemMap,
         \A id \in Ids : new[id] # Absent => [id |-> id, item |-> new[id]] \in V
  PROVE  From([b EXCEPT !.items = MergeItems(b.items, new)], V)
BY DEF From, LibraryBucket, MergeItems

LEMMA WholePart ==
  ASSUME NEW items \in ItemMap
  PROVE  Part(items, Ids) = Part(items, Present(items)) /\ Part(items, Ids) = items
BY DEF Part, Present, ItemMap

\* What a job of MergeAndPush leaves in the two slots.
LEMMA PushRecovers ==
  ASSUME Inv, Recovers, NEW V, versions \subseteq V, NEW after \in LibraryBucket, OwnersAgree(after),
         From(after, V), NEW R \in Recents(after.items), NEW r, NEW o, Pair(after, R, r, o),
         queue' = Append(queue, Job({RecentWrite(r), OthersWrite(o)}))
  PROVE  /\ Orderly(queue') /\ Waiting(queue', storage, failed, V) /\ Chained(queue', storage, Bad)
         /\ ProfileFollows(queue', storage, Bad, uid) /\ LibraryFollows(queue', storage, Bad, after)
         /\ Ends(queue', storage)
<1>1. /\ r \in SafeValue /\ o \in SafeValue
      /\ r # Missing => From(r, V)
      /\ o # Missing => From(o, V)
  BY PairIsSafe
<1> DEFINE job == Job({RecentWrite(r), OthersWrite(o)})
<1>2. JobFrom(job, V)
  BY <1>1 DEF JobFrom, Job, RecentWrite, OthersWrite
<1>3. job \in SafeJobs /\ job.todo = job.all /\ job.todo # {}
  BY <1>1, WholeJob
<1>4. queue \in Seq(SafeJobs)
  BY DEF Inv
<1>5. Waiting(Append(queue, job), storage, failed, V)
  BY <1>2, <1>3, <1>4, AppendWaits DEF Recovers
<1>6. /\ Orderly(queue') /\ Chained(queue', storage, Bad)
      /\ ProfileFollows(queue', storage, Bad, uid) /\ LibraryFollows(queue', storage, Bad, after)
      /\ Ends(queue', storage)
  BY <1>1, AppendWhole DEF Recovers
<1> QED
  BY <1>5, <1>6

\* Touching recent items needs no write of the other ones.
LEMMA TouchRecovers ==
  ASSUME Inv, Recovers, NEW V, versions \subseteq V, Distinct(V), NEW items \in ItemMap, Present(items) # {},
         \A id \in Ids : items[id] # Absent =>
           items[id].owner = uid /\ [id |-> id, item |-> items[id]] \in V,
         NEW after, after = [library EXCEPT !.items = MergeItems(library.items, items)],
         Cardinality(Present(after.items)) > LIBRARY_RECENT_COUNT,
         NEW T \in Recents(library.items), Present(items) \subseteq T, NEW R \in Recents(after.items),
         queue' = Append(queue, Job({WriteRecent(after, R)}))
  PROVE  /\ Orderly(queue') /\ Waiting(queue', storage, failed, V) /\ Chained(queue', storage, Bad)
         /\ ProfileFollows(queue', storage, Bad, uid) /\ LibraryFollows(queue', storage, Bad, after)
         /\ Ends(queue', storage)
<1>1. library \in LibraryBucket /\ library.items \in ItemMap /\ library.uid = uid /\ OwnersAgree(library)
      /\ From(library, versions) /\ queue \in Seq(SafeJobs)
  BY DEF Inv, TypeOK, LibraryBucket, Recovers, Known
<1>2. after \in LibraryBucket /\ OwnersAgree(after) /\ after.uid = uid
      /\ after.items = MergeItems(library.items, items) /\ after.items \in ItemMap
  <2>1. after \in LibraryBucket /\ after.uid = uid /\ OwnersAgree(after)
    BY <1>1, MergeKeeps
  <2> QED
    BY <1>1, <2>1 DEF LibraryBucket
<1>3. From(library, V)
  BY <1>1 DEF From
<1>4. From(after, V)
  BY <1>1, <1>3, MergeFrom
<1>5. /\ T \in Recents(after.items) /\ Present(after.items) = Present(library.items)
      /\ Part(after.items, Ids \ T) = Part(library.items, Ids \ T)
  BY <1>1, <1>2, RecentsStay
<1>6. R = T
  BY <1>2, <1>4, <1>5, OneVersionATime, RecentsAreOne
<1> DEFINE r == New(after.uid, Part(after.items, R))
<1>7. ASSUME NEW o, Leaves(queue, storage, Bad, "library", Len(queue), o)
      PROVE  Pair(after, R, r, o)
  <2>1. OthersOf(library, o) \/ Alien(library, o)
    BY <1>7 DEF Recovers, LibraryFollows
  <2>2. ~Alien(library, o)
    <3>1. PICK id \in Ids : id \in Present(items)
      BY DEF Present
    <3>2. library.items[id] # Absent
      BY <3>1 DEF Recents, Present
    <3> QED
      BY <3>2 DEF Alien, NoItems
  <2>3. ~(Present(library.items) \in Recents(library.items))
    <3>1. Cardinality(Present(library.items)) \in Nat /\ LIBRARY_RECENT_COUNT \in Nat
      BY PresentIsFinite, RecentCountAssumption
    <3> QED
      BY <1>1, <1>5, <3>1, SmallIsRecent
  <2>4. PICK S \in Recents(library.items) : o = New(library.uid, Part(library.items, Ids \ S))
    BY <2>1, <2>2, <2>3 DEF OthersOf
  <2>5. S = T
    BY <1>1, <1>3, <2>4, OneVersionATime, RecentsAreOne
  <2> QED
    BY <1>1, <1>2, <1>5, <1>6, <2>4, <2>5 DEF Pair
<1>8. r \in SafeValue /\ From(r, V) /\ r = New(after.uid, Part(after.items, R))
  BY <1>2, <1>4, NewPartKeeps, PartFrom
<1> HIDE DEF r
<1> DEFINE job == Job({RecentWrite(r)})
<1>9. queue' = Append(queue, job)
  BY DEF WriteRecent, RecentWrite, r
<1>10. JobFrom(job, V) /\ job \in SafeJobs /\ job.todo = job.all /\ job.todo # {}
  BY <1>8, RecentJob DEF JobFrom, Job, RecentWrite
<1>11. Waiting(Append(queue, job), storage, failed, V)
  BY <1>1, <1>10, AppendWaits DEF Recovers
<1>12. /\ Orderly(queue) /\ Chained(queue, storage, Bad) /\ Ends(queue, storage)
       /\ ProfileFollows(queue, storage, Bad, uid)
  BY DEF Recovers
<1>13. LET a == Append(queue, job) IN
       /\ Orderly(a) /\ Chained(a, storage, Bad) /\ Ends(a, storage)
       /\ LibraryFollows(a, storage, Bad, after)
       /\ \A u : ProfileFollows(queue, storage, Bad, u) => ProfileFollows(a, storage, Bad, u)
  <2> HIDE <1>9
  <2> QED
    BY <1>2, <1>7, <1>8, <1>12, AppendRecent
<1> QED
  BY <1>9, <1>11, <1>12, <1>13

LEMMA MergeAndPushRecovers ==
  ASSUME Inv, Recovers, NEW V, versions \subseteq V, Distinct(V), NEW items \in ItemMap, Present(items) # {},
         \A id \in Ids : items[id] # Absent =>
           items[id].owner = uid /\ [id |-> id, item |-> items[id]] \in V,
         MergeAndPush(items)
  PROVE  /\ Orderly(queue') /\ Waiting(queue', storage, failed, V) /\ Chained(queue', storage, Bad)
         /\ ProfileFollows(queue', storage, Bad, uid) /\ LibraryFollows(queue', storage, Bad, library')
         /\ Ends(queue', storage) /\ From(library', V)
<1> DEFINE after == [library EXCEPT !.items = MergeItems(library.items, items)]
<1>1. library' = after
  BY DEF MergeAndPush
<1>2. library \in LibraryBucket /\ library.uid = uid /\ OwnersAgree(library) /\ From(library, V)
  BY DEF Inv, TypeOK, Recovers, Known, From
<1>3. after \in LibraryBucket /\ OwnersAgree(after) /\ From(after, V)
  BY <1>2, MergeKeeps, MergeFrom
<1>4. after.items \in ItemMap
  BY <1>3 DEF LibraryBucket
<1>5. \/ /\ Cardinality(Present(after.items)) <= LIBRARY_RECENT_COUNT
         /\ queue' = Append(queue, Job({WriteRecent(after, Ids), RemoveOthers}))
      \/ \E T \in Recents(library.items), R \in Recents(after.items) :
           /\ Cardinality(Present(after.items)) > LIBRARY_RECENT_COUNT /\ Present(items) \subseteq T
           /\ queue' = Append(queue, Job({WriteRecent(after, R)}))
      \/ \E R \in Recents(after.items) :
           queue' = Append(queue, Job({WriteRecent(after, R), WriteOthers(after, R)}))
  BY DEF MergeAndPush, Enqueue
<1> DEFINE Goal == /\ Orderly(queue') /\ Waiting(queue', storage, failed, V) /\ Chained(queue', storage, Bad)
                   /\ ProfileFollows(queue', storage, Bad, uid) /\ LibraryFollows(queue', storage, Bad, after)
                   /\ Ends(queue', storage)
<1>6. ASSUME Cardinality(Present(after.items)) <= LIBRARY_RECENT_COUNT,
             queue' = Append(queue, Job({WriteRecent(after, Ids), RemoveOthers}))
      PROVE  Goal
  <2> HIDE DEF after
  <2> DEFINE R == Present(after.items)
             r == New(after.uid, Part(after.items, Ids))
  <2>1. R \in Recents(after.items)
    BY <1>4, <1>6, SmallIsRecent
  <2>2. Pair(after, R, r, Missing)
    BY <1>4, WholePart DEF Pair
  <2>3. queue' = Append(queue, Job({RecentWrite(r), OthersWrite(Missing)}))
    BY <1>6 DEF WriteRecent, RemoveOthers, RecentWrite, OthersWrite
  <2> HIDE DEF r, R
  <2> QED
    BY <1>3, <2>1, <2>2, <2>3, PushRecovers
<1>7. ASSUME NEW T \in Recents(library.items), NEW R \in Recents(after.items),
             Cardinality(Present(after.items)) > LIBRARY_RECENT_COUNT, Present(items) \subseteq T,
             queue' = Append(queue, Job({WriteRecent(after, R)}))
      PROVE  Goal
  BY <1>7, TouchRecovers
<1>8. ASSUME NEW R \in Recents(after.items),
             queue' = Append(queue, Job({WriteRecent(after, R), WriteOthers(after, R)}))
      PROVE  Goal
  <2> HIDE DEF after
  <2> DEFINE r == New(after.uid, Part(after.items, R))
             o == New(after.uid, Part(after.items, Ids \ R))
  <2>1. Pair(after, R, r, o)
    BY DEF Pair
  <2>2. queue' = Append(queue, Job({RecentWrite(r), OthersWrite(o)}))
    BY <1>8 DEF WriteRecent, WriteOthers, RecentWrite, OthersWrite
  <2> HIDE DEF r, o
  <2> QED
    BY <1>3, <2>1, <2>2, PushRecovers
<1> QED
  BY <1>1, <1>3, <1>5, <1>6, <1>7, <1>8

LEMMA Joined ==
  ASSUME NEW q \in Seq(SafeJobs), NEW job \in SafeJobs
  PROVE  q \o <<job>> = Append(q, job) /\ q \o <<>> = q
OBVIOUS

LEMMA ReplaceRecovers ==
  ASSUME Inv, Recovers, NEW u \in UID, NEW next \in LibraryBucket, next.uid = u, OwnersAgree(next),
         From(next, versions), Replace(u, next)
  PROVE  Recovers'
<1> DEFINE profileJob == Job({WriteProfile(u)})
<1>1. PICK profileChanged \in BOOLEAN, R \in Recents(next.items) :
        /\ uid # u => profileChanged
        /\ queue' = queue \o (IF profileChanged THEN <<profileJob>> ELSE <<>>)
                          \o (IF library # next THEN <<PushLibrary(next, R)>> ELSE <<>>)
  BY DEF Replace
<1>2. uid' = u /\ library' = next /\ UNCHANGED <<storage, versions, failed, torn>>
  BY DEF Replace
<1> DEFINE q == IF profileChanged THEN Append(queue, profileJob) ELSE queue
<1>3. /\ Orderly(q) /\ Waiting(q, storage, failed, versions) /\ Chained(q, storage, Bad) /\ Ends(q, storage)
      /\ ProfileFollows(q, storage, Bad, u) /\ LibraryFollows(q, storage, Bad, library)
  <2>1. CASE ~profileChanged
    BY <1>1, <2>1 DEF Recovers
  <2>2. CASE profileChanged
    <3>1. JobFrom(profileJob, versions)
      BY DEF JobFrom, Job, WriteProfile, LibrarySlots
    <3>2. profileJob \in SafeJobs /\ profileJob.todo = profileJob.all /\ profileJob.todo # {}
      BY ProfileJob
    <3>3. Waiting(Append(queue, profileJob), storage, failed, versions)
      BY <3>1, <3>2, AppendWaits DEF Recovers, Orderly
    <3>4. /\ Orderly(queue) /\ Chained(queue, storage, Bad) /\ Ends(queue, storage)
          /\ LibraryFollows(queue, storage, Bad, library)
      BY DEF Recovers
    <3> HIDE DEF profileJob
    <3>5. LET a == Append(queue, profileJob) IN
          /\ Orderly(a) /\ Chained(a, storage, Bad) /\ Ends(a, storage)
          /\ ProfileFollows(a, storage, Bad, u) /\ LibraryFollows(a, storage, Bad, library)
      BY <3>4, AppendProfile DEF profileJob
    <3> QED
      BY <2>2, <3>3, <3>5
  <2> QED
    BY <2>1, <2>2
<1>4. q \in Seq(SafeJobs) /\ profileJob \in SafeJobs /\ PushLibrary(next, R) \in SafeJobs
      /\ queue \in Seq(SafeJobs)
  BY <1>3, ProfileJobKeeps, PushKeeps DEF Orderly, Inv
<1>5. queue' = q \o (IF library # next THEN <<PushLibrary(next, R)>> ELSE <<>>)
  BY <1>1, <1>4, Joined
<1> HIDE DEF q
<1>6. /\ Orderly(queue') /\ Waiting(queue', storage, failed, versions) /\ Chained(queue', storage, Bad)
      /\ Ends(queue', storage)
      /\ ProfileFollows(queue', storage, Bad, u) /\ LibraryFollows(queue', storage, Bad, next)
  <2>1. CASE library = next
    BY <1>3, <1>4, <1>5, <2>1, Joined
  <2>2. CASE library # next
    <3> DEFINE r == New(next.uid, Part(next.items, R))
               o == New(next.uid, Part(next.items, Ids \ R))
               job == Job({RecentWrite(r), OthersWrite(o)})
    <3>1. queue' = Append(q, job)
      BY <1>4, <1>5, <2>2, Joined DEF PushLibrary, WriteRecent, WriteOthers, RecentWrite, OthersWrite
    <3>2. Pair(next, R, r, o)
      BY DEF Pair
    <3>3. r \in SafeValue /\ o \in SafeValue /\ From(r, versions) /\ From(o, versions)
      BY NewPartKeeps, PartFrom
    <3> HIDE DEF r, o
    <3>4. JobFrom(job, versions) /\ job \in SafeJobs /\ job.todo = job.all /\ job.todo # {}
      BY <3>3, WholeJob DEF JobFrom, Job, RecentWrite, OthersWrite
    <3>5. Waiting(Append(q, job), storage, failed, versions)
      BY <1>3, <1>4, <3>4, AppendWaits
    <3>6. LET a == Append(q, job) IN
          /\ Orderly(a) /\ Chained(a, storage, Bad) /\ Ends(a, storage)
          /\ LibraryFollows(a, storage, Bad, next)
          /\ \A x : ProfileFollows(q, storage, Bad, x) => ProfileFollows(a, storage, Bad, x)
      BY <1>3, <3>2, <3>3, AppendWhole
    <3> QED
      BY <1>3, <3>1, <3>5, <3>6
  <2> QED
    BY <2>1, <2>2
<1>7. Bad' = Bad
  BY <1>2 DEF Bad
<1>8. Known'
  BY <1>2 DEF Recovers, Known
<1> QED
  BY <1>2, <1>6, <1>7, <1>8 DEF Recovers
-----------------------------------------------------------------------------
(* The steps of the executor. *)

\* When the first job is done, what the others leave is what they left before.
LEMMA TailLeaves ==
  ASSUME NEW q \in Seq(SafeJobs), q # <<>>, NEW store, NEW next, NEW bad, NEW after, NEW s,
         \/ ~Asks(q[1], s) /\ next[s] = store[s] /\ (s \notin after => s \notin bad)
         \/ Asks(q[1], s) /\ (s \notin after => Sets(q[1], s, next[s])),
         NEW i \in 0 .. Len(q) - 1, NEW v, Leaves(Tail(q), next, after, s, i, v)
  PROVE  Leaves(q, store, bad, s, i + 1, v)
<1> DEFINE t == Tail(q)
<1>1. Len(q) \in Nat /\ Len(q) >= 1 /\ i \in Nat /\ \A k \in 1 .. Len(q) - 1 : t[k] = q[k + 1]
  OBVIOUS
<1> HIDE DEF t
<1>2. ASSUME NEW k \in 1 .. i, Sets(t[k], s, v), \A j \in (k + 1) .. i : ~Asks(t[j], s)
      PROVE  Leaves(q, store, bad, s, i + 1, v)
  <2>1. k + 1 \in 1 .. i + 1 /\ Sets(q[k + 1], s, v)
    BY <1>1, <1>2
  <2>2. ASSUME NEW j \in (k + 2) .. (i + 1)
        PROVE  ~Asks(q[j], s)
    <3>1. j - 1 \in (k + 1) .. i /\ j - 1 \in 1 .. Len(q) - 1 /\ t[j - 1] = q[j]
      BY <1>1
    <3> QED
      BY <1>2, <3>1
  <2>3. \A j \in (k + 1 + 1) .. (i + 1) : ~Asks(q[j], s)
    BY <1>1, <2>2
  <2> QED
    BY <2>1, <2>3 DEF Leaves
<1>3. ASSUME v = next[s], s \notin after, \A j \in 1 .. i : ~Asks(t[j], s)
      PROVE  Leaves(q, store, bad, s, i + 1, v)
  <2>1. ASSUME NEW j \in 2 .. (i + 1)
        PROVE  ~Asks(q[j], s)
    <3>1. j - 1 \in 1 .. i /\ j - 1 \in 1 .. Len(q) - 1 /\ t[j - 1] = q[j]
      BY <1>1
    <3> QED
      BY <1>3, <3>1
  <2>2. CASE Asks(q[1], s)
    <3>1. 1 \in 1 .. i + 1 /\ Sets(q[1], s, v)
      BY <1>1, <1>3, <2>2
    <3>2. \A j \in (1 + 1) .. (i + 1) : ~Asks(q[j], s)
      BY <2>1
    <3> QED
      BY <3>1, <3>2 DEF Leaves
  <2>3. CASE ~Asks(q[1], s)
    <3>1. \A j \in 1 .. (i + 1) : j = 1 \/ j \in 2 .. (i + 1)
      BY <1>1
    <3>2. \A j \in 1 .. (i + 1) : ~Asks(q[j], s)
      BY <2>1, <2>3, <3>1
    <3> QED
      BY <1>3, <2>3, <3>2 DEF Leaves
  <2> QED
    BY <2>2, <2>3
<1> QED
  BY <1>2, <1>3 DEF Leaves, t

\* Some value is left in each slot.
LEMMA TailEnds ==
  ASSUME NEW q \in Seq(SafeJobs), q # <<>>, NEW store, NEW next, Ends(q, store)
  PROVE  Ends(Tail(q), next)
<1> DEFINE t == Tail(q)
           n == Len(q) - 1
<1>1. n \in Nat /\ Len(t) = n /\ Len(q) = n + 1 /\ \A k \in 1 .. n : t[k] = q[k + 1]
  OBVIOUS
<1> HIDE DEF t, n
<1> SUFFICES ASSUME NEW s \in Slots
             PROVE  \E v : Leaves(t, next, {}, s, n, v)
  BY <1>1 DEF Ends, t
<1>2. PICK v : Leaves(q, store, {}, s, n + 1, v)
  BY <1>1 DEF Ends
<1>3. CASE \E j \in 1 .. n : Asks(t[j], s)
  <2>1. ~\A j \in 1 .. n + 1 : ~Asks(q[j], s)
    <3>1. PICK j \in 1 .. n : Asks(t[j], s)
      BY <1>3
    <3>2. j + 1 \in 1 .. n + 1 /\ Asks(q[j + 1], s)
      BY <1>1, <3>1
    <3> QED
      BY <3>2
  <2>2. PICK k \in 1 .. n + 1 : Sets(q[k], s, v) /\ \A j \in (k + 1) .. (n + 1) : ~Asks(q[j], s)
    BY <1>2, <2>1 DEF Leaves
  <2>3. k # 1
    <3>1. PICK j \in 1 .. n : Asks(t[j], s)
      BY <1>3
    <3>2. j + 1 \in 2 .. n + 1 /\ Asks(q[j + 1], s)
      BY <1>1, <3>1
    <3> QED
      BY <1>1, <2>2, <3>2
  <2>4. k - 1 \in 1 .. n /\ Sets(t[k - 1], s, v)
    BY <1>1, <2>2, <2>3
  <2>5. ASSUME NEW j \in (k - 1 + 1) .. n
        PROVE  ~Asks(t[j], s)
    <3>1. j + 1 \in (k + 1) .. (n + 1) /\ j \in 1 .. n
      BY <1>1, <2>4
    <3> QED
      BY <1>1, <2>2, <3>1
  <2> QED
    BY <2>4, <2>5 DEF Leaves
<1>4. CASE \A j \in 1 .. n : ~Asks(t[j], s)
  <2>1. Leaves(t, next, {}, s, n, next[s])
    BY <1>4 DEF Leaves
  <2> QED
    BY <2>1
<1> QED
  BY <1>3, <1>4

\* What the running job has left to do does not change what it and the others leave.
LEMMA RunLeaves ==
  ASSUME NEW q \in Seq(SafeJobs), NEW t \in Seq(SafeJobs), q # <<>>, Len(t) = Len(q),
         \A k \in 1 .. Len(q) : t[k].all = q[k].all,
         NEW store, NEW next, NEW bad, NEW after, NEW s,
         ~Asks(q[1], s) => next[s] = store[s] /\ (s \notin after => s \notin bad),
         NEW i \in 1 .. Len(q), NEW v, Leaves(t, next, after, s, i, v)
  PROVE  Leaves(q, store, bad, s, i, v)
<1>1. Len(q) \in Nat /\ Len(q) >= 1 /\ 1 \in 1 .. i
  OBVIOUS
<1>2. \A k \in 1 .. Len(q) : /\ Asks(t[k], s) <=> Asks(q[k], s)
                             /\ Sets(t[k], s, v) <=> Sets(q[k], s, v)
  BY DEF Asks, Sets
<1>3. ASSUME NEW k \in 1 .. i, Sets(t[k], s, v), \A j \in (k + 1) .. i : ~Asks(t[j], s)
      PROVE  Leaves(q, store, bad, s, i, v)
  BY <1>2, <1>3 DEF Leaves
<1>4. ASSUME v = next[s], s \notin after, \A j \in 1 .. i : ~Asks(t[j], s)
      PROVE  Leaves(q, store, bad, s, i, v)
  <2>1. \A j \in 1 .. i : ~Asks(q[j], s)
    BY <1>2, <1>4
  <2> QED
    BY <1>1, <1>4, <2>1 DEF Leaves
<1> QED
  BY <1>3, <1>4 DEF Leaves

LEMMA RunEnds ==
  ASSUME NEW q \in Seq(SafeJobs), NEW t \in Seq(SafeJobs), Len(t) = Len(q),
         \A k \in 1 .. Len(q) : t[k].all = q[k].all,
         NEW store, NEW next, Ends(q, store)
  PROVE  Ends(t, next)
<1> SUFFICES ASSUME NEW s \in Slots
             PROVE  \E v : Leaves(t, next, {}, s, Len(q), v)
  BY DEF Ends
<1>1. \A k \in 1 .. Len(q) : /\ Asks(t[k], s) <=> Asks(q[k], s)
                             /\ \A v : Sets(t[k], s, v) <=> Sets(q[k], s, v)
  BY DEF Asks, Sets
<1>2. PICK v : Leaves(q, store, {}, s, Len(q), v)
  BY DEF Ends
<1>3. CASE \A j \in 1 .. Len(q) : ~Asks(q[j], s)
  <2>1. Leaves(t, next, {}, s, Len(q), next[s])
    BY <1>1, <1>3 DEF Leaves
  <2> QED
    BY <2>1
<1>4. CASE \E k \in 1 .. Len(q) : Sets(q[k], s, v) /\ \A j \in (k + 1) .. Len(q) : ~Asks(q[j], s)
  <2>1. Leaves(t, next, {}, s, Len(q), v)
    BY <1>1, <1>4 DEF Leaves
  <2> QED
    BY <2>1
<1> QED
  BY <1>2, <1>3, <1>4 DEF Leaves

\* The job that runs gets on with its writes, up to `rest'.
LEMMA RunRecovers ==
  ASSUME Inv, Recovers, queue # <<>>, NEW rest \in SUBSET Running, rest # Running, Left(rest), Inv',
         \A w \in queue[1].all \ rest : w.slot \in failed' \/ storage'[w.slot] = w.value,
         \A s \in Slots : \/ storage'[s] = storage[s]
                          \/ Sets(queue[1], s, storage'[s]),
         \A s \in Slots : ~Asks(queue[1], s) => (s \in failed <=> s \in failed'),
         UNCHANGED <<uid, library, versions>>
  PROVE  Recovers'
<1> DEFINE n == Len(queue)
<1>1. /\ n \in Nat /\ n >= 1 /\ queue \in Seq(SafeJobs) /\ Running = queue[1].todo /\ Head(queue) = queue[1]
      /\ \A i \in 1 .. n : Shaped(queue[i]) /\ (i # 1 => queue[i].todo = queue[i].all)
  BY DEF Inv, Running, Recovers, Orderly
<1>2. /\ \A i \in 1 .. n : JobFrom(queue[i], versions) /\ queue[i].todo # {}
      /\ queue[1].todo \subseteq queue[1].all
  BY <1>1 DEF Recovers, Waiting, Shaped
<1>3. Known'
  <2>1. ASSUME NEW s \in LibrarySlots, storage'[s] # Missing
        PROVE  From(storage'[s], versions)
    <3>1. s \in Slots
      BY DEF Slots
    <3>2. CASE storage'[s] = storage[s]
      BY <2>1, <3>2 DEF Recovers, Known
    <3>3. CASE Sets(queue[1], s, storage'[s])
      BY <1>1, <1>2, <2>1, <3>3 DEF Sets, JobFrom
    <3> QED
      BY <3>1, <3>2, <3>3
  <2> QED
    BY <2>1 DEF Recovers, Known
<1>4. \A s \in Slots : ~Asks(queue[1], s) => storage'[s] = storage[s]
  BY DEF Sets, Asks
<1>5. ASSUME NEW s \in Slots, ~Asks(queue[1], s), s \notin Bad'
      PROVE  s \notin Bad
  <2>1. s \notin failed
    BY <1>5 DEF Bad
  <2>2. ASSUME s \in LibrarySlots
        PROVE  ~torn
    <3>1. ~torn'
      BY <1>5, <2>2 DEF Bad
    <3>2. ~WholeLibrary(Head(queue))
      BY <1>1, <1>5, <2>2 DEF WholeLibrary, Asks
    <3> QED
      BY <3>1, <3>2 DEF Left
  <2> QED
    BY <2>1, <2>2 DEF Bad
<1>6. Slots = {"library_recent", "library", "profile"}
  BY DEF Slots, LibrarySlots
<1>7. CASE rest = {}
  <2> DEFINE t == Tail(queue)
  <2>1. queue' = t /\ Len(t) = n - 1 /\ t \in Seq(SafeJobs) /\ \A k \in 1 .. n - 1 : t[k] = queue[k + 1]
    BY <1>1, <1>7 DEF Left
  <2>2. \A s \in Slots :
          \/ ~Asks(queue[1], s) /\ storage'[s] = storage[s] /\ (s \notin Bad' => s \notin Bad)
          \/ Asks(queue[1], s) /\ (s \notin Bad' => Sets(queue[1], s, storage'[s]))
    BY <1>4, <1>5, <1>7 DEF Asks, Sets, Bad
  <2>3. \A s \in Slots : \A i \in 0 .. n - 1 : \A v :
          Leaves(queue', storage', Bad', s, i, v) => Leaves(queue, storage, Bad, s, i + 1, v)
    BY <1>1, <2>1, <2>2, TailLeaves
  <2>4. Orderly(t)
    BY <1>1, <2>1 DEF Orderly
  <2>5. Waiting(t, storage', failed', versions)
    <3>1. t # <<>> => t[1].todo = t[1].all
      BY <1>1, <2>1
    <3> QED
      BY <1>1, <1>2, <2>1, <3>1 DEF Waiting
  <2>6. Chained(queue', storage', Bad')
    <3> SUFFICES ASSUME NEW i \in 0 .. n - 1, NEW r, NEW o,
                        Leaves(queue', storage', Bad', "library_recent", i, r),
                        Leaves(queue', storage', Bad', "library", i, o)
                 PROVE  Paired(r, o)
      BY <1>1, <2>1 DEF Chained
    <3>1. Leaves(queue, storage, Bad, "library_recent", i + 1, r) /\ Leaves(queue, storage, Bad, "library", i + 1, o)
      BY <1>6, <2>3
    <3>2. i + 1 \in 0 .. n /\ i + 1 # 0
      BY <1>1
    <3> QED
      BY <3>1, <3>2 DEF Recovers, Chained
  <2>7. \A s \in Slots : \A v :
          Leaves(queue', storage', Bad', s, Len(queue'), v) => Leaves(queue, storage, Bad, s, Len(queue), v)
    <3>1. Len(queue') = n - 1 /\ n - 1 \in 0 .. n - 1 /\ n - 1 + 1 = Len(queue)
      BY <1>1, <2>1
    <3> QED
      BY <2>3, <3>1
  <2>8. ProfileFollows(queue', storage', Bad', uid) /\ LibraryFollows(queue', storage', Bad', library)
    BY <1>6, <2>7 DEF Recovers, ProfileFollows, LibraryFollows
  <2>9. Ends(queue', storage')
    BY <1>1, <2>1, TailEnds DEF Recovers
  <2> QED
    BY <1>3, <2>1, <2>4, <2>5, <2>6, <2>8, <2>9 DEF Recovers
<1>8. CASE rest # {}
  <2>1. /\ queue' \in Seq(SafeJobs) /\ Len(queue') = n
        /\ \A k \in 1 .. n : queue'[k].all = queue[k].all /\ (k # 1 => queue'[k] = queue[k])
        /\ queue'[1].todo = rest
    <3>1. queue' = [queue EXCEPT ![1].todo = rest]
      BY <1>8 DEF Left
    <3>2. queue[1] \in SafeJobs
      BY <1>1
    <3> QED
      BY <1>1, <3>1, <3>2 DEF Inv, SafeJobs
  <2>2. \A s \in Slots : ~Asks(queue[1], s) => storage'[s] = storage[s] /\ (s \notin Bad' => s \notin Bad)
    BY <1>4, <1>5
  <2>3. \A s \in Slots : \A i \in 1 .. n : \A v :
          Leaves(queue', storage', Bad', s, i, v) => Leaves(queue, storage, Bad, s, i, v)
    BY <1>1, <2>1, <2>2, RunLeaves
  <2>4. Orderly(queue')
    <3>1. Shaped(queue'[1])
      BY <1>1, <1>2, <2>1 DEF Shaped, Asks
    <3> QED
      BY <1>1, <2>1, <3>1 DEF Orderly
  <2>5. Waiting(queue', storage', failed', versions)
    <3>1. \A k \in 1 .. n : JobFrom(queue'[k], versions) /\ queue'[k].todo # {}
      BY <1>1, <1>2, <1>8, <2>1 DEF JobFrom
    <3> QED
      BY <1>1, <2>1, <3>1 DEF Waiting
  <2>6. Chained(queue', storage', Bad')
    <3> SUFFICES ASSUME NEW i \in 0 .. n, NEW r, NEW o, i # 0,
                        Leaves(queue', storage', Bad', "library_recent", i, r),
                        Leaves(queue', storage', Bad', "library", i, o)
                 PROVE  Paired(r, o)
      <4>1. queue'[1].todo # queue'[1].all
        <5>1. queue'[1].todo = rest /\ queue'[1].all = queue[1].all
          BY <1>1, <2>1
        <5>2. rest \subseteq queue[1].todo /\ rest # queue[1].todo /\ queue[1].todo \subseteq queue[1].all
          BY <1>1, <1>2
        <5> QED
          BY <5>1, <5>2
      <4>2. queue' # <<>>
        BY <1>1, <2>1
      <4> QED
        BY <2>1, <4>1, <4>2 DEF Chained
    <3>1. i \in 1 .. n
      BY <1>1
    <3>2. Leaves(queue, storage, Bad, "library_recent", i, r) /\ Leaves(queue, storage, Bad, "library", i, o)
      BY <1>6, <2>3, <3>1
    <3> QED
      BY <3>2 DEF Recovers, Chained
  <2>7. ProfileFollows(queue', storage', Bad', uid) /\ LibraryFollows(queue', storage', Bad', library)
    <3>1. n \in 1 .. n
      BY <1>1
    <3> QED
      BY <1>6, <2>1, <2>3, <3>1 DEF Recovers, ProfileFollows, LibraryFollows
  <2>8. Ends(queue', storage')
    BY <1>1, <2>1, RunEnds DEF Recovers
  <2> QED
    BY <1>3, <2>4, <2>5, <2>6, <2>7, <2>8 DEF Recovers
<1> QED
  BY <1>7, <1>8

LEMMA WriteSlotRecovers ==
  ASSUME Inv, Recovers, NEW w \in Running, WriteSlot(w)
  PROVE  Recovers'
<1>1. queue # <<>> /\ Running = queue[1].todo /\ w \in SafeWrite
  BY RunningIsSafe DEF Running
<1>2. Shaped(queue[1])
  <2>1. 1 \in 1 .. Len(queue)
    BY <1>1 DEF Inv
  <2> QED
    BY <2>1 DEF Recovers, Orderly
<1>3. w.slot \in Slots /\ w \in queue[1].all
  BY <1>1, <1>2 DEF SafeWrite, Slots, Shaped
<1>4. /\ storage' = [storage EXCEPT ![w.slot] = w.value] /\ failed' = failed \ {w.slot}
      /\ Left(Running \ {w}) /\ UNCHANGED <<uid, library, versions>>
      /\ storage \in [Slots -> SlotValue \cup UID]
  BY DEF WriteSlot, Inv, TypeOK
<1>5. \A v \in queue[1].all \ (Running \ {w}) : v.slot \in failed' \/ storage'[v.slot] = v.value
  <2> SUFFICES ASSUME NEW v \in queue[1].all, v = w \/ v \notin queue[1].todo, v # w
               PROVE  v.slot \in failed' \/ storage'[v.slot] = v.value
    BY <1>1, <1>3, <1>4
  <2>1. v.slot # w.slot
    BY <1>2, <1>3 DEF Shaped
  <2>2. v.slot \in failed \/ storage[v.slot] = v.value
    BY <1>1 DEF Recovers, Waiting
  <2>3. v.slot \in Slots
    BY <1>2 DEF Shaped, SafeWrite, Slots
  <2> QED
    BY <1>4, <2>1, <2>2, <2>3
<1>6. \A s \in Slots : storage'[s] = storage[s] \/ Sets(queue[1], s, storage'[s])
  BY <1>3, <1>4 DEF Sets
<1>7. \A s \in Slots : ~Asks(queue[1], s) => (s \in failed <=> s \in failed')
  BY <1>3, <1>4 DEF Asks
<1>8. Inv'
  BY WriteSlotKeeps
<1> QED
  BY <1>1, <1>4, <1>5, <1>6, <1>7, <1>8, RunRecovers

LEMMA WriteFailsRecovers ==
  ASSUME Inv, Recovers, NEW w \in Running, WriteFails(w)
  PROVE  Recovers'
<1>1. queue # <<>> /\ Running = queue[1].todo
  BY RunningIsSafe DEF Running
<1>2. PICK rest \in {{}, Running \ {w}} :
        failed' = failed \cup {v.slot : v \in Running \ rest} /\ Left(rest)
  BY DEF WriteFails
<1>3. rest \in SUBSET Running /\ rest # Running /\ UNCHANGED <<uid, library, storage, versions>>
  BY <1>2 DEF WriteFails
<1>4. Shaped(queue[1])
  <2>1. 1 \in 1 .. Len(queue)
    BY <1>1 DEF Inv
  <2> QED
    BY <2>1 DEF Recovers, Orderly
<1>5. \A v \in queue[1].all \ rest : v.slot \in failed' \/ storage'[v.slot] = v.value
  <2>1. \A v \in queue[1].all \ queue[1].todo : v.slot \in failed \/ storage[v.slot] = v.value
    BY <1>1 DEF Recovers, Waiting
  <2> QED
    BY <1>1, <1>2, <1>3, <2>1
<1>6. \A s \in Slots : storage'[s] = storage[s] \/ Sets(queue[1], s, storage'[s])
  BY <1>3
<1>7. \A s \in Slots : ~Asks(queue[1], s) => (s \in failed <=> s \in failed')
  <2>1. \A v \in Running : v \in queue[1].all
    BY <1>1, <1>4 DEF Shaped
  <2> QED
    BY <1>2, <2>1 DEF Asks
<1>8. Inv'
  BY WriteFailsKeeps
<1> QED
  BY <1>1, <1>2, <1>3, <1>5, <1>6, <1>7, <1>8, RunRecovers
-----------------------------------------------------------------------------
(* What the two slots make when they are merged. *)

LEMMA MergeNothing ==
  ASSUME NEW u \in UID, NEW v,
         v = Missing \/ v.uid # u \/ \E S : v = New(u, Part(NoItems, S))
  PROVE  MergeSlot(New(u, NoItems), v) = New(u, NoItems)
<1>1. CASE v = Missing \/ v.uid # u
  BY <1>1 DEF MergeSlot, MergeBucket, New
<1>2. ASSUME NEW S, v = New(u, Part(NoItems, S))
      PROVE  MergeSlot(New(u, NoItems), v) = New(u, NoItems)
  <2>1. MergeItems(NoItems, Part(NoItems, S)) = NoItems
    BY DEF MergeItems, NoItems, Part
  <2>2. [New(u, NoItems) EXCEPT !.items = NoItems] = New(u, NoItems)
    BY DEF New
  <2> QED
    BY <1>2, <2>1, <2>2 DEF MergeSlot, MergeBucket, New
<1> QED
  BY <1>1, <1>2

LEMMA MergePair ==
  ASSUME NEW b \in LibraryBucket, NEW R \in Recents(b.items), NEW r, NEW o, Pair(b, R, r, o)
  PROVE  MergeSlot(MergeSlot(New(b.uid, NoItems), r), o) = b
<1>1. b.items \in ItemMap /\ b = New(b.uid, b.items) /\ b.uid \in UID
  BY DEF LibraryBucket, New
<1>2. MergeItems(NoItems, Part(b.items, R)) = Part(b.items, R)
  BY <1>1 DEF MergeItems, NoItems, Part, ItemMap
<1>3. r # Missing
  <2>1. r \in LibraryBucket
    BY <1>1 DEF Pair, New, Part, LibraryBucket, ItemMap
  <2> QED
    BY <2>1, MissingAssumption
<1>4. MergeSlot(New(b.uid, NoItems), r) = New(b.uid, Part(b.items, R))
  <2>1. r = New(b.uid, Part(b.items, R))
    BY DEF Pair
  <2>2. MergeSlot(New(b.uid, NoItems), r) = [New(b.uid, NoItems) EXCEPT !.items = MergeItems(NoItems, Part(b.items, R))]
    BY <1>3, <2>1 DEF MergeSlot, MergeBucket, New
  <2> QED
    BY <1>2, <2>2 DEF New
<1>5. CASE o = Missing /\ R = Present(b.items)
  <2>1. Part(b.items, R) = b.items
    BY <1>1, <1>5, WholePart
  <2> QED
    BY <1>1, <1>4, <1>5, <2>1 DEF MergeSlot
<1>6. CASE o = New(b.uid, Part(b.items, Ids \ R))
  <2>1. MergeItems(Part(b.items, R), Part(b.items, Ids \ R)) = b.items
    BY <1>1 DEF MergeItems, Part, ItemMap
  <2>2. o # Missing
    <3>1. o \in LibraryBucket
      BY <1>1, <1>6 DEF New, Part, LibraryBucket, ItemMap
    <3> QED
      BY <3>1, MissingAssumption
  <2>3. MergeSlot(New(b.uid, Part(b.items, R)), o)
          = [New(b.uid, Part(b.items, R)) EXCEPT !.items = MergeItems(Part(b.items, R), Part(b.items, Ids \ R))]
    BY <1>6, <2>2 DEF MergeSlot, MergeBucket, New
  <2>4. MergeSlot(New(b.uid, Part(b.items, R)), o) = New(b.uid, b.items)
    BY <2>1, <2>3 DEF New
  <2> QED
    BY <1>1, <1>4, <2>4
<1> QED
  BY <1>5, <1>6 DEF Pair

\* Two slots that follow a library make that library.
LEMMA FollowersMake ==
  ASSUME NEW b \in LibraryBucket, NEW V, From(b, V), Distinct(V), NEW r, NEW o,
         RecentOf(b, r) \/ Alien(b, r), OthersOf(b, o) \/ Alien(b, o)
  PROVE  MergeSlot(MergeSlot(New(b.uid, NoItems), r), o) = b
<1>1. b.items \in ItemMap /\ b = New(b.uid, b.items) /\ b.uid \in UID
  BY DEF LibraryBucket, New
<1>2. CASE b.items = NoItems
  <2>1. r = Missing \/ r.uid # b.uid \/ \E S : r = New(b.uid, Part(NoItems, S))
    BY <1>2 DEF RecentOf, Alien
  <2>2. o = Missing \/ o.uid # b.uid \/ \E S : o = New(b.uid, Part(NoItems, S))
    BY <1>2 DEF OthersOf, Alien
  <2>3. MergeSlot(New(b.uid, NoItems), r) = New(b.uid, NoItems)
    BY <1>1, <2>1, MergeNothing
  <2>4. MergeSlot(New(b.uid, NoItems), o) = New(b.uid, NoItems)
    BY <1>1, <2>2, MergeNothing
  <2> QED
    BY <1>1, <1>2, <2>3, <2>4
<1>3. CASE b.items # NoItems
  <2>1. PICK R \in Recents(b.items) : r = New(b.uid, Part(b.items, R))
    BY <1>3 DEF RecentOf, Alien
  <2>2. \A S \in Recents(b.items) : S = R
    BY <1>1, OneVersionATime, RecentsAreOne
  <2>3. Pair(b, R, r, o)
    BY <1>3, <2>1, <2>2 DEF OthersOf, Alien, Pair
  <2> QED
    BY <2>3, MergePair
<1> QED
  BY <1>2, <1>3

\* What a process makes of a pair of slots, they follow, whoever it belongs to.
LEMMA PairFollows ==
  ASSUME NEW r, NEW o, Paired(r, o), NEW u \in UID, NEW b, b = MergeSlot(MergeSlot(New(u, NoItems), r), o)
  PROVE  (RecentOf(b, r) \/ Alien(b, r)) /\ (OthersOf(b, o) \/ Alien(b, o))
<1>1. New(u, NoItems).items = NoItems /\ New(u, NoItems).uid = u
  BY DEF New
<1>2. CASE r = Missing /\ o = Missing
  BY <1>1, <1>2 DEF MergeSlot, Alien
<1>3. ASSUME NEW c \in LibraryBucket, NEW R \in Recents(c.items), Pair(c, R, r, o)
      PROVE  (RecentOf(b, r) \/ Alien(b, r)) /\ (OthersOf(b, o) \/ Alien(b, o))
  <2>1. CASE c.uid = u
    <3>1. b = c
      BY <1>3, <2>1, MergePair
    <3> QED
      BY <1>3, <3>1 DEF Pair, RecentOf, OthersOf
  <2>2. CASE c.uid # u
    <3>1. r.uid # u /\ (o = Missing \/ o.uid # u)
      BY <1>3, <2>2 DEF Pair, New
    <3>2. b = New(u, NoItems)
      BY <3>1, MergeNothing
    <3> QED
      BY <1>1, <3>1, <3>2 DEF Alien
  <2> QED
    BY <2>1, <2>2
<1> QED
  BY <1>2, <1>3 DEF Paired

LEMMA LoadedFrom ==
  ASSUME Inv, Known, NEW u \in UID
  PROVE  From(LoadedLibrary(storage, u), versions)
<1>1. ASSUME NEW b \in LibraryBucket, From(b, versions), NEW s \in LibrarySlots
      PROVE  From(MergeSlot(b, storage[s]), versions)
  <2>1. CASE storage[s] = Missing \/ b.uid # storage[s].uid
    BY <1>1, <2>1 DEF MergeSlot, MergeBucket
  <2>2. CASE storage[s] # Missing /\ b.uid = storage[s].uid
    <3>1. From(storage[s], versions) /\ storage[s] \in LibraryBucket
      BY <2>2 DEF Known, Inv, TypeOK, SlotValue
    <3>2. storage[s].items \in ItemMap
      BY <3>1 DEF LibraryBucket
    <3>3. MergeSlot(b, storage[s]) = [b EXCEPT !.items = MergeItems(b.items, storage[s].items)]
      BY <2>2 DEF MergeSlot, MergeBucket
    <3>4. \A id \in Ids : storage[s].items[id] # Absent => [id |-> id, item |-> storage[s].items[id]] \in versions
      BY <3>1 DEF From
    <3> QED
      BY <1>1, <3>2, <3>3, <3>4, MergeFrom
  <2> QED
    BY <2>1, <2>2
<1> DEFINE none == New(u, NoItems)
           first == MergeSlot(none, storage["library_recent"])
<1>2. none \in LibraryBucket /\ OwnersAgree(none)
  BY NewEmpty
<1>3. From(none, versions)
  BY DEF From, New, NoItems
<1> HIDE DEF none
<1>4. first \in LibraryBucket
  BY <1>2, MergeSlotKeeps DEF Inv, LibrarySlots
<1>5. From(first, versions)
  BY <1>1, <1>2, <1>3 DEF LibrarySlots
<1> HIDE DEF first
<1>6. From(MergeSlot(first, storage["library"]), versions)
  BY <1>1, <1>4, <1>5 DEF LibrarySlots
<1> QED
  BY <1>6 DEF LoadedLibrary, first, none
-----------------------------------------------------------------------------
(* The other steps. *)

LEMMA NoJobsLeave ==
  ASSUME NEW store, NEW bad, NEW s, NEW v
  PROVE  Leaves(<<>>, store, bad, s, 0, v) <=> v = store[s] /\ s \notin bad
<1>1. 1 .. 0 = {}
  OBVIOUS
<1> QED
  BY <1>1 DEF Leaves

LEMMA RestartRecovers ==
  ASSUME Inv, Recovers, Restart
  PROVE  Recovers'
<1>1. /\ uid' = LoadedUid(storage) /\ library' = LoadedLibrary(storage, uid')
      /\ queue' = <<>> /\ failed' = {} /\ UNCHANGED <<storage, versions>>
      /\ torn' = (torn \/ failed # {} \/ (queue # <<>> /\ Running # Head(queue).all))
  BY DEF Restart
<1>2. uid' \in UID /\ uid' = LoadedUid(storage)
  BY <1>1 DEF LoadedUid, Inv, TypeOK, UID
<1>3. Len(queue') = 0 /\ queue' \in Seq(SafeJobs)
  BY <1>1
<1>4. \A s, v : Leaves(queue', storage', Bad', s, 0, v) <=> v = storage[s] /\ s \notin Bad'
  BY <1>1, NoJobsLeave
<1>5. Known'
  <2>1. From(library', versions)
    BY <1>1, <1>2, LoadedFrom DEF Recovers
  <2> QED
    BY <1>1, <2>1 DEF Recovers, Known
<1>6. Orderly(queue') /\ Waiting(queue', storage', failed', versions')
  BY <1>1, <1>3 DEF Orderly, Waiting
<1>7. ProfileFollows(queue', storage', Bad', uid')
  BY <1>2, <1>3, <1>4 DEF ProfileFollows, LoadedUid
<1>8. Ends(queue', storage')
  BY <1>1, <1>3, NoJobsLeave DEF Ends
<1>9. CASE torn'
  <2>1. LibrarySlots \subseteq Bad'
    BY <1>9 DEF Bad
  <2>2. \A v : /\ ~Leaves(queue', storage', Bad', "library_recent", 0, v)
               /\ ~Leaves(queue', storage', Bad', "library", 0, v)
    BY <1>4, <2>1 DEF LibrarySlots
  <2>3. Chained(queue', storage', Bad') /\ LibraryFollows(queue', storage', Bad', library')
    BY <1>3, <2>2 DEF Chained, LibraryFollows
  <2> QED
    BY <1>5, <1>6, <1>7, <1>8, <2>3 DEF Recovers
<1>10. CASE ~torn'
  <2>1. Bad = {} /\ (queue # <<>> => queue[1].todo = queue[1].all)
    <3>1. ~torn /\ failed = {} /\ (queue # <<>> => Running = Head(queue).all)
      BY <1>1, <1>10, Zenon
    <3>2. Bad = {}
      BY <3>1 DEF Bad
    <3>3. queue # <<>> => Running = Head(queue).todo /\ Head(queue) = queue[1]
      BY DEF Running, Inv
    <3> QED
      BY <3>1, <3>2, <3>3
  <2>2. \A s : Leaves(queue, storage, Bad, s, 0, storage[s])
    BY <2>1 DEF Leaves
  <2>3. Paired(storage["library_recent"], storage["library"])
    <3>1. 0 \in 0 .. Len(queue)
      BY DEF Inv
    <3> QED
      BY <2>1, <2>2, <3>1 DEF Recovers, Chained
  <2>4. LET r == storage["library_recent"]
            o == storage["library"]
        IN (RecentOf(library', r) \/ Alien(library', r)) /\ (OthersOf(library', o) \/ Alien(library', o))
    <3>1. library' = MergeSlot(MergeSlot(New(uid', NoItems), storage["library_recent"]), storage["library"])
      BY <1>1 DEF LoadedLibrary
    <3> QED
      BY <1>2, <2>3, <3>1, PairFollows
  <2>5. Chained(queue', storage', Bad')
    BY <1>3, <1>4, <2>3 DEF Chained
  <2>6. LibraryFollows(queue', storage', Bad', library')
    BY <1>3, <1>4, <2>4 DEF LibraryFollows
  <2> QED
    BY <1>5, <1>6, <1>7, <1>8, <2>5, <2>6 DEF Recovers
<1> QED
  BY <1>9, <1>10

\* A version of a new time is one more.
LEMMA OneMoreVersion ==
  ASSUME NEW now, Fresh(now), Distinct(versions), NEW v, v.item.mtime = now
  PROVE  Distinct(versions \cup {v})
BY DEF Distinct, Fresh

LEMMA KnownGrows ==
  ASSUME Known, NEW V, versions \subseteq V, Distinct(V), versions' = V, storage' = storage,
         From(library', V)
  PROVE  Known'
<1>1. ASSUME NEW s \in LibrarySlots, storage[s] # Missing
      PROVE  From(storage[s], V)
  BY <1>1 DEF Known, From
<1> QED
  BY <1>1 DEF Known

LEMMA UpdateLibraryItemRecovers ==
  ASSUME Inv, Recovers, NEW id \in Ids, NEW body \in Bodies, NEW now \in Stamps,
         UpdateLibraryItem(id, body, now)
  PROVE  Recovers'
<1> DEFINE item == [mtime |-> now, body |-> body, owner |-> uid]
           items == [NoItems EXCEPT ![id] = item]
           version == [id |-> id, item |-> item]
           V == versions \cup {version}
<1>1. item \in Item /\ item # Absent
  BY AbsentAssumption DEF Inv, TypeOK, Item, Stamps
<1>2. /\ Fresh(now) /\ MergeAndPush(items) /\ versions' = V
      /\ UNCHANGED <<uid, storage, failed, torn>>
  BY DEF UpdateLibraryItem
<1>3. Distinct(V)
  <2>1. version.item.mtime = now
    OBVIOUS
  <2> HIDE DEF version
  <2> QED
    BY <1>2, <2>1, OneMoreVersion DEF Recovers, Known
<1>4. items \in ItemMap /\ items[id] = item /\ \A i \in Ids : i # id => items[i] = Absent
  BY <1>1 DEF ItemMap, NoItems
<1>5. Present(items) # {}
  BY <1>1, <1>4 DEF Present
<1>6. \A i \in Ids : items[i] # Absent => items[i].owner = uid /\ [id |-> i, item |-> items[i]] \in V
  BY <1>4
<1>7. versions \subseteq V
  OBVIOUS
<1> HIDE DEF V, items
<1>8. /\ Orderly(queue') /\ Waiting(queue', storage, failed, V) /\ Chained(queue', storage, Bad)
      /\ ProfileFollows(queue', storage, Bad, uid) /\ LibraryFollows(queue', storage, Bad, library')
      /\ Ends(queue', storage) /\ From(library', V)
  BY <1>2, <1>3, <1>4, <1>5, <1>6, <1>7, MergeAndPushRecovers
<1>9. Known'
  BY <1>2, <1>3, <1>7, <1>8, KnownGrows DEF Recovers
<1>10. Bad' = Bad
  BY <1>2 DEF Bad
<1> QED
  BY <1>2, <1>8, <1>9, <1>10 DEF Recovers

LEMMA RemoteWriteRecovers ==
  ASSUME Inv, Recovers, NEW u \in Users, NEW id \in Ids, NEW body \in Bodies, NEW now \in Stamps,
         RemoteWrite(u, id, body, now)
  PROVE  Recovers'
<1> DEFINE version == [id |-> id, item |-> [mtime |-> now, body |-> body, owner |-> u]]
           V == versions \cup {version}
<1>1. Fresh(now) /\ versions' = V /\ UNCHANGED <<uid, library, queue, storage, failed, torn>>
  BY DEF RemoteWrite
<1>2. Distinct(V)
  <2>1. version.item.mtime = now
    OBVIOUS
  <2> HIDE DEF version
  <2> QED
    BY <1>1, <2>1, OneMoreVersion DEF Recovers, Known
<1>3. versions \subseteq V
  OBVIOUS
<1> HIDE DEF V
<1>4. From(library', V)
  BY <1>1, <1>3 DEF Recovers, Known, From
<1>5. Known'
  BY <1>1, <1>2, <1>3, <1>4, KnownGrows DEF Recovers
<1>6. Waiting(queue, storage, failed, V)
  BY <1>3 DEF Recovers, Waiting, JobFrom, From
<1>7. Bad' = Bad
  BY <1>1 DEF Bad
<1> QED
  BY <1>1, <1>5, <1>6, <1>7 DEF Recovers

LEMMA LibraryPullResultRecovers ==
  ASSUME Inv, Recovers, LibraryPullResult
  PROVE  Recovers'
<1>1. PICK items \in Answers(uid) : Present(items) # {} /\ MergeAndPush(items)
  BY DEF LibraryPullResult
<1>2. UNCHANGED <<uid, storage, versions, failed, torn>>
  BY DEF LibraryPullResult
<1>3. /\ items \in ItemMap
      /\ \A id \in Ids : items[id] # Absent =>
           items[id].owner = uid /\ [id |-> id, item |-> items[id]] \in versions
  BY AnswersType DEF Answers, Present
<1>4. /\ Orderly(queue') /\ Waiting(queue', storage, failed, versions) /\ Chained(queue', storage, Bad)
      /\ ProfileFollows(queue', storage, Bad, uid) /\ LibraryFollows(queue', storage, Bad, library')
      /\ Ends(queue', storage) /\ From(library', versions)
  BY <1>1, <1>3, MergeAndPushRecovers DEF Recovers, Known
<1>5. Known'
  BY <1>2, <1>4, KnownGrows DEF Recovers, Known
<1>6. Bad' = Bad
  BY <1>2 DEF Bad
<1> QED
  BY <1>2, <1>4, <1>5, <1>6 DEF Recovers

LEMMA CtxAuthResultRecovers ==
  ASSUME Inv, Recovers, NEW u \in Users, CtxAuthResult(u)
  PROVE  Recovers'
<1>1. PICK items \in Answers(u) : Replace(u, New(u, items))
  BY DEF CtxAuthResult
<1>2. New(u, items) \in LibraryBucket /\ New(u, items).uid = u /\ OwnersAgree(New(u, items))
  BY AnswersType DEF New, LibraryBucket, OwnersAgree, UID
<1>3. From(New(u, items), versions)
  BY DEF From, New, Answers, Present
<1> QED
  BY <1>1, <1>2, <1>3, ReplaceRecovers DEF UID

LEMMA LogoutRecovers ==
  ASSUME Inv, Recovers, Logout
  PROVE  Recovers'
<1>1. Replace(NoUser, New(NoUser, NoItems)) /\ NoUser \in UID
  BY DEF Logout, UID
<1>2. From(New(NoUser, NoItems), versions)
  BY DEF From, New, NoItems
<1> QED
  BY <1>1, <1>2, NewEmpty, ReplaceRecovers
-----------------------------------------------------------------------------
(* The invariant. *)

LEMMA InitRecovers == Init => Recovers
<1> SUFFICES ASSUME Init PROVE Recovers
  OBVIOUS
<1>1. /\ uid = NoUser /\ library = New(NoUser, NoItems) /\ queue = <<>> /\ versions = {}
      /\ failed = {} /\ torn = FALSE /\ \A s \in Slots : storage[s] = Missing
  BY DEF Init
<1>2. Len(queue) = 0 /\ queue \in Seq(SafeJobs) /\ Bad = {}
  BY <1>1 DEF Bad
<1>3. \A s, v, bad : Leaves(queue, storage, bad, s, 0, v) <=> v = storage[s] /\ s \notin bad
  BY <1>1, NoJobsLeave
<1>4. "library" \in Slots /\ "library_recent" \in Slots /\ "profile" \in Slots /\ LibrarySlots \subseteq Slots
  BY DEF Slots, LibrarySlots
<1>5. Known
  BY <1>1, <1>4 DEF Known, Distinct, From, New, NoItems
<1>6. Orderly(queue) /\ Waiting(queue, storage, failed, versions)
  BY <1>1, <1>2 DEF Orderly, Waiting
<1>7. Chained(queue, storage, Bad)
  BY <1>1, <1>2, <1>3, <1>4 DEF Chained, Paired
<1>8. ProfileFollows(queue, storage, Bad, uid)
  BY <1>1, <1>2, <1>3, <1>4 DEF ProfileFollows
<1>9. LibraryFollows(queue, storage, Bad, library)
  BY <1>1, <1>2, <1>3, <1>4 DEF LibraryFollows, Alien, New
<1>10. Ends(queue, storage)
  BY <1>2, <1>3 DEF Ends
<1> QED
  BY <1>5, <1>6, <1>7, <1>8, <1>9, <1>10 DEF Recovers

LEMMA NextRecovers == Inv /\ Recovers /\ [Next]_vars => Recovers'
<1> SUFFICES ASSUME Inv, Recovers, [Next]_vars PROVE Recovers'
  OBVIOUS
<1>1. ASSUME NEW id \in Ids, NEW body \in Bodies, NEW now \in Stamps, UpdateLibraryItem(id, body, now)
      PROVE  Recovers'
  BY <1>1, UpdateLibraryItemRecovers
<1>2. ASSUME NEW u \in Users, NEW id \in Ids, NEW body \in Bodies, NEW now \in Stamps,
             RemoteWrite(u, id, body, now)
      PROVE  Recovers'
  BY <1>2, RemoteWriteRecovers
<1>3. CASE LibraryPullResult
  BY <1>3, LibraryPullResultRecovers
<1>4. ASSUME NEW u \in Users, CtxAuthResult(u)
      PROVE  Recovers'
  BY <1>4, CtxAuthResultRecovers
<1>5. CASE Logout
  BY <1>5, LogoutRecovers
<1>6. ASSUME NEW w \in Running, WriteSlot(w) \/ WriteFails(w)
      PROVE  Recovers'
  BY <1>6, WriteSlotRecovers, WriteFailsRecovers
<1>7. CASE Restart
  BY <1>7, RestartRecovers
<1>8. CASE UNCHANGED vars
  BY <1>8 DEF vars, Recovers, Known, Bad
<1> QED
  BY <1>1, <1>2, <1>3, <1>4, <1>5, <1>6, <1>7, <1>8 DEF Next

LEMMA SpecRecovers == Spec => [](Inv /\ Recovers)
<1>1. Init => Inv /\ Recovers
  BY InitInv, InitRecovers
<1>2. (Inv /\ Recovers) /\ [Next]_vars => (Inv /\ Recovers)'
  BY NextInv, NextRecovers
<1> QED
  BY <1>1, <1>2, PTL DEF Spec
-----------------------------------------------------------------------------
\* Once the executor is done and no slot's last write failed, a restart brings
\* back the profile's account and the library in memory, for any number of items
\* and any size of the recent slot, although most changes rewrite that slot only
\* (update_and_push_items_to_storage, update_library.rs:302).
THEOREM RestartRestores == Spec => []DrainedIsRecoverable
<1>1. ASSUME Inv, Recovers, queue = <<>>, failed = {}, ~torn
      PROVE  LoadedUid(storage) = uid /\ LoadedLibrary(storage, uid) = library
  <2>1. Len(queue) = 0 /\ Bad = {}
    BY <1>1 DEF Bad
  <2>2. \A s : Leaves(queue, storage, Bad, s, 0, storage[s])
    BY <1>1, <2>1, NoJobsLeave
  <2>3. LoadedUid(storage) = uid
    <3>1. storage["profile"] = uid \/ (storage["profile"] = Missing /\ uid = NoUser)
      BY <1>1, <2>1, <2>2 DEF Recovers, ProfileFollows
    <3>2. uid # Missing
      BY <1>1, MissingAssumption DEF Inv, TypeOK
    <3> QED
      BY <3>1, <3>2 DEF LoadedUid
  <2>4. /\ RecentOf(library, storage["library_recent"]) \/ Alien(library, storage["library_recent"])
        /\ OthersOf(library, storage["library"]) \/ Alien(library, storage["library"])
    BY <1>1, <2>1, <2>2 DEF Recovers, LibraryFollows
  <2>5. library \in LibraryBucket /\ library.uid = uid /\ From(library, versions) /\ Distinct(versions)
    BY <1>1 DEF Inv, TypeOK, Recovers, Known
  <2>6. LoadedLibrary(storage, uid) = library
    BY <2>4, <2>5, FollowersMake DEF LoadedLibrary
  <2> QED
    BY <2>3, <2>6
<1>2. Inv /\ Recovers => DrainedIsRecoverable
  BY <1>1 DEF DrainedIsRecoverable
<1> QED
  BY <1>2, SpecRecovers, PTL

\* What a slot will hold is there already, or in a write that waits.
LEMMA HeldOrWaiting ==
  ASSUME Inv, Recovers, failed = {}, NEW s \in LibrarySlots, NEW id, NEW v, Holds(v, id),
         Leaves(queue, storage, {}, s, Len(queue), v)
  PROVE  \/ \E t \in LibrarySlots : Holds(storage[t], id)
         \/ \E i \in DOMAIN queue : \E w \in queue[i].todo : w.slot \in LibrarySlots /\ Holds(w.value, id)
<1>1. CASE v = storage[s]
  BY <1>1
<1>2. ASSUME NEW k \in 1 .. Len(queue), Sets(queue[k], s, v)
      PROVE  \/ \E t \in LibrarySlots : Holds(storage[t], id)
             \/ \E i \in DOMAIN queue : \E w \in queue[i].todo : w.slot \in LibrarySlots /\ Holds(w.value, id)
  <2>1. k \in DOMAIN queue
    BY <1>2 DEF Inv
  <2>2. PICK w \in queue[k].all : w.slot = s /\ w.value = v
    BY <1>2 DEF Sets
  <2>3. CASE w \in queue[k].todo
    BY <2>1, <2>2, <2>3
  <2>4. CASE w \notin queue[k].todo
    <3>1. k = 1 /\ queue # <<>>
      BY <1>2, <2>2, <2>4 DEF Recovers, Orderly
    <3>2. storage[s] = v
      BY <2>2, <2>4, <3>1 DEF Recovers, Waiting
    <3> QED
      BY <3>2
  <2> QED
    BY <2>3, <2>4
<1> QED
  BY <1>1, <1>2 DEF Leaves

\* While no slot's last write has failed, the current version of each item in
\* memory is in a slot or in a write that waits: a process that stops between two
\* writes loses at most what the queue still had to write, for any number of items
\* and of jobs (update_and_push_items_to_storage, update_library.rs:302).
THEOREM NothingLost == Spec => []LostOnlyWhatWaits
<1>1. ASSUME Inv, Recovers, failed = {}, ~torn, NEW id \in Present(library.items)
      PROVE  \/ \E s \in LibrarySlots : Holds(storage[s], id)
             \/ \E i \in DOMAIN queue : \E w \in queue[i].todo :
                  w.slot \in LibrarySlots /\ Holds(w.value, id)
  <2>1. /\ library \in LibraryBucket /\ library.items \in ItemMap /\ library.uid = uid
        /\ From(library, versions) /\ Distinct(versions)
    BY <1>1 DEF Inv, TypeOK, Recovers, Known, LibraryBucket
  <2>2. id \in Ids /\ library.items # NoItems
    BY <1>1 DEF Present, NoItems
  <2>3. Bad = {}
    BY <1>1 DEF Bad
  <2>4. PICK r : Leaves(queue, storage, {}, "library_recent", Len(queue), r)
    BY <1>1 DEF Recovers, Ends, Slots, LibrarySlots
  <2>5. PICK o : Leaves(queue, storage, {}, "library", Len(queue), o)
    BY <1>1 DEF Recovers, Ends, Slots, LibrarySlots
  <2>6. PICK R \in Recents(library.items) : r = New(library.uid, Part(library.items, R))
    BY <1>1, <2>2, <2>3, <2>4 DEF Recovers, LibraryFollows, RecentOf, Alien
  <2>7. OthersOf(library, o)
    BY <1>1, <2>2, <2>3, <2>5 DEF Recovers, LibraryFollows, Alien
  <2>8. \A S : LET p == New(library.uid, Part(library.items, S)) IN id \in S => Holds(p, id)
    <3> SUFFICES ASSUME NEW S, id \in S
                 PROVE  Holds(New(library.uid, Part(library.items, S)), id)
      OBVIOUS
    <3>1. New(library.uid, Part(library.items, S)) \in LibraryBucket
      BY <2>1 DEF New, Part, LibraryBucket, ItemMap
    <3> QED
      BY <2>1, <2>2, <3>1, MissingAssumption DEF Holds, New, Part
  <2>9. \A S \in Recents(library.items) : S = R
    BY <2>1, OneVersionATime, RecentsAreOne
  <2>10. CASE id \in R
    <3>1. Holds(r, id)
      BY <2>6, <2>8, <2>10
    <3> QED
      BY <1>1, <2>4, <3>1, HeldOrWaiting DEF LibrarySlots
  <2>11. CASE id \notin R
    <3>1. o = New(library.uid, Part(library.items, Ids \ R))
      BY <1>1, <2>7, <2>9, <2>11 DEF OthersOf
    <3>2. Holds(o, id)
      BY <2>2, <2>8, <2>11, <3>1
    <3> QED
      BY <1>1, <2>5, <3>2, HeldOrWaiting DEF LibrarySlots
  <2> QED
    BY <2>10, <2>11
<1>2. Inv /\ Recovers => LostOnlyWhatWaits
  BY <1>1 DEF LostOnlyWhatWaits
<1> QED
  BY <1>2, SpecRecovers, PTL
=============================================================================
