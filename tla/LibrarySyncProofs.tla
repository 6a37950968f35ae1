------------------------- MODULE LibrarySyncProofs --------------------------
(***************************************************************************)
(* Proofs about LibrarySync for any number of devices, items, sessions and *)
(* requests under way, with any clocks ahead.                              *)
(*                                                                         *)
(* What a device holds comes from edits, from answers and from the         *)
(* datastore, so the invariant follows versions through all of them: each  *)
(* was written by somebody (Written), at a time that no clock has passed   *)
(* (InTime).  From the first and from merging by time, LibraryReplicas is  *)
(* implemented; from the second, no device whose clock is ahead of all     *)
(* finds its own edit rejected.                                            *)
(***************************************************************************)
EXTENDS LibrarySync, TLAPS

LEMMA MergeType ==
  ASSUME NEW items \in ItemMap, NEW new \in ItemMap
  PROVE  MergeItems(items, new) \in ItemMap
BY DEF MergeItems, ItemMap

LEMMA PartType ==
  ASSUME NEW items \in ItemMap, NEW S
  PROVE  Part(items, S) \in ItemMap
BY DEF Part, ItemMap

LEMMA NoItemsType == NoItems \in ItemMap
BY DEF NoItems, ItemMap

LEMMA PresentType ==
  ASSUME NEW items \in ItemMap
  PROVE  Present(items) \in SUBSET Ids
BY DEF Present

LEMMA PutType ==
  ASSUME NEW d \in Devices, SignedIn(d), TypeOK, NEW items \in ItemMap
  PROVE  Put(d, items) \in Request
<1>1. session[d] \in 0 .. 2 * MaxSessions /\ MaxSessions \in Nat /\ session[d] % 2 = 1
  BY TimeAssumption DEF TypeOK, SignedIn
<1>2. Key(d) \in 1 .. MaxSessions
  BY <1>1 DEF Key
<1> QED
  BY <1>2 DEF Put, Request

LEMMA GetType ==
  ASSUME NEW d \in Devices, SignedIn(d), TypeOK, NEW ids \in SUBSET Ids
  PROVE  Get(d, ids) \in Request
<1>1. Put(d, NoItems) \in Request
  BY PutType, NoItemsType
<1> QED
  BY <1>1 DEF Get, Request

LEMMA MetaType ==
  ASSUME NEW d \in Devices, SignedIn(d), TypeOK
  PROVE  Meta(d) \in Request
<1>1. Put(d, library[d]) \in Request
  BY PutType DEF TypeOK
<1> QED
  BY <1>1 DEF Meta, Request
-----------------------------------------------------------------------------
(* Versions, from the edit that wrote them to wherever they are. *)

\* Every version in a map of items was written by somebody.
From(items, versions) ==
  \A id \in Ids : items[id] # Absent => [id |-> id, item |-> items[id]] \in versions

Known ==
  /\ From(remote, written)
  /\ \A d \in Devices : From(library[d], written)
  /\ \A s \in Slots : flight[s] # Free => From(flight[s].items, written)

\* No version is later than the latest clock.
InTime == \A v \in written : v.item.mtime <= clock + (IF Ahead = {} THEN 0 ELSE 1)

SyncInv == TypeOK /\ Known /\ InTime

LEMMA FromMerge ==
  ASSUME NEW items, NEW new, NEW versions, From(items, versions), From(new, versions)
  PROVE  From(MergeItems(items, new), versions)
BY DEF From, MergeItems

LEMMA FromPart ==
  ASSUME NEW items, NEW S, NEW versions, From(items, versions)
  PROVE  From(Part(items, S), versions)
BY DEF From, Part

LEMMA FromNone ==
  ASSUME NEW versions
  PROVE  From(NoItems, versions)
BY DEF From, NoItems

LEMMA FromMore ==
  ASSUME NEW items, NEW versions, NEW more, versions \subseteq more, From(items, versions)
  PROVE  From(items, more)
BY DEF From

LEMMA SyncInit == Init => SyncInv
<1> SUFFICES ASSUME Init PROVE SyncInv
  OBVIOUS
<1>1. TypeOK
  BY NoItemsType, TimeAssumption DEF Init, TypeOK
<1>2. Known
  BY FromNone DEF Init, Known
<1> QED
  BY <1>1, <1>2 DEF Init, InTime, SyncInv

\* A step that writes no version and lets no clock go back leaves all in time.
LEMMA InTimeStays ==
  ASSUME InTime, TypeOK, written' = written, clock' \in Nat, clock' >= clock
  PROVE  InTime'
<1>1. \A v \in written : v.item.mtime \in Nat
  BY DEF TypeOK, Item
<1> QED
  BY <1>1, TimeAssumption DEF InTime, TypeOK

\* The item an edit makes, and the items that are pushed.
LEMMA EditType ==
  ASSUME NEW d \in Devices, NEW id \in Ids, NEW body \in Bodies, TypeOK
  PROVE  /\ [mtime |-> Now(d), body |-> body, owner |-> NoUser] \in Item
         /\ [NoItems EXCEPT ![id] = [mtime |-> Now(d), body |-> body, owner |-> NoUser]] \in ItemMap
<1>1. Now(d) \in Nat
  BY TimeAssumption DEF TypeOK, Now
<1> QED
  BY <1>1 DEF Item, UID, NoItems, ItemMap

LEMMA EditKeeps ==
  ASSUME SyncInv, NEW d \in Devices, NEW id \in Ids, NEW body \in Bodies, UpdateLibraryItem(d, id, body)
  PROVE  SyncInv'
<1> DEFINE item == [mtime |-> Now(d), body |-> body, owner |-> NoUser]
           items == [NoItems EXCEPT ![id] = item]
<1>1. item \in Item /\ items \in ItemMap
  BY EditType DEF SyncInv
<1>2. written' = written \cup {[id |-> id, item |-> item]}
  BY DEF UpdateLibraryItem
<1>3. From(items, written')
  BY <1>1, <1>2 DEF From, NoItems, ItemMap
<1>4. TypeOK'
  <2>1. library' \in [Devices -> ItemMap]
    <3>1. MergeItems(library[d], items) \in ItemMap
      BY <1>1, MergeType DEF SyncInv, TypeOK
    <3> QED
      BY <3>1 DEF UpdateLibraryItem, SyncInv, TypeOK
  <2>2. flight' \in [Slots -> Request \cup {Free}]
    <3>1. CASE SignedIn(d)
      <4>1. Put(d, items) \in Request
        BY <1>1, <3>1, PutType DEF SyncInv
      <4> QED
        BY <3>1, <4>1 DEF UpdateLibraryItem, SyncInv, TypeOK, FreeSlots
    <3>2. CASE ~SignedIn(d)
      BY <3>2 DEF UpdateLibraryItem, SyncInv, TypeOK
    <3> QED
      BY <3>1, <3>2
  <2>3. written' \subseteq [id : Ids, item : Item]
    BY <1>1, <1>2 DEF SyncInv, TypeOK
  <2> QED
    BY <2>1, <2>2, <2>3 DEF UpdateLibraryItem, SyncInv, TypeOK
<1>5. Known'
  <2>0. written \subseteq written'
    BY <1>2
  <2>1. From(remote', written')
    BY <2>0, FromMore DEF UpdateLibraryItem, SyncInv, Known
  <2>2. \A e \in Devices : From(library'[e], written')
    <3>1. \A e \in Devices : From(library[e], written')
      BY <2>0, FromMore DEF SyncInv, Known
    <3>2. From(MergeItems(library[d], items), written')
      BY <1>3, <3>1, FromMerge
    <3> QED
      BY <3>1, <3>2 DEF UpdateLibraryItem, SyncInv, TypeOK
  <2>3. \A s \in Slots : flight'[s] # Free => From(flight'[s].items, written')
    <3>1. \A s \in Slots : flight[s] # Free => From(flight[s].items, written')
      BY <2>0, FromMore DEF SyncInv, Known
    <3>2. Put(d, items).items = items
      BY DEF Put
    <3> QED
      BY <1>3, <3>1, <3>2 DEF UpdateLibraryItem, SyncInv, TypeOK, FreeSlots
  <2> QED
    BY <2>1, <2>2, <2>3 DEF Known
<1>6. InTime'
  <2>1. item.mtime <= clock + (IF Ahead = {} THEN 0 ELSE 1)
    BY TimeAssumption DEF SyncInv, TypeOK, Now
  <2> QED
    BY <1>2, <2>1 DEF UpdateLibraryItem, SyncInv, InTime
<1> QED
  BY <1>4, <1>5, <1>6 DEF SyncInv

LEMMA SyncKeeps ==
  ASSUME SyncInv, NEW d \in Devices, SyncLibraryWithAPI(d)
  PROVE  SyncInv'
<1>1. Meta(d) \in Request /\ Meta(d).items = library[d]
  <2>1. Meta(d).items = library[d]
    BY DEF Meta, Put
  <2> QED
    BY <2>1, MetaType DEF SyncLibraryWithAPI, SyncInv
<1>2. flight' \in [Slots -> Request \cup {Free}]
  BY <1>1 DEF SyncLibraryWithAPI, SyncInv, TypeOK, FreeSlots
<1>3. touched' \in [Devices -> SUBSET Ids]
  <2>1. \A r \in Request : MayWrite(r) \subseteq Ids
    BY PresentType DEF MayWrite, Request
  <2>2. \A s \in Slots \ FreeSlots : MayWrite(flight[s]) \subseteq Ids
    BY <2>1 DEF FreeSlots, SyncInv, TypeOK
  <2> QED
    BY <2>2 DEF SyncLibraryWithAPI, SyncInv, TypeOK
<1>4. TypeOK'
  BY <1>2, <1>3 DEF SyncLibraryWithAPI, SyncInv, TypeOK
<1>5. Known'
  BY <1>1 DEF SyncLibraryWithAPI, SyncInv, TypeOK, Known, FreeSlots
<1>6. InTime'
  BY InTimeStays, TimeAssumption DEF SyncLibraryWithAPI, SyncInv, TypeOK
<1> QED
  BY <1>4, <1>5, <1>6 DEF SyncInv

LEMMA SessionKeeps ==
  ASSUME SyncInv, NEW d \in Devices, CtxAuthResult(d) \/ Logout(d)
  PROVE  SyncInv'
<1>1. session' \in [Devices -> 0 .. 2 * MaxSessions]
  <2>1. session[d] \in 0 .. 2 * MaxSessions
    BY DEF SyncInv, TypeOK
  <2>2. SignedIn(d) => session[d] + 1 <= 2 * MaxSessions
    BY <2>1, TimeAssumption DEF SignedIn
  <2> QED
    BY <2>1, <2>2, TimeAssumption DEF CtxAuthResult, Logout, SyncInv, TypeOK
<1>2. TypeOK'
  BY <1>1, NoItemsType DEF CtxAuthResult, Logout, SyncInv, TypeOK
<1>3. Known'
  BY FromNone DEF CtxAuthResult, Logout, SyncInv, TypeOK, Known
<1>4. InTime'
  BY InTimeStays, TimeAssumption DEF CtxAuthResult, Logout, SyncInv, TypeOK
<1> QED
  BY <1>2, <1>3, <1>4 DEF SyncInv

LEMMA PlanKeeps ==
  ASSUME SyncInv, NEW s \in Slots, LibrarySyncPlanResult(s)
  PROVE  SyncInv'
<1> DEFINE r == flight[s]
           push == r.push \cap Present(library[r.device])
           put == IF push = {} THEN Free ELSE Put(r.device, Part(library[r.device], push))
           get == IF r.pull = {} THEN Free ELSE Get(r.device, r.pull)
<1>1. r \in Request
  BY DEF LibrarySyncPlanResult, Answered, SyncInv, TypeOK
<1>2. r.device \in Devices /\ r.pull \in SUBSET Ids /\ library[r.device] \in ItemMap
  BY <1>1 DEF Request, SyncInv, TypeOK
<1>3. CASE Current(r) /\ r.answer = "ok"
  <2>1. put \in Request \cup {Free} /\ (put # Free => From(put.items, written))
    <3>1. SignedIn(r.device)
      BY <1>3 DEF Current
    <3>2. Part(library[r.device], push) \in ItemMap /\ From(Part(library[r.device], push), written)
      BY <1>2, PartType, FromPart DEF SyncInv, Known
    <3>3. Put(r.device, Part(library[r.device], push)) \in Request
      BY <1>2, <3>1, <3>2, PutType DEF SyncInv
    <3>4. Put(r.device, Part(library[r.device], push)).items = Part(library[r.device], push)
      BY DEF Put
    <3> QED
      BY <3>2, <3>3, <3>4
  <2>2. get \in Request \cup {Free} /\ (get # Free => From(get.items, written))
    <3>1. SignedIn(r.device)
      BY <1>3 DEF Current
    <3>2. Get(r.device, r.pull) \in Request
      BY <1>2, <3>1, GetType DEF SyncInv
    <3>3. Get(r.device, r.pull).items = NoItems
      BY DEF Get, Put
    <3> QED
      BY <3>2, <3>3, FromNone
  <2>3. /\ \/ flight' = [flight EXCEPT ![s] = IF put = Free THEN get ELSE put]
           \/ \E t \in FreeSlots : flight' = [flight EXCEPT ![s] = put, ![t] = get]
        /\ UNCHANGED <<clock, library, session, remote, written, touched>>
    <3>1. r # Free
      BY DEF LibrarySyncPlanResult, Answered
    <3> HIDE DEF put, get
    <3> QED
      BY <1>3 DEF LibrarySyncPlanResult, put, get
  <2> HIDE DEF put, get
  <2>4. TypeOK'
    BY <2>1, <2>2, <2>3 DEF SyncInv, TypeOK, FreeSlots
  <2>5. Known'
    BY <2>1, <2>2, <2>3 DEF SyncInv, TypeOK, Known, FreeSlots
  <2>6. InTime'
    BY <2>3, InTimeStays, TimeAssumption DEF SyncInv, TypeOK
  <2> QED
    BY <2>4, <2>5, <2>6 DEF SyncInv
<1>4. CASE ~(Current(r) /\ r.answer = "ok")
  <2>1. /\ flight' = [flight EXCEPT ![s] = Free]
        /\ touched' = [touched EXCEPT ![r.device] = Ids]
        /\ UNCHANGED <<clock, library, session, remote, written>>
    BY <1>4 DEF LibrarySyncPlanResult, Untold
  <2>2. TypeOK'
    BY <2>1 DEF SyncInv, TypeOK
  <2>3. Known'
    BY <2>1 DEF SyncInv, TypeOK, Known
  <2>4. InTime'
    BY <2>1, InTimeStays, TimeAssumption DEF SyncInv, TypeOK
  <2> QED
    BY <2>2, <2>3, <2>4 DEF SyncInv
<1> QED
  BY <1>3, <1>4

LEMMA PullKeeps ==
  ASSUME SyncInv, NEW s \in Slots, LibraryPullResult(s)
  PROVE  SyncInv'
<1> DEFINE r == flight[s]
<1>1. r \in Request /\ r # Free
  BY DEF LibraryPullResult, Answered, SyncInv, TypeOK
<1>2. r.device \in Devices /\ r.items \in ItemMap /\ From(r.items, written)
  BY <1>1 DEF Request, SyncInv, Known
<1>3. MergeItems(library[r.device], r.items) \in ItemMap
      /\ From(MergeItems(library[r.device], r.items), written)
  BY <1>2, MergeType, FromMerge DEF SyncInv, TypeOK, Known
<1>4. TypeOK'
  BY <1>2, <1>3 DEF LibraryPullResult, Untold, SyncInv, TypeOK
<1>5. Known'
  BY <1>2, <1>3 DEF LibraryPullResult, SyncInv, TypeOK, Known
<1>6. InTime'
  BY InTimeStays, TimeAssumption DEF LibraryPullResult, SyncInv, TypeOK
<1> QED
  BY <1>4, <1>5, <1>6 DEF SyncInv

LEMMA ServePutKeeps ==
  ASSUME SyncInv, NEW s \in Slots, ServePut(s)
  PROVE  SyncInv'
<1> DEFINE r == flight[s]
<1>1. r \in Request /\ r # Free
  BY DEF ServePut, Waits, SyncInv, TypeOK
<1>2. r.device \in Devices /\ r.items \in ItemMap /\ From(r.items, written)
  BY <1>1 DEF Request, SyncInv, Known
<1>3. remote' \in ItemMap /\ From(remote', written)
  BY <1>2 DEF ServePut, SyncInv, TypeOK, Known, ItemMap, From
<1>4. touched' \in [Devices -> SUBSET Ids]
  BY <1>2, PresentType DEF ServePut, Untold, SyncInv, TypeOK
<1>5. TypeOK'
  BY <1>3, <1>4 DEF ServePut, SyncInv, TypeOK
<1>6. Known'
  BY <1>3 DEF ServePut, SyncInv, TypeOK, Known
<1>7. InTime'
  BY InTimeStays, TimeAssumption DEF ServePut, SyncInv, TypeOK
<1> QED
  BY <1>5, <1>6, <1>7 DEF SyncInv

LEMMA ServeMetaKeeps ==
  ASSUME SyncInv, NEW s \in Slots, ServeMeta(s)
  PROVE  SyncInv'
<1> DEFINE r == flight[s]
           ok == [r EXCEPT !.answer = "ok", !.pull = PullIds(r.items), !.push = PushIds(r.items), !.items = NoItems]
           failed == [r EXCEPT !.answer = "failed"]
<1>1. r \in Request /\ r # Free
  BY DEF ServeMeta, Waits, SyncInv, TypeOK
<1>2. PullIds(r.items) \in SUBSET Ids /\ PushIds(r.items) \in SUBSET Ids
  BY DEF PullIds, PushIds, Present
<1>3. ok \in Request /\ failed \in Request /\ ok.items = NoItems /\ failed.items = r.items
  BY <1>1, <1>2, NoItemsType DEF Request
<1>4. flight' = [flight EXCEPT ![s] = ok] \/ flight' = [flight EXCEPT ![s] = failed]
  BY DEF ServeMeta
<1> HIDE DEF ok, failed
<1>5. TypeOK'
  BY <1>3, <1>4 DEF ServeMeta, SyncInv, TypeOK
<1>6. Known'
  <2>1. From(ok.items, written) /\ From(failed.items, written)
    BY <1>1, <1>3, FromNone DEF SyncInv, Known
  <2> QED
    BY <1>4, <2>1 DEF ServeMeta, SyncInv, TypeOK, Known
<1>7. InTime'
  BY InTimeStays, TimeAssumption DEF ServeMeta, SyncInv, TypeOK
<1> QED
  BY <1>5, <1>6, <1>7 DEF SyncInv

LEMMA ServeGetKeeps ==
  ASSUME SyncInv, NEW s \in Slots, ServeGet(s)
  PROVE  SyncInv'
<1> DEFINE r == flight[s]
           ok == [r EXCEPT !.answer = "ok", !.items = Part(remote, r.pull)]
           failed == [r EXCEPT !.answer = "failed"]
<1>1. r \in Request /\ r # Free
  BY DEF ServeGet, Waits, SyncInv, TypeOK
<1>2. Part(remote, r.pull) \in ItemMap /\ From(Part(remote, r.pull), written)
  BY PartType, FromPart DEF SyncInv, TypeOK, Known
<1>3. ok \in Request /\ failed \in Request /\ ok.items = Part(remote, r.pull) /\ failed.items = r.items
  BY <1>1, <1>2 DEF Request
<1>4. flight' = [flight EXCEPT ![s] = ok] \/ flight' = [flight EXCEPT ![s] = failed]
  BY DEF ServeGet
<1> HIDE DEF ok, failed
<1>5. TypeOK'
  BY <1>3, <1>4 DEF ServeGet, SyncInv, TypeOK
<1>6. Known'
  <2>1. From(ok.items, written) /\ From(failed.items, written)
    BY <1>1, <1>2, <1>3 DEF SyncInv, Known
  <2> QED
    BY <1>4, <2>1 DEF ServeGet, SyncInv, TypeOK, Known
<1>7. InTime'
  BY InTimeStays, TimeAssumption DEF ServeGet, SyncInv, TypeOK
<1> QED
  BY <1>5, <1>6, <1>7 DEF SyncInv

LEMMA TickKeeps ==
  ASSUME SyncInv, Tick
  PROVE  SyncInv'
<1>1. TypeOK' /\ Known'
  BY TimeAssumption DEF Tick, SyncInv, TypeOK, Known
<1>2. InTime'
  BY InTimeStays, TimeAssumption DEF Tick, SyncInv, TypeOK
<1> QED
  BY <1>1, <1>2 DEF SyncInv

LEMMA SyncNext ==
  ASSUME SyncInv, [Next]_vars
  PROVE  SyncInv'
<1>1. CASE UNCHANGED vars
  BY <1>1 DEF vars, SyncInv, TypeOK, Known, InTime
<1>2. CASE Next
  BY <1>2, EditKeeps, SyncKeeps, SessionKeeps, PlanKeeps, PullKeeps, ServePutKeeps, ServeMetaKeeps,
     ServeGetKeeps, TickKeeps DEF Next
<1> QED
  BY <1>1, <1>2

LEMMA SyncSpec == Spec => []SyncInv
BY SyncInit, SyncNext, PTL DEF Spec

\* Libraries, sessions, the datastore and requests keep their types.
THEOREM TypeCorrect == Spec => []TypeOK
<1>1. SyncInv => TypeOK
  BY DEF SyncInv
<1> QED
  BY <1>1, SyncSpec, PTL
-----------------------------------------------------------------------------
(* What the devices make of it. *)

\* An edit under a clock that none is ahead of passes the merge.
LEMMA EditWins ==
  ASSUME SyncInv, NEW d \in Devices, NEW id \in Ids, NEW body \in Bodies,
         Foremost(d), UpdateLibraryItem(d, id, body)
  PROVE  library'[d][id] # Absent /\ library'[d][id].body = body
<1> DEFINE item == [mtime |-> Now(d), body |-> body, owner |-> NoUser]
           items == [NoItems EXCEPT ![id] = item]
<1>1. item # Absent /\ items[id] = item
  BY EditType, AbsentAssumption DEF SyncInv, NoItems
<1>2. library[d][id] # Absent => library[d][id].mtime <= Now(d)
  <2>1. SUFFICES ASSUME library[d][id] # Absent
                 PROVE  library[d][id].mtime <= Now(d)
    OBVIOUS
  <2>2. [id |-> id, item |-> library[d][id]] \in written
    BY <2>1 DEF SyncInv, Known, From
  <2>3. library[d][id].mtime <= clock + (IF Ahead = {} THEN 0 ELSE 1)
    BY <2>2 DEF SyncInv, InTime
  <2> QED
    BY <2>3 DEF Foremost, Now
<1>3. MergeItems(library[d], items)[id] = item
  BY <1>1, <1>2 DEF MergeItems
<1>4. library'[d] = MergeItems(library[d], items)
  BY DEF UpdateLibraryItem, SyncInv, TypeOK
<1> QED
  BY <1>1, <1>3, <1>4

\* A device that no clock is ahead of finds its edit in its library, whatever was
\* pulled before (library_bucket.rs:36).
THEOREM EditsAreKept == Spec => EditIsKept
<1>1. SyncInv /\ [Next]_vars =>
        [\A d \in Devices, id \in Ids, body \in Bodies :
           Foremost(d) /\ UpdateLibraryItem(d, id, body) =>
             library'[d][id] # Absent /\ library'[d][id].body = body]_vars
  BY EditWins
<1> QED
  BY <1>1, SyncSpec, PTL DEF Spec, EditIsKept

\* Merging advances a device: what it has gives way to later versions only.
LEMMA MergeAdvances ==
  ASSUME SyncInv, NEW d \in Devices, NEW new \in ItemMap, From(new, written'), written \subseteq written',
         library' = [library EXCEPT ![d] = MergeItems(library[d], new)], UNCHANGED session
  PROVE  Replicas!Next
<1>1. Replicas!Others(d)
  BY DEF Replicas!Others, SyncInv, TypeOK
<1>2. ASSUME NEW id \in Ids
      PROVE  \/ library'[d][id] = library[d][id]
             \/ /\ Replicas!Newer(library[d][id], library'[d][id])
                /\ Replicas!WasWritten(id, library'[d][id])
  BY DEF MergeItems, SyncInv, TypeOK, From, Replicas!Newer, Replicas!WasWritten
<1> QED
  BY <1>1, <1>2 DEF Replicas!Next, Replicas!Advance

LEMMA Refines ==
  ASSUME SyncInv, [Next]_vars
  PROVE  [Replicas!Next]_(Replicas!vars)
<1> USE DEF Replicas!vars
<1>1. ASSUME NEW d \in Devices, NEW id \in Ids, NEW body \in Bodies, UpdateLibraryItem(d, id, body)
      PROVE  Replicas!Next
  <2> DEFINE item == [mtime |-> Now(d), body |-> body, owner |-> NoUser]
             items == [NoItems EXCEPT ![id] = item]
  <2>1. items \in ItemMap
    BY EditType DEF SyncInv
  <2>2. written' = written \cup {[id |-> id, item |-> item]}
    BY <1>1 DEF UpdateLibraryItem
  <2>3. From(items, written')
    BY <2>2 DEF From, NoItems
  <2>4. library' = [library EXCEPT ![d] = MergeItems(library[d], items)] /\ UNCHANGED session
    BY <1>1 DEF UpdateLibraryItem
  <2> QED
    BY <2>1, <2>2, <2>3, <2>4, MergeAdvances
<1>2. ASSUME NEW s \in Slots, LibraryPullResult(s)
      PROVE  Replicas!Next \/ UNCHANGED Replicas!vars
  <2> DEFINE r == flight[s]
  <2>1. r \in Request /\ From(r.items, written)
    BY <1>2 DEF LibraryPullResult, Answered, SyncInv, TypeOK, Known
  <2>2. r.device \in Devices /\ r.items \in ItemMap
    BY <2>1 DEF Request
  <2>3. CASE Current(r) /\ r.answer = "ok"
    <3>1. library' = [library EXCEPT ![r.device] = MergeItems(library[r.device], r.items)]
          /\ UNCHANGED <<session, written>>
      BY <1>2, <2>3 DEF LibraryPullResult
    <3> QED
      BY <2>1, <2>2, <3>1, MergeAdvances
  <2>4. CASE ~(Current(r) /\ r.answer = "ok")
    BY <1>2, <2>4 DEF LibraryPullResult
  <2> QED
    BY <2>3, <2>4
<1>3. ASSUME NEW d \in Devices, CtxAuthResult(d) \/ Logout(d)
      PROVE  Replicas!Next
  <2>1. session'[d] # session[d] /\ Replicas!Others(d) /\ UNCHANGED written
    <3>1. session[d] \in Nat
      BY TimeAssumption DEF SyncInv, TypeOK
    <3> QED
      BY <1>3, <3>1 DEF CtxAuthResult, Logout, Replicas!Others, SyncInv, TypeOK
  <2>2. \A id \in Ids : library'[d][id] = Absent \/ Replicas!WasWritten(id, library'[d][id])
    <3>1. library'[d] = remote \/ library'[d] = NoItems
      BY <1>3 DEF CtxAuthResult, Logout, SyncInv, TypeOK
    <3> QED
      BY <2>1, <3>1 DEF SyncInv, Known, From, NoItems, Replicas!WasWritten
  <2> QED
    BY <2>1, <2>2 DEF Replicas!Next, Replicas!Reset
<1>4. ASSUME NEW d \in Devices, SyncLibraryWithAPI(d)
      PROVE  UNCHANGED Replicas!vars
  BY <1>4 DEF SyncLibraryWithAPI
<1>5. ASSUME NEW s \in Slots, LibrarySyncPlanResult(s) \/ ServePut(s) \/ ServeMeta(s) \/ ServeGet(s)
      PROVE  UNCHANGED Replicas!vars
  BY <1>5 DEF LibrarySyncPlanResult, ServePut, ServeMeta, ServeGet
<1>6. CASE Tick
  BY <1>6 DEF Tick
<1>7. CASE UNCHANGED vars
  BY <1>7 DEF vars
<1> QED
  BY <1>1, <1>2, <1>3, <1>4, <1>5, <1>6, <1>7 DEF Next

\* No device ever holds what nobody wrote, loses an item or goes back to an earlier
\* version of one within a session (update_library.rs:254).
THEOREM KeepsTheLatest == Spec => KeepsLatest
<1>1. Init => Replicas!Init
  BY DEF Init, Replicas!Init, NoItems
<1> QED
  BY <1>1, Refines, SyncSpec, PTL DEF Spec, KeepsLatest, Replicas!Spec
-----------------------------------------------------------------------------
(* What a sync leaves behind. *)

\* A request that a device's sync of an item has nothing to do with.
Aside(r, d, id) == r = Free \/ r.device # d \/ (r.kind # "Meta" /\ id \notin MayWrite(r))

Pulls(d, id) == id \in PullIds(library[d])
Pushes(d, id) == id \in PushIds(library[d])

InPlan(r, d, id) ==
  /\ r.kind = "Meta"
  /\ r.answer = "none" => r.items[id] = library[d][id]
  /\ r.answer = "ok" => (id \in r.pull <=> Pulls(d, id)) /\ (id \in r.push <=> Pushes(d, id))

InPull(r, d, id) ==
  /\ r.kind = "Get" /\ id \in r.pull /\ Pulls(d, id)
  /\ r.answer = "ok" => r.items[id] = remote[id]

InPush(r, d, id) == r.kind = "Put" /\ r.items[id] = library[d][id] /\ Pushes(d, id)

\* The request that a device's sync of an item waits for, the only one about it.
Awaited(s, d, id) ==
  /\ flight[s] # Free /\ flight[s].device = d /\ flight[s].key = Key(d)
  /\ InPlan(flight[s], d, id) \/ InPull(flight[s], d, id) \/ InPush(flight[s], d, id)
  /\ \A t \in Slots \ {s} : Aside(flight[t], d, id)

Settled(d, id) == Agree(d, id) /\ \A s \in Slots : Aside(flight[s], d, id)

Followed(d, id) == SignedIn(d) /\ (Settled(d, id) \/ \E s \in Slots : Awaited(s, d, id))

AgreeInv ==
  /\ \A s \in Slots : flight[s] # Free /\ flight[s].kind = "Get" => Present(flight[s].items) \subseteq flight[s].pull
  /\ \A d \in Devices : \A id \in Ids \ touched[d] : Followed(d, id)

\* A step that changes nothing of an item but requests aside.
Leaves(d, id) ==
  /\ library'[d][id] = library[d][id] /\ remote'[id] = remote[id] /\ session'[d] = session[d]
  /\ \A s \in Slots : flight'[s] = flight[s] \/ (Aside(flight[s], d, id) /\ Aside(flight'[s], d, id))

LEMMA Frame ==
  ASSUME NEW d \in Devices, NEW id \in Ids, Followed(d, id), Leaves(d, id)
  PROVE  Followed(d, id)'
<1> USE DEF Leaves
<1>1. SignedIn(d)' /\ Key(d)' = Key(d)
  BY DEF Followed, SignedIn, Key
<1>2. (Pulls(d, id)' <=> Pulls(d, id)) /\ (Pushes(d, id)' <=> Pushes(d, id))
  BY DEF Pulls, Pushes, PullIds, PushIds, Older, Present
<1>3. Settled(d, id) => Settled(d, id)'
  BY DEF Settled, Agree
<1>4. ASSUME NEW s \in Slots, Awaited(s, d, id)
      PROVE  Awaited(s, d, id)'
  <2>1. ~Aside(flight[s], d, id)
    BY <1>4 DEF Awaited, Aside, InPlan, InPull, InPush, MayWrite, Pushes, PushIds, Present
  <2>2. flight'[s] = flight[s]
    BY <2>1
  <2>3. InPlan(flight[s], d, id) => InPlan(flight[s], d, id)'
    BY <1>2, <2>2 DEF InPlan
  <2>4. InPull(flight[s], d, id) => InPull(flight[s], d, id)'
    BY <1>2, <2>2 DEF InPull
  <2>5. InPush(flight[s], d, id) => InPush(flight[s], d, id)'
    BY <1>2, <2>2 DEF InPush
  <2>6. \A t \in Slots \ {s} : Aside(flight'[t], d, id)
    BY <1>4 DEF Awaited
  <2> QED
    BY <1>1, <1>4, <2>2, <2>3, <2>4, <2>5, <2>6 DEF Awaited
<1> QED
  BY <1>1, <1>3, <1>4 DEF Followed

\* A request that is not aside is the one awaited.
LEMMA OnlyOne ==
  ASSUME NEW d \in Devices, NEW id \in Ids, Followed(d, id), NEW s \in Slots, ~Aside(flight[s], d, id)
  PROVE  Awaited(s, d, id)
BY DEF Followed, Settled, Awaited

LEMMA SecondGrows ==
  ASSUME NEW a \in Nat, NEW b \in Nat, a >= b
  PROVE  a \div SECOND >= b \div SECOND
BY TimeAssumption

LEMMA AgreeInit == Init => AgreeInv
BY DEF Init, AgreeInv

\* What answers to Get hold is what was asked for.
GetsHold == \A s \in Slots : flight[s] # Free /\ flight[s].kind = "Get" => Present(flight[s].items) \subseteq flight[s].pull

LEMMA EditAgrees ==
  ASSUME SyncInv, AgreeInv, NEW e \in Devices, NEW x \in Ids, NEW body \in Bodies, UpdateLibraryItem(e, x, body)
  PROVE  AgreeInv'
<1> DEFINE items == [NoItems EXCEPT ![x] = [mtime |-> Now(e), body |-> body, owner |-> NoUser]]
<1>1. \A s \in Slots : flight'[s] = flight[s] \/ (flight[s] = Free /\ flight'[s] = Put(e, items))
  BY DEF UpdateLibraryItem, SyncInv, TypeOK, FreeSlots
<1>2. Put(e, items).kind = "Put" /\ Put(e, items).device = e /\ Put(e, items).items = items
  BY DEF Put
<1>3. GetsHold'
  BY <1>1, <1>2 DEF AgreeInv, GetsHold
<1>4. ASSUME NEW d \in Devices, NEW id \in Ids \ touched'[d]
      PROVE  Followed(d, id)'
  <2>1. id \notin touched[d] /\ (d = e => id # x)
    BY <1>4 DEF UpdateLibraryItem, SyncInv, TypeOK
  <2>2. Followed(d, id)
    BY <2>1 DEF AgreeInv
  <2>3. library'[d][id] = library[d][id]
    BY <2>1 DEF UpdateLibraryItem, SyncInv, TypeOK, MergeItems, NoItems
  <2>4. \A s \in Slots : flight'[s] = flight[s] \/ (Aside(flight[s], d, id) /\ Aside(flight'[s], d, id))
    <3>1. Aside(Put(e, items), d, id)
      BY <1>2, <2>1 DEF Aside, MayWrite, Present, NoItems
    <3> QED
      BY <1>1, <3>1 DEF Aside
  <2>5. Leaves(d, id)
    BY <2>3, <2>4 DEF Leaves, UpdateLibraryItem
  <2> QED
    BY <2>2, <2>5, Frame
<1> QED
  BY <1>3, <1>4 DEF AgreeInv, GetsHold

LEMMA SyncAgreesStep ==
  ASSUME SyncInv, AgreeInv, NEW e \in Devices, SyncLibraryWithAPI(e)
  PROVE  AgreeInv'
<1>1. PICK s \in FreeSlots : flight' = [flight EXCEPT ![s] = Meta(e)]
  BY DEF SyncLibraryWithAPI
<1>2. s \in Slots /\ flight[s] = Free /\ flight'[s] = Meta(e) /\ \A t \in Slots \ {s} : flight'[t] = flight[t]
  BY <1>1 DEF FreeSlots, SyncInv, TypeOK
<1>3. /\ Meta(e).kind = "Meta" /\ Meta(e).device = e /\ Meta(e).items = library[e] /\ Meta(e).answer = "none"
      /\ Meta(e).key = Key(e) /\ Meta(e) # Free
  <2>1. Meta(e) # Free
    BY MetaType, FreeAssumption DEF SyncLibraryWithAPI, SyncInv
  <2> QED
    BY <2>1 DEF Meta, Put
<1>4. GetsHold'
  BY <1>2, <1>3 DEF AgreeInv, GetsHold
<1>5. ASSUME NEW d \in Devices, NEW id \in Ids \ touched'[d]
      PROVE  Followed(d, id)'
  <2>1. CASE d # e
    <3>1. Followed(d, id)
      BY <2>1, <1>5 DEF AgreeInv, SyncLibraryWithAPI, SyncInv, TypeOK
    <3>2. \A t \in Slots : flight'[t] = flight[t] \/ (Aside(flight[t], d, id) /\ Aside(flight'[t], d, id))
      BY <1>2, <1>3, <2>1 DEF Aside
    <3>3. Leaves(d, id)
      BY <3>2 DEF Leaves, SyncLibraryWithAPI
    <3> QED
      BY <3>1, <3>3, Frame
  <2>2. CASE d = e
    <3>1. \A t \in Slots : flight[t] # Free /\ flight[t].device = d => id \notin MayWrite(flight[t])
      BY <2>2, <1>5 DEF SyncLibraryWithAPI, SyncInv, TypeOK, FreeSlots
    <3>2. \A t \in Slots : Aside(flight[t], d, id)
      BY <3>1 DEF Aside, MayWrite
    <3>3. InPlan(flight[s], d, id)'
      BY <1>2, <1>3, <2>2 DEF InPlan, SyncLibraryWithAPI
    <3>4. SignedIn(d)' /\ Key(d)' = Key(d)
      BY <2>2 DEF SyncLibraryWithAPI, SignedIn, Key
    <3>5. \A t \in Slots \ {s} : Aside(flight'[t], d, id)
      BY <3>2, <1>2
    <3>6. flight'[s] # Free /\ flight'[s].device = d /\ flight'[s].key = Key(d)'
      BY <1>2, <1>3, <2>2, <3>4
    <3>7. Awaited(s, d, id)'
      BY <3>3, <3>5, <3>6 DEF Awaited
    <3> QED
      BY <3>4, <3>7, <1>2 DEF Followed
  <2> QED
    BY <2>1, <2>2
<1> QED
  BY <1>4, <1>5 DEF AgreeInv, GetsHold

LEMMA SessionAgrees ==
  ASSUME SyncInv, AgreeInv, NEW e \in Devices, CtxAuthResult(e) \/ Logout(e)
  PROVE  AgreeInv'
<1>1. UNCHANGED <<remote, flight>> /\ touched' = [touched EXCEPT ![e] = Ids]
  BY DEF CtxAuthResult, Logout
<1>2. GetsHold'
  BY <1>1 DEF AgreeInv, GetsHold
<1>3. ASSUME NEW d \in Devices, NEW id \in Ids \ touched'[d]
      PROVE  Followed(d, id)'
  <2>1. d # e /\ id \notin touched[d]
    BY <1>1, <1>3 DEF SyncInv, TypeOK
  <2>2. library'[d] = library[d] /\ session'[d] = session[d]
    BY <2>1 DEF CtxAuthResult, Logout, SyncInv, TypeOK
  <2>3. Followed(d, id)
    BY <2>1 DEF AgreeInv
  <2>4. Leaves(d, id)
    BY <1>1, <2>2 DEF Leaves
  <2> QED
    BY <2>3, <2>4, Frame
<1> QED
  BY <1>2, <1>3 DEF AgreeInv, GetsHold

LEMMA SecondType ==
  ASSUME NEW item \in Item
  PROVE  Second(item) \in Nat
<1>1. item.mtime \in Nat
  BY DEF Item
<1>2. item.mtime \div SECOND \in Nat
  BY <1>1, TimeAssumption, Z3
<1> QED
  BY <1>2 DEF Second

\* With nothing to pull or to push of an item, both sides agree on it.
LEMMA NeitherWay ==
  ASSUME SyncInv, NEW d \in Devices, NEW id \in Ids, ~Pulls(d, id), ~Pushes(d, id)
  PROVE  Agree(d, id)
<1>1. library[d][id] # Absent => Second(library[d][id]) \in Nat
  BY SecondType DEF SyncInv, TypeOK, ItemMap
<1>2. remote[id] # Absent => Second(remote[id]) \in Nat
  BY SecondType DEF SyncInv, TypeOK, ItemMap
<1> QED
  BY <1>1, <1>2 DEF Agree, Pulls, Pushes, PullIds, PushIds, Older, Present

LEMMA NotBothWays ==
  ASSUME SyncInv, NEW d \in Devices, NEW id \in Ids, Pulls(d, id)
  PROVE  ~Pushes(d, id)
<1>1. library[d][id] # Absent => Second(library[d][id]) \in Nat
  BY SecondType DEF SyncInv, TypeOK, ItemMap
<1>2. remote[id] # Absent => Second(remote[id]) \in Nat
  BY SecondType DEF SyncInv, TypeOK, ItemMap
<1> QED
  BY <1>1, <1>2 DEF Pulls, Pushes, PullIds, PushIds, Older, Present

LEMMA PlanAgrees ==
  ASSUME SyncInv, AgreeInv, NEW s \in Slots, LibrarySyncPlanResult(s)
  PROVE  AgreeInv'
<1> DEFINE r == flight[s]
           push == r.push \cap Present(library[r.device])
           put == IF push = {} THEN Free ELSE Put(r.device, Part(library[r.device], push))
           get == IF r.pull = {} THEN Free ELSE Get(r.device, r.pull)
<1>1. r \in Request /\ r # Free /\ r.kind = "Meta" /\ r.answer # "none"
  BY DEF LibrarySyncPlanResult, Answered, SyncInv, TypeOK
<1>2. r.device \in Devices
  BY <1>1 DEF Request
<1>3. UNCHANGED <<library, session, remote>>
  BY DEF LibrarySyncPlanResult
<1>4. CASE Current(r) /\ r.answer = "ok"
  <2>1. /\ put # Free => /\ put.kind = "Put" /\ put.device = r.device /\ put.key = Key(r.device)
                         /\ put.items = Part(library[r.device], push)
        /\ get # Free => /\ get.kind = "Get" /\ get.device = r.device /\ get.key = Key(r.device)
                         /\ get.items = NoItems /\ get.pull = r.pull /\ get.answer = "none"
    BY DEF Put, Get
  <2>2. /\ push # {} => put # Free
        /\ r.pull # {} => get # Free
    <3>1. SignedIn(r.device) /\ r.pull \in SUBSET Ids /\ library[r.device] \in ItemMap
      BY <1>1, <1>2, <1>4 DEF Current, Request, SyncInv, TypeOK
    <3>2. Put(r.device, Part(library[r.device], push)) \in Request
      BY <1>2, <3>1, PutType, PartType DEF SyncInv
    <3>3. Get(r.device, r.pull) \in Request
      BY <1>2, <3>1, GetType DEF SyncInv
    <3> QED
      BY <3>2, <3>3, FreeAssumption
  <2>3. (put # Free => push # {}) /\ (get # Free => r.pull # {})
    OBVIOUS
  <2>4. /\ UNCHANGED touched
        /\ \/ put = Free /\ flight' = [flight EXCEPT ![s] = get]
           \/ get = Free /\ flight' = [flight EXCEPT ![s] = put]
           \/ /\ put # Free /\ get # Free
              /\ \E t \in FreeSlots : flight' = [flight EXCEPT ![s] = put, ![t] = get]
    <3> HIDE DEF put, get
    <3> QED
      BY <1>4, <1>1 DEF LibrarySyncPlanResult, put, get
  <2>5. PICK t \in Slots :
          /\ t # s => flight[t] = Free
          /\ \/ t = s /\ put = Free /\ flight'[s] = get
             \/ t = s /\ get = Free /\ flight'[s] = put
             \/ t # s /\ flight'[s] = put /\ flight'[t] = get
          /\ \A u \in Slots \ {s, t} : flight'[u] = flight[u]
    <3> HIDE DEF put, get
    <3> QED
      BY <2>4, <1>1 DEF SyncInv, TypeOK, FreeSlots
  <2>6. \A u \in Slots : flight'[u] \in {flight[u], put, get}
    BY <2>5
  <2> HIDE DEF put, get, push
  <2>7. GetsHold'
    <3>1. Present(NoItems) = {}
      BY DEF Present, NoItems
    <3> QED
      BY <2>1, <2>6, <3>1 DEF AgreeInv, GetsHold
  <2>8. ASSUME NEW d \in Devices, NEW id \in Ids \ touched'[d]
        PROVE  Followed(d, id)'
    <3>1. Followed(d, id)
      BY <2>4, <2>8 DEF AgreeInv
    <3>2. CASE d # r.device
      <4>1. Aside(put, d, id) /\ Aside(get, d, id) /\ Aside(flight[s], d, id)
        BY <2>1, <3>2 DEF Aside
      <4>2. Aside(flight[t], d, id)
        BY <2>5, <4>1 DEF Aside
      <4>3. \A u \in Slots : flight'[u] = flight[u] \/ (Aside(flight[u], d, id) /\ Aside(flight'[u], d, id))
        BY <2>5, <4>1, <4>2
      <4>4. Leaves(d, id)
        BY <1>3, <4>3 DEF Leaves
      <4> QED
        BY <3>1, <4>4, Frame
    <3>3. CASE d = r.device
      <4>1. Awaited(s, d, id)
        BY <1>1, <3>1, <3>3, OnlyOne DEF Aside
      <4>2. (id \in r.pull <=> Pulls(d, id)) /\ (id \in r.push <=> Pushes(d, id))
        BY <1>1, <1>4, <4>1 DEF Awaited, InPlan, InPull, InPush
      <4>3. (Pulls(d, id)' <=> Pulls(d, id)) /\ (Pushes(d, id)' <=> Pushes(d, id))
        BY <1>3 DEF Pulls, Pushes, PullIds, PushIds, Older, Present
      <4>4. SignedIn(d)' /\ Key(d)' = Key(d)
        BY <1>3, <3>1 DEF Followed, SignedIn, Key
      <4>5. id \in push <=> Pushes(d, id)
        BY <3>3, <4>2 DEF push, Pushes, PushIds
      <4>6. \A u \in Slots \ {s} : Aside(flight[u], d, id)
        BY <4>1 DEF Awaited
      <4>7. ~Pushes(d, id) => Aside(put, d, id)
        BY <2>1, <4>5 DEF Aside, MayWrite, Present, Part
      <4>8. ~Pulls(d, id) => Aside(get, d, id)
        BY <2>1, <4>2 DEF Aside, MayWrite
      <4>9. CASE Pulls(d, id)
        <5>1. get # Free
          BY <2>2, <4>2, <4>9
        <5>2. PICK u \in Slots : flight'[u] = get /\ \A v \in Slots \ {u} : Aside(flight'[v], d, id)
          <6>1. Aside(put, d, id)
            BY <4>7, <4>9, NotBothWays
          <6> QED
            BY <2>5, <4>6, <5>1, <6>1
        <5>3. InPull(flight[u], d, id)'
          BY <2>1, <4>2, <4>3, <4>9, <5>1, <5>2 DEF InPull
        <5>4. Awaited(u, d, id)'
          BY <2>1, <3>3, <4>4, <5>1, <5>2, <5>3 DEF Awaited
        <5> QED
          BY <4>4, <5>4 DEF Followed
      <4>10. CASE Pushes(d, id)
        <5>1. put # Free
          BY <2>2, <4>5, <4>10
        <5>2. PICK u \in Slots : flight'[u] = put /\ \A v \in Slots \ {u} : Aside(flight'[v], d, id)
          <6>1. Aside(get, d, id)
            BY <4>8, <4>10, NotBothWays
          <6> QED
            BY <2>5, <4>6, <5>1, <6>1
        <5>3. InPush(flight[u], d, id)'
          BY <1>3, <2>1, <3>3, <4>3, <4>5, <4>10, <5>1, <5>2 DEF InPush, Part
        <5>4. Awaited(u, d, id)'
          BY <2>1, <3>3, <4>4, <5>1, <5>2, <5>3 DEF Awaited
        <5> QED
          BY <4>4, <5>4 DEF Followed
      <4>11. CASE ~Pulls(d, id) /\ ~Pushes(d, id)
        <5>1. Agree(d, id)'
          BY <1>3, <4>11, NeitherWay DEF Agree
        <5>2. \A u \in Slots : Aside(flight'[u], d, id)
          BY <2>5, <4>6, <4>7, <4>8, <4>11
        <5> QED
          BY <4>4, <5>1, <5>2 DEF Followed, Settled
      <4> QED
        BY <4>9, <4>10, <4>11
    <3> QED
      BY <3>2, <3>3
  <2> QED
    BY <2>7, <2>8 DEF AgreeInv, GetsHold
<1>5. CASE ~(Current(r) /\ r.answer = "ok")
  <2>1. flight' = [flight EXCEPT ![s] = Free] /\ touched' = [touched EXCEPT ![r.device] = Ids]
    BY <1>5 DEF LibrarySyncPlanResult, Untold
  <2>2. GetsHold'
    BY <2>1 DEF AgreeInv, GetsHold, SyncInv, TypeOK
  <2>3. ASSUME NEW d \in Devices, NEW id \in Ids \ touched'[d]
        PROVE  Followed(d, id)'
    <3>1. d # r.device /\ id \notin touched[d]
      BY <2>1, <2>3 DEF SyncInv, TypeOK
    <3>2. \A u \in Slots : flight'[u] = flight[u] \/ (Aside(flight[u], d, id) /\ Aside(flight'[u], d, id))
      BY <2>1, <3>1 DEF Aside, SyncInv, TypeOK
    <3>3. Leaves(d, id)
      BY <1>3, <3>2 DEF Leaves
    <3> QED
      BY <3>1, <3>3, Frame DEF AgreeInv
  <2> QED
    BY <2>2, <2>3 DEF AgreeInv, GetsHold
<1> QED
  BY <1>4, <1>5

LEMMA PullAgrees ==
  ASSUME SyncInv, AgreeInv, NEW s \in Slots, LibraryPullResult(s)
  PROVE  AgreeInv'
<1> DEFINE r == flight[s]
<1>1. r \in Request /\ r # Free /\ r.kind = "Get" /\ r.answer # "none" /\ r.device \in Devices
  <2>1. r \in Request /\ r # Free /\ r.kind = "Get" /\ r.answer # "none"
    BY DEF LibraryPullResult, Answered, SyncInv, TypeOK
  <2> QED
    BY <2>1 DEF Request
<1>2. /\ flight' = [flight EXCEPT ![s] = Free]
      /\ UNCHANGED <<session, remote>>
      /\ \A u \in Slots \ {s} : flight'[u] = flight[u]
      /\ flight'[s] = Free
  BY DEF LibraryPullResult, SyncInv, TypeOK
<1>3. GetsHold'
  BY <1>2 DEF AgreeInv, GetsHold
<1>4. ASSUME NEW d \in Devices, NEW id \in Ids \ touched'[d]
      PROVE  Followed(d, id)'
  <2>1. Followed(d, id)
    BY <1>1, <1>4 DEF LibraryPullResult, Untold, SyncInv, TypeOK, AgreeInv
  <2>2. CASE Aside(r, d, id)
    <3>1. library'[d][id] = library[d][id]
      <4>1. CASE d # r.device
        BY <1>1, <4>1 DEF LibraryPullResult, SyncInv, TypeOK
      <4>2. CASE d = r.device
        <5>1. r.items[id] = Absent
          BY <1>1, <2>2, <4>2 DEF Aside, MayWrite, AgreeInv, Present
        <5> QED
          BY <1>1, <5>1 DEF LibraryPullResult, SyncInv, TypeOK, MergeItems
      <4> QED
        BY <4>1, <4>2
    <3>2. Leaves(d, id)
      BY <1>2, <2>2, <3>1 DEF Leaves, Aside
    <3> QED
      BY <2>1, <3>2, Frame
  <2>3. CASE ~Aside(r, d, id)
    <3>1. Awaited(s, d, id) /\ InPull(r, d, id) /\ d = r.device
      BY <1>1, <2>1, <2>3, OnlyOne DEF Awaited, InPlan, InPush
    <3>2. r.answer = "ok" /\ library' = [library EXCEPT ![d] = MergeItems(library[d], r.items)]
      BY <1>1, <1>4, <3>1 DEF LibraryPullResult, Untold, SyncInv, TypeOK
    <3>3. r.items[id] = remote[id] /\ Pulls(d, id)
      BY <3>1, <3>2 DEF InPull
    <3>4. library'[d][id] = remote[id]
      <4>1. library'[d][id] = MergeItems(library[d], r.items)[id]
        BY <3>2 DEF SyncInv, TypeOK
      <4>2. remote[id] # Absent /\ (library[d][id] # Absent => library[d][id].mtime <= remote[id].mtime)
        <5>1. remote[id] # Absent /\ (library[d][id] # Absent => Second(library[d][id]) < Second(remote[id]))
          BY <3>3 DEF Pulls, PullIds, Present, Older
        <5>2. ASSUME library[d][id] # Absent
              PROVE  library[d][id].mtime <= remote[id].mtime
          <6>1. library[d][id] \in Item /\ remote[id] \in Item
            BY <5>1, <5>2 DEF SyncInv, TypeOK, ItemMap
          <6>2. library[d][id].mtime \in Nat /\ remote[id].mtime \in Nat
            BY <6>1 DEF Item
          <6>3. ~(library[d][id].mtime >= remote[id].mtime)
            BY <5>1, <5>2, <6>1, <6>2, SecondGrows, SecondType DEF Second
          <6> QED
            BY <6>2, <6>3
        <5> QED
          BY <5>1, <5>2
      <4>3. MergeItems(library[d], r.items)[id] = remote[id]
        BY <3>3, <4>2 DEF MergeItems, SyncInv, TypeOK, ItemMap, Item
      <4> QED
        BY <4>1, <4>3
    <3>5. Agree(d, id)'
      BY <1>2, <3>4 DEF Agree
    <3>6. \A u \in Slots : Aside(flight'[u], d, id)
      BY <1>2, <3>1 DEF Awaited, Aside
    <3>7. SignedIn(d)'
      BY <1>2, <2>1 DEF Followed, SignedIn
    <3> QED
      BY <3>5, <3>6, <3>7 DEF Followed, Settled
  <2> QED
    BY <2>2, <2>3
<1> QED
  BY <1>3, <1>4 DEF AgreeInv, GetsHold

LEMMA ServePutAgrees ==
  ASSUME SyncInv, AgreeInv, NEW s \in Slots, ServePut(s)
  PROVE  AgreeInv'
<1> DEFINE r == flight[s]
<1>1. r \in Request /\ r # Free /\ r.kind = "Put" /\ r.device \in Devices
  <2>1. r \in Request /\ r # Free /\ r.kind = "Put"
    BY DEF ServePut, Waits, SyncInv, TypeOK
  <2> QED
    BY <2>1 DEF Request
<1>2. /\ UNCHANGED <<session, library>>
      /\ \A u \in Slots \ {s} : flight'[u] = flight[u]
      /\ flight'[s] = Free
  BY DEF ServePut, SyncInv, TypeOK
<1>3. GetsHold'
  BY <1>2 DEF AgreeInv, GetsHold
<1>4. ASSUME NEW d \in Devices, NEW id \in Ids \ touched'[d]
      PROVE  Followed(d, id)'
  <2>1. Followed(d, id)
    BY <1>1, <1>4 DEF ServePut, Untold, SyncInv, TypeOK, AgreeInv
  <2>2. CASE Aside(r, d, id)
    <3>1. remote'[id] = remote[id]
      <4>1. CASE remote' = remote
        BY <4>1
      <4>2. CASE remote' # remote
        <5>1. d # r.device => id \notin Present(r.items)
          BY <1>4, <4>2 DEF ServePut, Untold
        <5>2. id \notin Present(r.items)
          BY <1>1, <2>2, <5>1 DEF Aside, MayWrite
        <5> QED
          BY <4>2, <5>2 DEF ServePut, Present
      <4> QED
        BY <4>1, <4>2
    <3>2. Leaves(d, id)
      BY <1>2, <2>2, <3>1 DEF Leaves, Aside
    <3> QED
      BY <2>1, <3>2, Frame
  <2>3. CASE ~Aside(r, d, id)
    <3>1. Awaited(s, d, id) /\ InPush(r, d, id) /\ d = r.device
      BY <1>1, <2>1, <2>3, OnlyOne DEF Awaited, InPlan, InPull
    <3>2. remote'[id] = library[d][id]
      <4>1. r.items[id] = library[d][id] /\ library[d][id] # Absent
        BY <3>1 DEF InPush, Pushes, PushIds, Present
      <4>2. ~Untold(r)
        BY <1>1, <1>4, <3>1 DEF Untold, SyncInv, TypeOK
      <4> QED
        BY <4>1, <4>2 DEF ServePut
    <3>3. Agree(d, id)'
      BY <1>2, <3>2 DEF Agree
    <3>4. \A u \in Slots : Aside(flight'[u], d, id)
      BY <1>2, <3>1 DEF Awaited, Aside
    <3>5. SignedIn(d)'
      BY <1>2, <2>1 DEF Followed, SignedIn
    <3> QED
      BY <3>3, <3>4, <3>5 DEF Followed, Settled
  <2> QED
    BY <2>2, <2>3
<1> QED
  BY <1>3, <1>4 DEF AgreeInv, GetsHold

\* An answer takes the place of the request.
LEMMA Answering ==
  ASSUME SyncInv, AgreeInv, NEW s \in Slots, NEW answered,
         flight[s] # Free, flight' = [flight EXCEPT ![s] = answered],
         UNCHANGED <<library, session, remote, touched>>,
         answered # Free, answered.device = flight[s].device, answered.key = flight[s].key,
         answered.kind = flight[s].kind, answered.kind # "Put",
         answered.kind = "Get" => answered.pull = flight[s].pull /\ Present(answered.items) \subseteq answered.pull,
         \A d \in Devices, id \in Ids :
           /\ InPlan(flight[s], d, id) => InPlan(answered, d, id)
           /\ InPull(flight[s], d, id) => InPull(answered, d, id)
  PROVE  AgreeInv'
<1>1. flight'[s] = answered /\ \A u \in Slots \ {s} : flight'[u] = flight[u]
  BY DEF SyncInv, TypeOK
<1>2. GetsHold'
  BY <1>1 DEF AgreeInv, GetsHold
<1>3. ASSUME NEW d \in Devices, NEW id \in Ids \ touched'[d]
      PROVE  Followed(d, id)'
  <2>1. Followed(d, id)
    BY <1>3 DEF AgreeInv
  <2>2. CASE Aside(flight[s], d, id)
    <3>1. Leaves(d, id)
      BY <1>1, <2>2 DEF Leaves, Aside, MayWrite
    <3> QED
      BY <2>1, <3>1, Frame
  <2>3. CASE ~Aside(flight[s], d, id)
    <3>1. Awaited(s, d, id)
      BY <2>1, <2>3, OnlyOne
    <3>2. InPlan(answered, d, id) \/ InPull(answered, d, id)
      BY <3>1 DEF Awaited, InPush
    <3>3. (InPlan(answered, d, id) => InPlan(flight[s], d, id)') /\ (InPull(answered, d, id) => InPull(flight[s], d, id)')
      BY <1>1 DEF InPlan, InPull, Pulls, Pushes, PullIds, PushIds, Older, Present
    <3>4. SignedIn(d)' /\ Key(d)' = Key(d)
      BY <2>1 DEF Followed, SignedIn, Key
    <3>5. Awaited(s, d, id)'
      BY <1>1, <3>1, <3>2, <3>3, <3>4 DEF Awaited
    <3> QED
      BY <3>4, <3>5 DEF Followed
  <2> QED
    BY <2>2, <2>3
<1> QED
  BY <1>2, <1>3 DEF AgreeInv, GetsHold

LEMMA ServeMetaAgrees ==
  ASSUME SyncInv, AgreeInv, NEW s \in Slots, ServeMeta(s)
  PROVE  AgreeInv'
<1> DEFINE r == flight[s]
           ok == [r EXCEPT !.answer = "ok", !.pull = PullIds(r.items), !.push = PushIds(r.items), !.items = NoItems]
           failed == [r EXCEPT !.answer = "failed"]
<1>1. r \in Request /\ r # Free /\ r.kind = "Meta" /\ r.answer = "none"
  BY DEF ServeMeta, Waits, SyncInv, TypeOK
<1>2. PICK answered \in {ok, failed} : flight' = [flight EXCEPT ![s] = answered]
  BY DEF ServeMeta
<1>3. /\ answered.device = r.device /\ answered.key = r.key /\ answered.kind = "Meta"
      /\ answered.answer = "ok" => answered.pull = PullIds(r.items) /\ answered.push = PushIds(r.items)
      /\ answered.answer # "none"
  BY <1>1 DEF Request
<1>4. answered # Free
  <2>1. PullIds(r.items) \in SUBSET Ids /\ PushIds(r.items) \in SUBSET Ids
    BY DEF PullIds, PushIds, Present
  <2>2. answered \in Request
    BY <1>1, <2>1, NoItemsType DEF Request
  <2> QED
    BY <2>2, FreeAssumption
<1>5. ASSUME NEW d \in Devices, NEW id \in Ids
      PROVE  /\ InPlan(flight[s], d, id) => InPlan(answered, d, id)
             /\ InPull(flight[s], d, id) => InPull(answered, d, id)
  BY <1>1, <1>3 DEF InPlan, InPull, Pulls, Pushes, PullIds, PushIds, Older, Present
<1> HIDE DEF ok, failed
<1> QED
  BY <1>1, <1>2, <1>3, <1>4, <1>5, Answering DEF ServeMeta

LEMMA ServeGetAgrees ==
  ASSUME SyncInv, AgreeInv, NEW s \in Slots, ServeGet(s)
  PROVE  AgreeInv'
<1> DEFINE r == flight[s]
           ok == [r EXCEPT !.answer = "ok", !.items = Part(remote, r.pull)]
           failed == [r EXCEPT !.answer = "failed"]
<1>1. r \in Request /\ r # Free /\ r.kind = "Get" /\ r.answer = "none"
  BY DEF ServeGet, Waits, SyncInv, TypeOK
<1>2. PICK answered \in {ok, failed} : flight' = [flight EXCEPT ![s] = answered]
  BY DEF ServeGet
<1>3. /\ answered.device = r.device /\ answered.key = r.key /\ answered.kind = "Get"
      /\ answered.pull = r.pull
      /\ answered.answer = "ok" => answered.items = Part(remote, r.pull)
      /\ answered.answer # "ok" => answered.items = r.items
  BY <1>1 DEF Request
<1>4. answered # Free
  <2>1. Part(remote, r.pull) \in ItemMap
    BY PartType DEF SyncInv, TypeOK
  <2>2. answered \in Request
    BY <1>1, <2>1 DEF Request
  <2> QED
    BY <2>2, FreeAssumption
<1>5. Present(answered.items) \subseteq answered.pull
  BY <1>1, <1>3 DEF Present, Part, AgreeInv
<1>6. ASSUME NEW d \in Devices, NEW id \in Ids
      PROVE  /\ InPlan(flight[s], d, id) => InPlan(answered, d, id)
             /\ InPull(flight[s], d, id) => InPull(answered, d, id)
  BY <1>1, <1>3 DEF InPlan, InPull, Part
<1> HIDE DEF ok, failed
<1> QED
  BY <1>1, <1>2, <1>3, <1>4, <1>5, <1>6, Answering DEF ServeGet

LEMMA AgreeNext ==
  ASSUME SyncInv, AgreeInv, [Next]_vars
  PROVE  AgreeInv'
<1>1. CASE UNCHANGED vars \/ Tick
  <2>1. UNCHANGED <<library, session, remote, flight, touched>>
    BY <1>1 DEF vars, Tick
  <2>2. GetsHold'
    BY <2>1 DEF AgreeInv, GetsHold
  <2>3. ASSUME NEW d \in Devices, NEW id \in Ids \ touched'[d]
        PROVE  Followed(d, id)'
    BY <2>1, <2>3, Frame DEF AgreeInv, Leaves
  <2> QED
    BY <2>2, <2>3 DEF AgreeInv, GetsHold
<1>2. CASE Next
  BY <1>1, <1>2, EditAgrees, SyncAgreesStep, SessionAgrees, PlanAgrees, PullAgrees, ServePutAgrees,
     ServeMetaAgrees, ServeGetAgrees DEF Next
<1> QED
  BY <1>1, <1>2

\* When a sync has ended, device and datastore agree on every item that nobody wrote
\* meanwhile: of the four times at which plan, push and pull look at the two sides,
\* none sees anything else (update_library.rs:417).
THEOREM SyncsAgree == Spec => []SyncAgrees
<1>1. AgreeInv => SyncAgrees
  <2>1. ASSUME AgreeInv, NEW d \in Devices, SignedIn(d), Flying(d) = {}, NEW id \in Ids \ touched[d]
        PROVE  Agree(d, id)
    <3>1. ~\E s \in Slots : Awaited(s, d, id)
      BY <2>1 DEF Flying, FreeSlots, Awaited
    <3> QED
      BY <2>1, <3>1 DEF AgreeInv, Followed, Settled
  <2> QED
    BY <2>1 DEF SyncAgrees
<1> QED
  BY <1>1, AgreeInit, AgreeNext, SyncInit, SyncNext, PTL DEF Spec
=============================================================================
