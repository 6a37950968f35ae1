---------------------------- MODULE LibrarySync -----------------------------
(***************************************************************************)
(* The library of one account on several devices that share it through the *)
(* API's datastore (src/models/ctx/update_library.rs): an edit is pushed   *)
(* at once, and SyncLibraryWithAPI compares modification times, in whole   *)
(* seconds, to plan which items to push and which to pull.                 *)
(*                                                                         *)
(* Between the plan's snapshot of the library, the datastore's answer, the *)
(* plan's result and the answer to the pull, items are edited here and on  *)
(* other devices, requests overtake each other and fail, and the session   *)
(* may end.  The two storage slots are the subject of LibraryStorage.      *)
(***************************************************************************)
EXTENDS LibraryBuckets

CONSTANTS
  Devices,
  Ahead,         \* the devices whose clock is a tick ahead
  Unsynced,      \* contents that should_sync rejects
  SECOND,        \* ticks of a second: the plan compares timestamp()
  MaxClock,      \* bound: ticks
  MaxSessions,   \* bound: sessions a device opens
  Slots, Free    \* bound: requests under way; a slot without one

ASSUME DevicesAssumption == Ahead \subseteq Devices /\ Unsynced \subseteq Bodies
ASSUME TimeAssumption == SECOND \in Nat \ {0} /\ MaxClock \in Nat /\ MaxSessions \in Nat

Request ==
  [kind : {"Put", "Meta", "Get"}, device : Devices, key : 1 .. MaxSessions, items : ItemMap,
   pull : SUBSET Ids, push : SUBSET Ids, answer : {"none", "ok", "failed"}]

ASSUME FreeAssumption == Free \notin Request

VARIABLES
  clock,       \* the time, in ticks
  library,     \* ctx.library.items of each device
  session,     \* auth key of each device: odd numbers, an even one when signed out
  remote,      \* the datastore's items
  flight,      \* requests the API has not served, and answers on their way
  written,     \* history: every version of an item written, with its id
  touched      \* history: ids a device's last sync does not speak for

vars == <<clock, library, session, remote, flight, written, touched>>
-----------------------------------------------------------------------------
\* Changed: the key of the session before.
Key_Before(d) == session[d] \div 2

SignedIn(d) == session[d] % 2 = 1
Key(d) == (session[d] + 1) \div 2

Now(d) == clock + (IF d \in Ahead THEN 1 ELSE 0)
Second(item) == item.mtime \div SECOND

Put(d, items) ==
  [kind |-> "Put", device |-> d, key |-> Key(d), items |-> items,
   pull |-> {}, push |-> {}, answer |-> "none"]
Meta(d) == [Put(d, library[d]) EXCEPT !.kind = "Meta"]
Get(d, ids) == [Put(d, NoItems) EXCEPT !.kind = "Get", !.pull = ids]

FreeSlots == {s \in Slots : flight[s] = Free}

TypeOK ==
  /\ clock \in 0 .. MaxClock
  /\ library \in [Devices -> ItemMap]
  /\ session \in [Devices -> 0 .. 2 * MaxSessions]
  /\ remote \in ItemMap
  /\ flight \in [Slots -> Request \cup {Free}]
  /\ written \subseteq [id : Ids, item : Item]
  /\ touched \in [Devices -> SUBSET Ids]
-----------------------------------------------------------------------------
\* Internal::UpdateLibraryItem: what differs from the item there is stamped with
\* the device's time, pushed, and merged into the library.
UpdateLibraryItem(d, id, body) ==
  LET item == [mtime |-> Now(d), body |-> body, owner |-> NoUser]
      items == [NoItems EXCEPT ![id] = item]
  IN
  /\ library[d][id] # Absent => ~EqNoMtime(library[d][id], item)
  /\ library' = [library EXCEPT ![d] = MergeItems(library[d], items)]
  /\ IF SignedIn(d)
       THEN \E s \in FreeSlots : flight' = [flight EXCEPT ![s] = Put(d, items)]
       ELSE UNCHANGED flight
  /\ written' = written \cup {[id |-> id, item |-> item]}
  /\ touched' = [touched EXCEPT ![d] = @ \cup {id}]
  /\ UNCHANGED <<clock, session, remote>>

Flying(d) == {s \in Slots \ FreeSlots : flight[s].device = d /\ flight[s].key = Key(d)}

\* The ids a request may still write, here or in the datastore.
MayWrite(r) ==
  IF r.kind = "Put" THEN Present(r.items) ELSE IF r.kind = "Get" THEN r.pull ELSE Ids

\* ActionCtx::SyncLibraryWithAPI takes the modification times as they are now.
SyncLibraryWithAPI(d) ==
  /\ SignedIn(d)
  /\ \E s \in FreeSlots : flight' = [flight EXCEPT ![s] = Meta(d)]
  /\ touched' = [touched EXCEPT ![d] =
       UNION {MayWrite(flight[s]) : s \in {t \in Slots \ FreeSlots : flight[t].device = d}}]
  /\ UNCHANGED <<clock, library, session, remote, written>>

Older(items, others, id) == items[id] = Absent \/ Second(items[id]) < Second(others[id])

\* Changed: items the device does not have are not pulled.
PullIds_KnownOnly(local) ==
  {id \in Present(remote) : local[id] # Absent /\ Second(local[id]) < Second(remote[id])}

PullIds(local) == {id \in Present(remote) : Older(local, remote, id)}
PushIds(local) == {id \in Present(local) : local[id].body \notin Unsynced /\ Older(remote, local, id)}

Answered(s, kind) == flight[s] # Free /\ flight[s].kind = kind /\ flight[s].answer # "none"

\* The arms for the results take only those of the session.
Current(r) == SignedIn(r.device) /\ Key(r.device) = r.key

\* A result that is an error leaves the items it was to bring as they are.
Untold(r) == touched' = [touched EXCEPT ![r.device] = Ids]

\* Internal::LibrarySyncPlanResult pushes the items as they are by now.
LibrarySyncPlanResult(s) ==
  LET r == flight[s]
      push == r.push \cap Present(library[r.device])
      put == IF push = {} THEN Free ELSE Put(r.device, Part(library[r.device], push))
      get == IF r.pull = {} THEN Free ELSE Get(r.device, r.pull)
  IN
  /\ Answered(s, "Meta")
  /\ \/ /\ Current(r) /\ r.answer = "ok"
        /\ \/ /\ put = Free \/ get = Free
              /\ flight' = [flight EXCEPT ![s] = IF put = Free THEN get ELSE put]
           \/ /\ put # Free /\ get # Free
              /\ \E t \in FreeSlots : flight' = [flight EXCEPT ![s] = put, ![t] = get]
        /\ UNCHANGED touched
     \/ /\ ~Current(r) \/ r.answer = "failed"
        /\ flight' = [flight EXCEPT ![s] = Free]
        /\ Untold(r)
  /\ UNCHANGED <<clock, library, session, remote, written>>

\* Internal::LibraryPullResult
LibraryPullResult(s) ==
  LET r == flight[s] IN
  /\ Answered(s, "Get")
  /\ IF Current(r) /\ r.answer = "ok"
       THEN /\ library' = [library EXCEPT ![r.device] = MergeItems(@, r.items)]
            /\ UNCHANGED touched
       ELSE Untold(r) /\ UNCHANGED library
  /\ flight' = [flight EXCEPT ![s] = Free]
  /\ UNCHANGED <<clock, session, remote, written>>

\* Internal::CtxAuthResult(Ok): the datastore's items, or none if they could not
\* be fetched, in place of the library.
CtxAuthResult(d) ==
  /\ ~SignedIn(d) /\ session[d] < 2 * MaxSessions
  /\ \E items \in {remote, NoItems} : library' = [library EXCEPT ![d] = items]
  /\ session' = [session EXCEPT ![d] = @ + 1]
  /\ touched' = [touched EXCEPT ![d] = Ids]
  /\ UNCHANGED <<clock, remote, flight, written>>

\* Internal::Logout
Logout(d) ==
  /\ SignedIn(d)
  /\ library' = [library EXCEPT ![d] = NoItems]
  /\ session' = [session EXCEPT ![d] = @ + 1]
  /\ touched' = [touched EXCEPT ![d] = Ids]
  /\ UNCHANGED <<clock, remote, flight, written>>
-----------------------------------------------------------------------------
(* The datastore, and time. *)

Waits(s, kind) == flight[s] # Free /\ flight[s].kind = kind /\ flight[s].answer = "none"

\* DatastoreCommand::Put stores what it is given; its answer is an event only.
ServePut(s) ==
  LET r == flight[s] IN
  /\ Waits(s, "Put")
  /\ \/ /\ remote' = [id \in Ids |-> IF r.items[id] # Absent THEN r.items[id] ELSE remote[id]]
        /\ touched' = [d \in Devices |-> IF d = r.device THEN touched[d]
                                                      ELSE touched[d] \cup Present(r.items)]
     \/ UNCHANGED remote /\ Untold(r)
  /\ flight' = [flight EXCEPT ![s] = Free]
  /\ UNCHANGED <<clock, library, session, written>>

\* DatastoreCommand::Meta, and the plan made from the snapshot and the answer.
ServeMeta(s) ==
  LET r == flight[s] IN
  /\ Waits(s, "Meta")
  /\ \/ flight' = [flight EXCEPT ![s] = [r EXCEPT !.answer = "ok", !.pull = PullIds(r.items),
                                                  !.push = PushIds(r.items), !.items = NoItems]]
     \/ flight' = [flight EXCEPT ![s].answer = "failed"]
  /\ UNCHANGED <<clock, library, session, remote, written, touched>>

\* DatastoreCommand::Get
ServeGet(s) ==
  LET r == flight[s] IN
  /\ Waits(s, "Get")
  /\ \/ flight' = [flight EXCEPT ![s] = [r EXCEPT !.answer = "ok", !.items = Part(remote, r.pull)]]
     \/ flight' = [flight EXCEPT ![s].answer = "failed"]
  /\ UNCHANGED <<clock, library, session, remote, written, touched>>

Tick ==
  /\ clock < MaxClock
  /\ clock' = clock + 1
  /\ UNCHANGED <<library, session, remote, flight, written, touched>>
-----------------------------------------------------------------------------
Init ==
  /\ clock = 0
  /\ library = [d \in Devices |-> NoItems]
  /\ session = [d \in Devices |-> 0]
  /\ remote = NoItems
  /\ flight = [s \in Slots |-> Free]
  /\ written = {}
  /\ touched = [d \in Devices |-> Ids]

Next ==
  \/ \E d \in Devices, id \in Ids, body \in Bodies : UpdateLibraryItem(d, id, body)
  \/ \E d \in Devices : SyncLibraryWithAPI(d) \/ CtxAuthResult(d) \/ Logout(d)
  \/ \E s \in Slots :
       \/ LibrarySyncPlanResult(s) \/ LibraryPullResult(s)
       \/ ServePut(s) \/ ServeMeta(s) \/ ServeGet(s)
  \/ Tick

Spec == Init /\ [][Next]_vars
-----------------------------------------------------------------------------
\* When a sync has ended, the device and the datastore agree, to the second, on
\* every item that nobody wrote since it began, although plan, push and pull
\* looked at the library and the datastore at four different times.
Agree(d, id) ==
  LET mine == library[d][id] IN
  IF mine = Absent \/ remote[id] = Absent
    THEN mine = remote[id] \/ (mine # Absent /\ mine.body \in Unsynced)
    ELSE Second(mine) = Second(remote[id])
         \/ (Second(mine) > Second(remote[id]) /\ mine.body \in Unsynced)

SyncAgrees ==
  \A d \in Devices : SignedIn(d) /\ Flying(d) = {} => \A id \in Ids \ touched[d] : Agree(d, id)

\* A device that no other clock is ahead of finds its edit in the library after the
\* step that makes it: the merge does not prefer what was pulled before.
Foremost(d) == Ahead = {} \/ d \in Ahead

EditIsKept ==
  [][\A d \in Devices, id \in Ids, body \in Bodies :
       Foremost(d) /\ UpdateLibraryItem(d, id, body) =>
         library'[d][id] # Absent /\ library'[d][id].body = body]_vars

\* Every device holds versions somebody wrote, never an earlier one after a later
\* one within a session, in whatever order the pulls are answered.
Replicas == INSTANCE LibraryReplicas WITH held <- library

KeepsLatest == Replicas!Spec
=============================================================================
