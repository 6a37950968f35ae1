---------------------------- MODULE AccountProofs ----------------------------
(***************************************************************************)
(* Proofs about AccountModels for every set of accounts, codes, keys, urls *)
(* and events and any number of requests under way.                        *)
(*                                                                         *)
(* Each part has an inductive invariant of its own, and a step of another  *)
(* part leaves its variables alone.  Those of linking, export and          *)
(* manifests are what is to be shown with the types, and, for Trakt, that  *)
(* the manifest waited for is the account's.  That events arrive in order  *)
(* needs more: how the batches under way, pending and queued relate to     *)
(* what has arrived (DeliveryInv).                                         *)
(***************************************************************************)
EXTENDS AccountModels, TLAPS

(* The session, for what its types need *)

\* An answer names a session that may exist, and the user it says there is.
Sound(r) ==
  /\ r.kind = "Auth" => r.user \in Users
  /\ r.kind # "Auth" \/ r.answer = "ok" => r.key \in Session!SessionKeys
  /\ r.kind = "GetUser" /\ r.answer = "ok" => r.user \in Users

SessionInv == Session!TypeOK /\ \A s \in Slots : flight[s] # Free => Sound(flight[s])

LEMMA SessionInit == Session!Init => SessionInv
<1> SUFFICES ASSUME Session!Init PROVE SessionInv
  OBVIOUS
<1>1. status = SessionReady /\ auth = Session!NoAuth /\ owner = <<>> /\ open = {}
  BY DEF Session!Init
<1>2. owner \in Seq(Users) /\ Len(owner) <= MaxKeys /\ open \subseteq 1 .. Len(owner)
  BY <1>1, SessionAssumption
<1>3. uids \in [Session!Buckets -> Session!UID]
  BY DEF Session!Init, Session!UID
<1>4. flight \in [Slots -> Session!Request \cup {Free}] /\ \A s \in Slots : flight[s] = Free
  BY DEF Session!Init
<1> QED
  BY <1>1, <1>2, <1>3, <1>4 DEF SessionInv, Session!TypeOK

LEMMA SlotKeeps ==
  ASSUME SessionInv, NEW s \in Slots, NEW r \in Session!Request \cup {Free}, r # Free => Sound(r),
         flight' = [flight EXCEPT ![s] = r]
  PROVE  /\ flight' \in [Slots -> Session!Request \cup {Free}]
         /\ \A t \in Slots : flight'[t] # Free => Sound(flight'[t])
BY DEF SessionInv, Session!TypeOK

LEMMA SendKeepsSound ==
  ASSUME SessionInv, NEW r \in Session!Request, Sound(r), Session!Send(r)
  PROVE  /\ flight' \in [Slots -> Session!Request \cup {Free}]
         /\ \A t \in Slots : flight'[t] # Free => Sound(flight'[t])
<1>1. PICK s \in Slots : flight' = [flight EXCEPT ![s] = r]
  BY DEF Session!Send
<1> QED
  BY <1>1, SlotKeeps

LEMMA RequestsSound ==
  /\ \A u \in Users : Session!AuthRequest(u) \in Session!Request /\ Sound(Session!AuthRequest(u))
  /\ \A kind \in {"GetUser", "DeleteAccount", "Logout"}, k \in Session!SessionKeys, overwritten \in BOOLEAN :
       /\ Session!KeyRequest(kind, k, overwritten) \in Session!Request
       /\ Sound(Session!KeyRequest(kind, k, overwritten))
BY DEF Session!AuthRequest, Session!KeyRequest, Session!Request, Sound, Session!UID

LEMMA UserSteps ==
  ASSUME SessionInv,
         \/ \E u \in Users : Session!Authenticate(u)
         \/ Session!Logout \/ Session!PullUserFromAPI \/ Session!DeleteAccount
         \/ \E k \in 1 .. Len(owner) : Session!PullUserWithToken(k)
  PROVE  SessionInv'
<1> USE DEF SessionInv, Session!TypeOK, Session!ApiKeeps
<1>1. ASSUME NEW u \in Users, Session!Authenticate(u)
      PROVE  SessionInv'
  BY <1>1, RequestsSound, SendKeepsSound DEF Session!Authenticate
<1>2. CASE Session!Logout
  <2>1. /\ status' \in Users \cup {SessionReady}
        /\ auth' \in [key : Session!SessionKeys, user : Users] \cup {Session!NoAuth}
        /\ uids' \in [Session!Buckets -> Session!UID]
    BY <1>2 DEF Session!Logout, Session!EndSession, Session!UID
  <2>2. CASE auth = Session!NoAuth
    BY <1>2, <2>1, <2>2 DEF Session!Logout
  <2>3. CASE auth # Session!NoAuth
    BY <1>2, <2>1, <2>3, RequestsSound, SendKeepsSound DEF Session!Logout, Session!DeleteSession
  <2> QED
    BY <2>2, <2>3
<1>3. CASE Session!PullUserFromAPI
  BY <1>3, RequestsSound, SendKeepsSound DEF Session!PullUserFromAPI
<1>4. CASE Session!DeleteAccount
  BY <1>4, RequestsSound, SendKeepsSound DEF Session!DeleteAccount
<1>5. ASSUME NEW k \in 1 .. Len(owner), Session!PullUserWithToken(k)
      PROVE  SessionInv'
  <2>1. k \in Session!SessionKeys
    BY SessionAssumption DEF Session!SessionKeys
  <2> QED
    BY <1>5, <2>1, RequestsSound, SendKeepsSound DEF Session!PullUserWithToken
<1> QED
  BY <1>1, <1>2, <1>3, <1>4, <1>5

LEMMA ResultSteps ==
  ASSUME SessionInv, NEW s \in Slots,
         \/ Session!CtxAuthResult(s) \/ Session!DeleteAccountAPIResult(s)
         \/ \E changed \in BOOLEAN : Session!UserAPIResult(s, changed)
  PROVE  SessionInv'
<1> USE DEF SessionInv, Session!TypeOK, Session!ApiKeeps, Session!Answered
<1>1. CASE Session!CtxAuthResult(s)
  <2>1. flight[s] \in Session!Request /\ Sound(flight[s]) /\ flight[s].kind = "Auth"
    BY <1>1 DEF Session!CtxAuthResult
  <2>2. status' \in Users \cup {SessionReady} /\ uids' \in [Session!Buckets -> Session!UID]
    BY <1>1, <2>1 DEF Session!CtxAuthResult, Sound, Session!TakeBuckets, Session!UID
  <2>3. auth' \in [key : Session!SessionKeys, user : Users] \cup {Session!NoAuth}
    BY <1>1, <2>1 DEF Session!CtxAuthResult, Sound
  <2> QED
    BY <1>1, <2>2, <2>3, SlotKeeps DEF Session!CtxAuthResult, Session!Done
<1>2. CASE Session!DeleteAccountAPIResult(s)
  <2>1. /\ status' \in Users \cup {SessionReady}
        /\ auth' \in [key : Session!SessionKeys, user : Users] \cup {Session!NoAuth}
        /\ uids' \in [Session!Buckets -> Session!UID]
    BY <1>2 DEF Session!DeleteAccountAPIResult, Session!EndSession, Session!UID
  <2> QED
    BY <1>2, <2>1, SlotKeeps DEF Session!DeleteAccountAPIResult, Session!Done
<1>3. ASSUME NEW changed \in BOOLEAN, Session!UserAPIResult(s, changed)
      PROVE  SessionInv'
  <2> DEFINE r == flight[s]
  <2>1. r \in Session!Request /\ Sound(r) /\ r.kind = "GetUser"
    BY <1>3 DEF Session!UserAPIResult
  <2>2. CASE r.answer = "ok" /\ Session!Done(s) /\ UNCHANGED <<status, uids>> /\ auth' # auth
    <3>1. r.key \in Session!SessionKeys /\ r.user \in Users
      BY <2>1, <2>2 DEF Sound
    <3>2. auth' \in [key : Session!SessionKeys, user : Users] \cup {Session!NoAuth}
      BY <1>3, <2>2, <3>1 DEF Session!UserAPIResult
    <3> QED
      BY <1>3, <2>2, <3>2, SlotKeeps DEF Session!UserAPIResult, Session!Done
  <2>3. CASE Session!EndSession /\ flight' = [flight EXCEPT ![s] = Session!DeleteSession]
    <3>1. /\ status' \in Users \cup {SessionReady}
          /\ auth' \in [key : Session!SessionKeys, user : Users] \cup {Session!NoAuth}
          /\ uids' \in [Session!Buckets -> Session!UID]
      BY <2>3 DEF Session!EndSession, Session!UID
    <3>2. Session!DeleteSession \in Session!Request \cup {Free}
          /\ (Session!DeleteSession # Free => Sound(Session!DeleteSession))
      BY RequestsSound DEF Session!DeleteSession
    <3> QED
      BY <1>3, <2>3, <3>1, <3>2, SlotKeeps DEF Session!UserAPIResult
  <2>4. CASE Session!Done(s) /\ UNCHANGED <<status, auth, uids>>
    BY <1>3, <2>4, SlotKeeps DEF Session!UserAPIResult, Session!Done
  <2> QED
    BY <1>3, <2>2, <2>3, <2>4 DEF Session!UserAPIResult
<1> QED
  BY <1>1, <1>2, <1>3

LEMMA OpenedKeeps ==
  ASSUME SessionInv, NEW u \in Users, Len(owner) < MaxKeys, owner' = Append(owner, u),
         open' = open \cup {Len(owner) + 1}
  PROVE  /\ owner' \in Seq(Users) /\ Len(owner') <= MaxKeys /\ open' \subseteq 1 .. Len(owner')
         /\ Len(owner) + 1 \in Session!SessionKeys
<1>1. owner \in Seq(Users) /\ open \subseteq 1 .. Len(owner)
  BY DEF SessionInv, Session!TypeOK
<1>2. owner' \in Seq(Users) /\ Len(owner') = Len(owner) + 1
  BY <1>1
<1>3. MaxKeys \in Nat /\ Len(owner) \in Nat /\ Len(owner) + 1 \in 1 .. MaxKeys
  BY <1>1, SessionAssumption
<1>4. open' \subseteq 1 .. Len(owner')
  <2> SUFFICES ASSUME NEW k \in open' PROVE k \in 1 .. Len(owner) + 1
    BY <1>2
  <2>1. k \in 1 .. Len(owner) \/ k = Len(owner) + 1
    BY <1>1
  <2> QED
    BY <1>3, <2>1
<1> QED
  BY <1>2, <1>3, <1>4 DEF Session!SessionKeys

LEMMA ServeSteps ==
  ASSUME SessionInv, NEW s \in Slots,
         Session!ServeAuth(s) \/ Session!ServeGetUser(s) \/ Session!ServeDeleteAccount(s) \/ Session!ServeLogout(s)
  PROVE  SessionInv'
<1> USE DEF SessionInv, Session!TypeOK, Session!ApiKeeps, Session!CtxKeeps, Session!Waits
<1> DEFINE r == flight[s]
<1>1. r \in Session!Request /\ Sound(r)
  BY DEF Session!ServeAuth, Session!ServeGetUser, Session!ServeDeleteAccount, Session!ServeLogout
<1>2. ASSUME NEW answer \in {"expired", "failed"}, Session!Answer(s, answer)
      PROVE  /\ flight' \in [Slots -> Session!Request \cup {Free}]
             /\ \A t \in Slots : flight'[t] # Free => Sound(flight'[t])
  <2>1. [r EXCEPT !.answer = answer] \in Session!Request /\ Sound([r EXCEPT !.answer = answer])
    BY <1>1 DEF Session!Request, Sound
  <2>2. flight' = [flight EXCEPT ![s] = [r EXCEPT !.answer = answer]]
    BY <1>2 DEF Session!Answer
  <2> QED
    BY <2>1, <2>2, SlotKeeps
<1>3. ASSUME Session!Answer(s, "ok"), r.kind = "DeleteAccount"
      PROVE  /\ flight' \in [Slots -> Session!Request \cup {Free}]
             /\ \A t \in Slots : flight'[t] # Free => Sound(flight'[t])
  <2>1. [r EXCEPT !.answer = "ok"] \in Session!Request /\ Sound([r EXCEPT !.answer = "ok"])
    BY <1>1, <1>3 DEF Session!Request, Sound
  <2>2. flight' = [flight EXCEPT ![s] = [r EXCEPT !.answer = "ok"]]
    BY <1>3 DEF Session!Answer
  <2> QED
    BY <2>1, <2>2, SlotKeeps
<1>4. CASE Session!ServeAuth(s)
  <2>1. CASE Session!Answer(s, "failed") /\ UNCHANGED <<owner, open>>
    BY <1>2, <1>4, <2>1 DEF Session!ServeAuth
  <2>2. CASE Len(owner) < MaxKeys /\ owner' = Append(owner, r.user) /\ open' = open \cup {Len(owner) + 1}
    <3>1. r.user \in Users
      BY <1>1, <1>4 DEF Session!ServeAuth, Sound
    <3>2. /\ owner' \in Seq(Users) /\ Len(owner') <= MaxKeys /\ open' \subseteq 1 .. Len(owner')
          /\ Len(owner) + 1 \in Session!SessionKeys
      BY <2>2, <3>1, OpenedKeeps
    <3>3. CASE Session!Answer(s, "failed")
      BY <1>2, <1>4, <3>2, <3>3 DEF Session!ServeAuth
    <3>4. CASE flight' = [flight EXCEPT ![s].key = Len(owner) + 1, ![s].answer = "ok"]
      <4> DEFINE q == [r EXCEPT !.key = Len(owner) + 1, !.answer = "ok"]
      <4>1. q \in Session!Request /\ Sound(q)
        BY <1>1, <1>4, <3>2 DEF Session!ServeAuth, Session!Request, Sound
      <4>2. flight' = [flight EXCEPT ![s] = q]
        BY <3>4
      <4> HIDE DEF q
      <4> QED
        BY <1>4, <3>2, <4>1, <4>2, SlotKeeps DEF Session!ServeAuth
    <3> QED
      BY <1>4, <2>2, <3>3, <3>4, SessionAssumption DEF Session!ServeAuth, Session!Answer
  <2> QED
    BY <1>4, <2>1, <2>2 DEF Session!ServeAuth
<1>5. CASE Session!ServeGetUser(s)
  <2>1. CASE r.key \in open /\ flight' = [flight EXCEPT ![s].user = owner[r.key], ![s].answer = "ok"]
    <3> DEFINE q == [r EXCEPT !.user = owner[r.key], !.answer = "ok"]
    <3>1. owner[r.key] \in Users
      BY <2>1
    <3>2. q \in Session!Request /\ Sound(q)
      BY <1>1, <1>5, <3>1 DEF Session!ServeGetUser, Session!Request, Session!UID, Sound
    <3>3. flight' = [flight EXCEPT ![s] = q]
      BY <2>1
    <3> HIDE DEF q
    <3> QED
      BY <1>5, <3>2, <3>3, SlotKeeps DEF Session!ServeGetUser
  <2>2. CASE \E answer \in {"expired", "failed"} : Session!Answer(s, answer)
    BY <1>2, <1>5, <2>2 DEF Session!ServeGetUser
  <2> QED
    BY <1>5, <2>1, <2>2 DEF Session!ServeGetUser
<1>6. CASE Session!ServeDeleteAccount(s)
  <2>1. open' \subseteq 1 .. Len(owner) /\ r.kind = "DeleteAccount"
    BY <1>6 DEF Session!ServeDeleteAccount
  <2>2. Session!Answer(s, "ok") \/ Session!Answer(s, "failed")
    BY <1>6 DEF Session!ServeDeleteAccount
  <2> QED
    BY <1>2, <1>3, <1>6, <2>1, <2>2 DEF Session!ServeDeleteAccount
<1>7. CASE Session!ServeLogout(s)
  BY <1>7, SlotKeeps DEF Session!ServeLogout, Session!Done
<1> QED
  BY <1>4, <1>5, <1>6, <1>7

LEMMA SessionNext ==
  ASSUME SessionInv, Session!Next
  PROVE  SessionInv'
<1>1. ASSUME NEW u \in Users, Session!OpenSession(u)
      PROVE  SessionInv'
  BY <1>1, OpenedKeeps DEF Session!OpenSession, Session!CtxKeeps, SessionInv, Session!TypeOK
<1>2. ASSUME NEW k \in 1 .. Len(owner), Session!CloseSession(k)
      PROVE  SessionInv'
  BY <1>2 DEF Session!CloseSession, Session!CtxKeeps, SessionInv, Session!TypeOK
<1> QED
  BY <1>1, <1>2, UserSteps, ResultSteps, ServeSteps DEF Session!Next
-----------------------------------------------------------------------------
(* Account linking *)

LinkInv == Link!TypeOK /\ Link!DataIsOfCode /\ Link!LinkIsAnswered

LEMMA LinkInit == Link!Init => LinkInv
BY LoadableAssumption, LinkAssumption
   DEF Link!Init, LinkInv, Link!TypeOK, Link!DataIsOfCode, Link!LinkIsAnswered, Link!NoFlight, Link!Option,
       Link!Loadable, Link!CodesAssumption

LEMMA LinkNext ==
  ASSUME LinkInv, Link!Next
  PROVE  LinkInv'
<1> USE LoadableAssumption, LinkAssumption DEF LinkInv, Link!TypeOK, Link!DataIsOfCode, Link!LinkIsAnswered, Link!Option,
       Link!Loadable, Link!CodesAssumption, Link!UnderWay, Link!Request, Link!CreateRequest, Link!ReadRequest
<1>1. CASE Link!Load
  BY <1>1 DEF Link!Load, Link!Sent
<1>2. CASE Link!ReadData
  BY <1>2 DEF Link!ReadData, Link!Sent
<1>3. CASE Link!Unload
  BY <1>3 DEF Link!Unload
<1>4. ASSUME NEW s \in Slots, NEW result \in (Codes \ given) \cup {Failed}, Link!LinkCodeResult(s, result)
      PROVE LinkInv'
  BY <1>4 DEF Link!LinkCodeResult, Link!Ended
<1>5. ASSUME NEW s \in Slots, calls[s] # Free, NEW result \in {calls[s].code, Failed}, Link!LinkDataResult(s, result)
      PROVE LinkInv'
  BY <1>5 DEF Link!LinkDataResult, Link!Ended
<1> QED
  BY <1>1, <1>2, <1>3, <1>4, <1>5 DEF Link!Next, Link!Answer
-----------------------------------------------------------------------------
(* Data export *)

ExportInv == Export!TypeOK /\ Export!ExportOfSession /\ Export!ExportIsAnswered

LEMMA ExportInit == Export!Init => ExportInv
BY LoadableAssumption, ExportAssumption
   DEF Export!Init, ExportInv, Export!TypeOK, Export!ExportOfSession, Export!ExportIsAnswered,
       Export!NoFlight, Export!Option

LEMMA ExportNext ==
  ASSUME ExportInv, Export!Next
  PROVE  ExportInv'
<1> USE LoadableAssumption, ExportAssumption
    DEF ExportInv, Export!TypeOK, Export!ExportOfSession, Export!ExportIsAnswered, Export!Export,
        Export!Option, Export!Loadable, Export!KeysAssumption, Export!UnderWay
<1>1. CASE Export!Load
  BY <1>1 DEF Export!Load, Export!Sent
<1>2. CASE Export!Unload
  BY <1>2 DEF Export!Unload
<1>3. ASSUME NEW k \in Export!Option(Keys), Export!ProfileChanged(k)
      PROVE  ExportInv'
  BY <1>3 DEF Export!ProfileChanged
<1>4. ASSUME NEW s \in Slots, exports[s] # Free,
             NEW result \in {Export!Url(exports[s]), Failed}, Export!DataExportResult(s, result)
      PROVE  ExportInv'
  BY <1>4 DEF Export!DataExportResult, Export!Ended
<1> QED
  BY <1>1, <1>2, <1>3, <1>4 DEF Export!Next, Export!Answer
-----------------------------------------------------------------------------
(* Manifests of add-ons *)

\* The manifest that Ctx waits for is of a user the session has had since it asked.
TraktOfUser == trakt # None => uid # None /\ \E u \in holders : trakt.url = Descriptors!TraktUrl(u)

DescriptorInv ==
  /\ Descriptors!TypeOK /\ Descriptors!PageIsOfSelected /\ Descriptors!ManifestIsAnswered
  /\ TraktOfUser

LEMMA DescriptorInit == Descriptors!Init => DescriptorInv
BY LoadableAssumption, DescriptorsAssumption
   DEF Descriptors!Init, DescriptorInv, Descriptors!TypeOK, Descriptors!PageIsOfSelected,
       Descriptors!ManifestIsAnswered, Descriptors!NoFlight, Descriptors!Option, TraktOfUser

LEMMA DescriptorNext ==
  ASSUME DescriptorInv, Descriptors!Next
  PROVE  DescriptorInv'
<1> USE LoadableAssumption, DescriptorsAssumption
    DEF DescriptorInv, Descriptors!TypeOK, Descriptors!PageIsOfSelected, Descriptors!Descriptor,
        Descriptors!ManifestIsAnswered, Descriptors!Option, Descriptors!Loadable, TraktOfUser,
        Descriptors!UnderWay, Descriptors!UrlsAssumption, Descriptors!LocalAddon
<1>0. \A u \in Users : Descriptors!TraktUrl(u) \in Descriptors!Urls
  BY DEF Descriptors!Urls
<1>1. CASE Descriptors!InstallTraktAddon
  BY <1>0, <1>1 DEF Descriptors!InstallTraktAddon, Descriptors!Requested, Descriptors!Request,
     Descriptors!Sent, Descriptors!details
<1>2. CASE Descriptors!UninstallTraktAddon
  BY <1>0, <1>2 DEF Descriptors!UninstallTraktAddon, Descriptors!ProfileChanged
<1>3. CASE Descriptors!Logout
  BY <1>3 DEF Descriptors!Logout, Descriptors!ProfileChanged
<1>4. CASE Descriptors!UnloadAddonDetails
  BY <1>4 DEF Descriptors!UnloadAddonDetails
<1>5. ASSUME NEW s \in Slots, manifests[s] # Free, NEW result \in {manifests[s], Failed},
             Descriptors!ManifestRequestResult(s, result)
      PROVE  DescriptorInv'
  BY <1>5 DEF Descriptors!ManifestRequestResult, Descriptors!Received, Descriptors!Ended
<1>6. ASSUME NEW url \in Descriptors!Urls, Descriptors!LoadAddonDetails(url)
      PROVE  DescriptorInv'
  BY <1>6 DEF Descriptors!LoadAddonDetails, Descriptors!Requested, Descriptors!Request,
     Descriptors!Sent
<1>7. ASSUME NEW url \in OtherUrls, Descriptors!ChangeAddons(url)
      PROVE  DescriptorInv'
  <2>1. url \in Descriptors!Urls
    BY DEF Descriptors!Urls
  <2> QED
    BY <1>7, <2>1 DEF Descriptors!ChangeAddons, Descriptors!ProfileChanged
<1>8. ASSUME NEW u \in Users, Descriptors!CtxAuthResult(u)
      PROVE  DescriptorInv'
  BY <1>0, <1>8 DEF Descriptors!CtxAuthResult, Descriptors!ProfileChanged
<1>9. ASSUME NEW u \in Users, Descriptors!UserAPIResult(u)
      PROVE  DescriptorInv'
  BY <1>9 DEF Descriptors!UserAPIResult, Descriptors!ProfileChanged
<1> QED
  BY <1>1, <1>2, <1>3, <1>4, <1>5, <1>6, <1>7, <1>8, <1>9 DEF Descriptors!Next, Descriptors!Answer

LEMMA TraktStep ==
  ASSUME DescriptorInv, NEW s \in Slots, Descriptors!Answer(s)
  PROVE  \A url \in addons' \ addons : uid # None /\ \E u \in holders : url = Descriptors!TraktUrl(u)
BY LoadableAssumption, DescriptorsAssumption
   DEF DescriptorInv, TraktOfUser, Descriptors!Answer, Descriptors!ManifestRequestResult,
       Descriptors!Received, Descriptors!TypeOK, Descriptors!Option, Descriptors!Loadable,
       Descriptors!Descriptor, Descriptors!UrlsAssumption
-----------------------------------------------------------------------------
(* Analytics *)

\* A batch holds events that its account emitted.
Own(batch, count, by) ==
  /\ batch \in Events!Batch
  /\ \A e \in Events!Events(batch) : e \in 1 .. count /\ by[e] = batch.auth_key

Request == [batch : Events!Batch, flushed : BOOLEAN, answer : {"none", "ok", "refused", "failed"}]

EventsInv ==
  /\ auth_key \in Keys \cup {None} /\ number \in 0 .. MaxEvents
  /\ emitter \in Seq(Keys) /\ Len(emitter) = number
  /\ queue \in Seq(Events!Batch) /\ \A i \in 1 .. Len(queue) : Own(queue[i], number, emitter)
  /\ pending # None => Own(pending, number, emitter)
  /\ sending \in [Slots -> Request \cup {Free}]
  /\ \A s \in Slots : sending[s] # Free => Own(sending[s].batch, number, emitter)
  /\ received \cup dropped \subseteq 1 .. number

LEMMA EventsTyped == EventsInv => Events!TypeOK
<1> SUFFICES ASSUME EventsInv PROVE Events!TypeOK
  OBVIOUS
<1>1. DOMAIN queue = 1 .. Len(queue) /\ DOMAIN sending = Slots /\ emitter \in [1 .. number -> Keys]
  BY DEF EventsInv
<1>2. ASSUME NEW b, Own(b, number, emitter)
      PROVE  b.auth_key \in Keys /\ Events!Events(b) \subseteq Events!Numbers
  BY <1>2, AnalyticsAssumption DEF Own, Events!Batch, EventsInv, Events!Numbers, Events!EventsAssumption
<1> QED
  BY <1>1, <1>2 DEF EventsInv, Events!TypeOK, Events!Option

LEMMA EventsInit == Events!Init => EventsInv
BY AnalyticsAssumption, LoadableAssumption DEF Events!Init, EventsInv, Events!NoFlight, Events!EventsAssumption, Events!AccountsAssumption

LEMMA Emitted ==
  ASSUME EventsInv, Events!Emit
  PROVE  /\ EventsInv'
         /\ LET n == Len(queue)
                m == Len(queue')
            IN /\ m \in 1 .. n + 1 /\ n \in Nat /\ (m = n \/ m = n + 1)
               /\ \A i \in 1 .. m - 1 : i \in 1 .. n /\ queue'[i] = queue[i]
               /\ Events!Events(queue'[m]) =
                    {number + 1} \cup IF m = n THEN Events!Events(queue[n]) ELSE {}
<1> DEFINE e == number + 1
           new == [auth_key |-> auth_key, events |-> <<e>>]
           n == Len(queue)
           longer == [queue[n] EXCEPT !.events = Append(@, e)]
<1>1. /\ number \in Nat /\ MaxEvents \in Nat /\ e \in 1 .. MaxEvents /\ number' = e /\ auth_key \in Keys
      /\ emitter' = Append(emitter, auth_key) /\ queue' = Events!PushEvent(e, auth_key)
      /\ UNCHANGED <<auth_key, pending, sending, received, dropped>>
  BY AnalyticsAssumption DEF EventsInv, Events!Emit, Events!EventsAssumption
<1>2. /\ emitter' \in Seq(Keys) /\ Len(emitter') = number'
      /\ emitter'[e] = auth_key /\ \A f \in 1 .. number : emitter'[f] = emitter[f]
  BY <1>1 DEF EventsInv
<1>3. \A batch : Own(batch, number, emitter) => Own(batch, number', emitter')
  BY <1>1, <1>2 DEF Own, Events!Events, Events!Range
<1>4. new \in Events!Batch /\ Own(new, number', emitter') /\ Events!Events(new) = {e}
  <2>1. <<e>> \in Seq(Events!Numbers) /\ Events!Range(<<e>>) = {e}
    BY <1>1 DEF Events!Numbers, Events!Range
  <2> QED
    BY <1>1, <1>2, <2>1 DEF Events!Batch, Own, Events!Events
<1>5. ASSUME queue # <<>>, queue[n].auth_key = auth_key
      PROVE  /\ longer \in Events!Batch /\ Own(longer, number', emitter')
             /\ Events!Events(longer) = Events!Events(queue[n]) \cup {e}
  <2>1. n \in 1 .. n /\ queue[n] \in Events!Batch /\ Own(queue[n], number, emitter)
    BY <1>5 DEF EventsInv
  <2>2. PICK es \in Seq(Events!Numbers) : queue[n].events = es
    BY <2>1 DEF Events!Batch
  <2>3. Append(es, e) \in Seq(Events!Numbers)
        /\ Events!Range(Append(es, e)) = Events!Range(es) \cup {e}
    <3>1. e \in Events!Numbers
      BY <1>1 DEF Events!Numbers
    <3>2. Len(Append(es, e)) = Len(es) + 1 /\ Append(es, e)[Len(es) + 1] = e
          /\ \A i \in 1 .. Len(es) : Append(es, e)[i] = es[i]
      OBVIOUS
    <3>3. DOMAIN es = 1 .. Len(es) /\ DOMAIN Append(es, e) = 1 .. Len(es) + 1 /\ Len(es) \in Nat
      BY <3>1, <3>2
    <3>4. Append(es, e) \in Seq(Events!Numbers)
      BY <3>1
    <3> QED
      BY <3>2, <3>3, <3>4 DEF Events!Range
  <2>4. longer = [auth_key |-> auth_key, events |-> Append(es, e)]
    BY <2>1, <2>2, <1>5 DEF Events!Batch
  <2> HIDE DEF longer
  <2>5. longer \in Events!Batch /\ longer.auth_key = auth_key
    BY <1>1, <2>3, <2>4 DEF Events!Batch
  <2>6. Events!Events(longer) = Events!Events(queue[n]) \cup {e}
    BY <2>2, <2>3, <2>4 DEF Events!Events
  <2> QED
    BY <1>1, <1>2, <1>5, <2>1, <2>5, <2>6 DEF Own
<1>6. CASE queue # <<>> /\ queue[n].auth_key = auth_key
  <2>1. queue' = [queue EXCEPT ![n] = longer]
    BY <1>1, <1>6 DEF Events!PushEvent, Events!Last
  <2> HIDE DEF longer
  <2>2. n \in 1 .. n /\ Len(queue') = n /\ queue' \in Seq(Events!Batch)
        /\ queue'[n] = longer /\ \A i \in 1 .. n - 1 : queue'[i] = queue[i]
    BY <1>5, <1>6, <2>1 DEF EventsInv
  <2>3. \A i \in 1 .. Len(queue') : Own(queue'[i], number', emitter')
    BY <1>3, <1>5, <1>6, <2>2 DEF EventsInv
  <2>4. EventsInv'
    BY <1>1, <1>2, <1>3, <2>2, <2>3 DEF EventsInv
  <2> QED
    BY <1>1, <1>5, <1>6, <2>2, <2>4
<1>7. CASE ~(queue # <<>> /\ queue[n].auth_key = auth_key)
  <2>1. queue' = Append(queue, new)
    BY <1>1, <1>7 DEF Events!PushEvent, Events!Last
  <2> HIDE DEF new
  <2>2. n \in Nat /\ Len(queue') = n + 1 /\ queue' \in Seq(Events!Batch)
        /\ queue'[n + 1] = new /\ \A i \in 1 .. n : queue'[i] = queue[i]
    BY <1>4, <2>1 DEF EventsInv
  <2>3. \A i \in 1 .. Len(queue') : Own(queue'[i], number', emitter')
    BY <1>3, <1>4, <2>2 DEF EventsInv
  <2>4. EventsInv'
    BY <1>1, <1>2, <1>3, <2>2, <2>3 DEF EventsInv
  <2> QED
    BY <1>1, <1>4, <2>2, <2>4
<1> QED
  BY <1>6, <1>7

LEMMA BatchTaken ==
  ASSUME EventsInv, Events!SendNextBatch
  PROVE  /\ EventsInv'
         /\ pending' = queue[1] /\ Len(queue) \in Nat \ {0} /\ Len(queue') = Len(queue) - 1
         /\ \A i \in 1 .. Len(queue') : i + 1 \in 1 .. Len(queue) /\ queue'[i] = queue[i + 1]
<1>1. /\ queue \in Seq(Events!Batch) /\ queue # <<>>
      /\ pending' = Head(queue) /\ queue' = Tail(queue)
      /\ UNCHANGED <<auth_key, number, emitter, received, dropped>>
  BY DEF EventsInv, Events!SendNextBatch
<1>2. /\ pending' = queue[1] /\ Len(queue) \in Nat \ {0} /\ Len(queue') = Len(queue) - 1
      /\ queue' \in Seq(Events!Batch)
      /\ \A i \in 1 .. Len(queue') : i + 1 \in 1 .. Len(queue) /\ queue'[i] = queue[i + 1]
  BY <1>1
<1>3. queue[1] \in Events!Batch /\ Own(queue[1], number, emitter)
  BY <1>2 DEF EventsInv
<1>4. PICK s \in Slots : sending' =
        [sending EXCEPT ![s] = [batch |-> Head(queue), flushed |-> FALSE, answer |-> "none"]]
  BY DEF Events!SendNextBatch, Events!Sent
<1>5. /\ sending' \in [Slots -> Request \cup {Free}]
      /\ \A t \in Slots : sending'[t] # Free => Own(sending'[t].batch, number, emitter)
  BY <1>1, <1>2, <1>3, <1>4 DEF EventsInv, Request
<1> QED
  BY <1>1, <1>2, <1>3, <1>5 DEF EventsInv

LEMMA Served ==
  ASSUME EventsInv, NEW s \in Slots, Events!Serve(s)
  PROVE  EventsInv'
<1>1. sending[s] \in Request /\ Events!Events(sending[s].batch) \subseteq 1 .. number
  BY DEF EventsInv, Events!Serve, Own
<1>2. PICK answer \in {"ok", "refused", "failed"} : sending' = [sending EXCEPT ![s].answer = answer]
  BY DEF Events!Serve
<1>3. /\ sending' \in [Slots -> Request \cup {Free}]
      /\ \A t \in Slots : sending'[t] # Free => Own(sending'[t].batch, number, emitter)
  BY <1>1, <1>2 DEF EventsInv, Request, Events!Serve
<1>4. received' \cup dropped' \subseteq 1 .. number
  BY <1>1 DEF EventsInv, Events!Serve
<1> QED
  BY <1>3, <1>4 DEF EventsInv, Events!Serve

LEMMA Settled ==
  ASSUME EventsInv, NEW s \in Slots, Events!BatchSent(s)
  PROVE  /\ EventsInv'
         /\ \/ UNCHANGED <<pending, queue>> /\ ~(~sending[s].flushed /\ pending = sending[s].batch)
            \/ /\ pending' = None /\ ~sending[s].flushed /\ pending = sending[s].batch
               /\ sending[s].answer # "failed" /\ queue' = queue
            \/ /\ pending' = None /\ ~sending[s].flushed /\ pending = sending[s].batch
               /\ pending # None /\ sending[s].answer = "failed"
               /\ Len(queue) \in Nat /\ Len(queue') = Len(queue) + 1 /\ queue'[1] = pending
               /\ \A i \in 2 .. Len(queue') : i - 1 \in 1 .. Len(queue) /\ queue'[i] = queue[i - 1]
<1>1. sending' = [sending EXCEPT ![s] = Free] /\ sending[s] \in Request
      /\ UNCHANGED <<auth_key, number, emitter, received, dropped>>
  BY DEF Events!BatchSent, Events!Ended, EventsInv
<1>2. /\ sending' \in [Slots -> Request \cup {Free}]
      /\ \A t \in Slots : sending'[t] # Free => Own(sending'[t].batch, number, emitter)
  BY <1>1 DEF EventsInv
<1>3. CASE ~sending[s].flushed /\ pending = sending[s].batch /\ sending[s].answer = "failed"
  <2>1. pending' = None /\ queue' = <<pending>> \o queue
    BY <1>3 DEF Events!BatchSent
  <2>2. pending \in Events!Batch /\ Own(pending, number, emitter) /\ pending # None
    BY <1>1, <1>3, AnalyticsAssumption DEF EventsInv, Request, Own, Events!AccountsAssumption,
       Events!BatchSent
  <2>3. /\ queue \in Seq(Events!Batch) /\ queue' \in Seq(Events!Batch)
        /\ Len(queue) \in Nat /\ Len(queue') = Len(queue) + 1 /\ queue'[1] = pending
        /\ \A i \in 2 .. Len(queue') : i - 1 \in 1 .. Len(queue) /\ queue'[i] = queue[i - 1]
    BY <2>1, <2>2 DEF EventsInv
  <2>4. \A i \in 1 .. Len(queue') : Own(queue'[i], number, emitter)
    BY <2>2, <2>3 DEF EventsInv
  <2>5. EventsInv'
    BY <1>1, <1>2, <2>1, <2>3, <2>4 DEF EventsInv
  <2> QED
    BY <1>3, <2>1, <2>2, <2>3, <2>5
<1>4. CASE ~(~sending[s].flushed /\ pending = sending[s].batch /\ sending[s].answer = "failed")
  <2>1. queue' = queue /\ pending' \in {pending, None}
    BY <1>4 DEF Events!BatchSent
  <2>2. EventsInv'
    BY <1>1, <1>2, <2>1 DEF EventsInv
  <2> QED
    BY <1>4, <2>2 DEF Events!BatchSent
<1> QED
  BY <1>3, <1>4

LEMMA Flushed ==
  ASSUME EventsInv, Events!Flush
  PROVE  /\ EventsInv'
         /\ \A s \in Slots :
              \/ sending'[s] = sending[s]
              \/ \E i \in 1 .. Len(queue) :
                   sending'[s] = [batch |-> queue[i], flushed |-> TRUE, answer |-> "none"]
<1>1. /\ queue' = <<>> /\ pending' = None /\ dropped' = dropped \cup Events!Queued \cup Events!Pending
      /\ UNCHANGED <<auth_key, number, emitter, received>>
  BY DEF Events!Flush
<1>2. DOMAIN queue = 1 .. Len(queue) /\ queue \in Seq(Events!Batch)
  BY DEF EventsInv
<1>3. /\ DOMAIN sending' = Slots /\ sending' = [s \in Slots |-> sending'[s]]
      /\ \A s \in Slots :
           \/ sending'[s] = sending[s]
           \/ \E i \in 1 .. Len(queue) :
                sending'[s] = [batch |-> queue[i], flushed |-> TRUE, answer |-> "none"]
  <2>1. PICK place \in [DOMAIN queue -> {s \in Slots : sending[s] = Free}] :
          sending' = [s \in Slots |->
            IF s \in Events!Range(place)
              THEN [batch |-> queue[CHOOSE i \in DOMAIN queue : place[i] = s], flushed |-> TRUE,
                    answer |-> "none"]
              ELSE sending[s]]
    BY DEF Events!Flush
  <2>2. ASSUME NEW s \in Slots, s \in Events!Range(place)
        PROVE  \E i \in 1 .. Len(queue) :
                 sending'[s] = [batch |-> queue[i], flushed |-> TRUE, answer |-> "none"]
    <3>1. \E i \in DOMAIN queue : place[i] = s
      BY <2>2 DEF Events!Range
    <3> DEFINE j == CHOOSE i \in DOMAIN queue : place[i] = s
    <3>2. j \in 1 .. Len(queue)
      BY <3>1, <1>2
    <3> QED
      BY <2>1, <2>2, <3>2
  <2> QED
    BY <2>1, <2>2
<1>4. /\ sending' \in [Slots -> Request \cup {Free}]
      /\ \A s \in Slots : sending'[s] # Free => Own(sending'[s].batch, number, emitter)
  <2>1. ASSUME NEW s \in Slots
        PROVE  /\ sending'[s] \in Request \cup {Free}
               /\ sending'[s] # Free => Own(sending'[s].batch, number, emitter)
    <3>1. CASE sending'[s] = sending[s]
      BY <3>1 DEF EventsInv
    <3>2. ASSUME NEW i \in 1 .. Len(queue),
                 sending'[s] = [batch |-> queue[i], flushed |-> TRUE, answer |-> "none"]
          PROVE  sending'[s] \in Request /\ Own(sending'[s].batch, number, emitter)
      BY <3>2 DEF EventsInv, Own, Request
    <3> QED
      BY <1>3, <3>1, <3>2
  <2> QED
    BY <1>3, <2>1
<1>5. Events!Queued \cup Events!Pending \subseteq 1 .. number
  BY <1>2 DEF EventsInv, Own, Events!Queued, Events!Pending
<1> QED
  BY <1>1, <1>3, <1>4, <1>5 DEF EventsInv

LEMMA EventsNext ==
  ASSUME EventsInv, Events!Next
  PROVE  EventsInv'
<1>1. ASSUME NEW k \in Events!Option(Keys), Events!ProfileChanged(k)
      PROVE  EventsInv'
  BY <1>1 DEF EventsInv, Events!ProfileChanged, Events!Option
<1> QED
  BY <1>1, Emitted, BatchTaken, Served, Settled, Flushed DEF Events!Next
-----------------------------------------------------------------------------
Holds(batch) == Events!Events(batch)

\* What was answered has arrived or was dropped.
Confirmed ==
  \A s \in Slots : sending[s] # Free =>
    /\ sending[s].answer = "ok" => Holds(sending[s].batch) \subseteq received
    /\ sending[s].answer = "refused" => Holds(sending[s].batch) \subseteq dropped

\* The batches are in order: the one pending, then the queue.
InOrder ==
  /\ \A i, j \in 1 .. Len(queue) : i < j => \A e \in Holds(queue[i]), f \in Holds(queue[j]) : e < f
  /\ pending # None =>
       \A j \in 1 .. Len(queue) : \A e \in Holds(pending), f \in Holds(queue[j]) : e < f

\* What has arrived and is not dropped comes before each of them, or is of it.
Arrived(batch, before) ==
  \A e \in Holds(batch), f \in before : f < e \/ f \in Holds(batch)
ArrivedBefore ==
  /\ \A i \in 1 .. Len(queue) : Arrived(queue[i], received \ dropped)
  /\ pending # None => Arrived(pending, received \ dropped)

\* What is under way is the one pending, once, or was dropped.
IsPending(s) ==
  sending[s] # Free /\ ~sending[s].flushed /\ ~(Holds(sending[s].batch) \subseteq dropped)
OnlyPending ==
  /\ \A s \in Slots : IsPending(s) => pending = sending[s].batch
  /\ \A s, t \in Slots : IsPending(s) /\ IsPending(t) => s = t
  /\ \A s \in Slots :
       sending[s] # Free /\ sending[s].flushed => Holds(sending[s].batch) \subseteq dropped

DeliveryInv ==
  EventsInv /\ Events!NotForgotten /\ Confirmed /\ InOrder /\ ArrivedBefore /\ OnlyPending

LEMMA QueuedIs ==
  ASSUME EventsInv
  PROVE  /\ \A e : e \in Events!Queued <=> \E i \in 1 .. Len(queue) : e \in Holds(queue[i])
         /\ \A e : e \in Events!Pending <=> pending # None /\ e \in Holds(pending)
         /\ \A i \in 1 .. Len(queue) : Holds(queue[i]) \subseteq 1 .. number
         /\ pending # None => Holds(pending) \subseteq 1 .. number
         /\ number \in Nat /\ Len(queue) \in Nat
         /\ \A s \in Slots : sending[s] # Free =>
              sending[s] \in Request /\ Holds(sending[s].batch) \subseteq 1 .. number
<1>1. DOMAIN queue = 1 .. Len(queue) /\ Len(queue) \in Nat
  BY DEF EventsInv
<1> QED
  BY <1>1 DEF EventsInv, Own, Events!Queued, Events!Pending, Holds

LEMMA QueuedNext ==
  ASSUME EventsInv'
  PROVE  /\ \A e : e \in Events!Queued' <=> \E i \in 1 .. Len(queue') : e \in Holds(queue'[i])
         /\ \A e : e \in Events!Pending' <=> pending' # None /\ e \in Holds(pending')
<1>1. DOMAIN queue' = 1 .. Len(queue')
  BY DEF EventsInv
<1> QED
  BY <1>1 DEF Events!Queued, Events!Pending, Holds

LEMMA DeliveryInit == Events!Init => DeliveryInv
<1> SUFFICES ASSUME Events!Init PROVE DeliveryInv
  OBVIOUS
<1>1. queue = <<>> /\ Len(queue) = 0 /\ DOMAIN queue = {} /\ pending = None /\ number = 0
      /\ received = {} /\ dropped = {} /\ \A s \in Slots : sending[s] = Free
  BY DEF Events!Init, Events!NoFlight
<1>2. 1 .. 0 = {}
  OBVIOUS
<1> QED
  BY <1>1, <1>2, EventsInit DEF DeliveryInv, Events!NotForgotten, Confirmed, InOrder, ArrivedBefore, OnlyPending,
     IsPending, Events!Queued, Events!Pending

LEMMA EmittedDelivers ==
  ASSUME DeliveryInv, Events!Emit
  PROVE  DeliveryInv'
<1> DEFINE n == Len(queue)
           m == Len(queue')
<1>1. /\ number' = number + 1 /\ number \in Nat
      /\ UNCHANGED <<auth_key, pending, sending, received, dropped>>
  BY QueuedIs DEF Events!Emit, DeliveryInv
<1>2. /\ m \in 1 .. n + 1 /\ n \in Nat /\ (m = n \/ m = n + 1)
      /\ \A i \in 1 .. m - 1 : i \in 1 .. n /\ queue'[i] = queue[i]
      /\ Holds(queue'[m]) = {number + 1} \cup IF m = n THEN Holds(queue[n]) ELSE {}
      /\ EventsInv'
  BY Emitted DEF DeliveryInv, Holds
<1>3. /\ received \subseteq 1 .. number /\ \A i \in 1 .. n : Holds(queue[i]) \subseteq 1 .. number
      /\ pending # None => Holds(pending) \subseteq 1 .. number
  BY QueuedIs DEF DeliveryInv, EventsInv
<1>4. /\ \A e : e \in Events!Queued <=> \E i \in 1 .. n : e \in Holds(queue[i])
      /\ \A e : e \in Events!Queued' <=> \E i \in 1 .. m : e \in Holds(queue'[i])
      /\ Events!Pending' = Events!Pending
  BY <1>1, <1>2, QueuedIs, QueuedNext DEF DeliveryInv, Events!Pending, Events!Events
<1> HIDE DEF n, m
<1>5. \A i \in 1 .. m : \A e \in Holds(queue'[i]) :
        \/ e = number + 1 /\ i = m
        \/ i \in 1 .. n /\ e \in Holds(queue[i])
  BY <1>2
<1>6. /\ \A i \in 1 .. n : i \in 1 .. m /\ Holds(queue[i]) \subseteq Holds(queue'[i])
      /\ number + 1 \in Holds(queue'[m]) /\ m \in 1 .. m
  BY <1>2
<1>7. Events!NotForgotten'
  <2>1. Events!Queued' = Events!Queued \cup {number + 1}
    BY <1>4, <1>5, <1>6
  <2> QED
    BY <1>1, <1>4, <2>1 DEF DeliveryInv, Events!NotForgotten
<1>8. InOrder'
  <2>1. ASSUME NEW i \in 1 .. m, NEW j \in 1 .. m, i < j,
               NEW e \in Holds(queue'[i]), NEW f \in Holds(queue'[j])
        PROVE  e < f
    <3>1. i \in 1 .. n /\ e \in Holds(queue[i]) /\ e \in 1 .. number
      BY <1>2, <1>3, <1>5, <2>1
    <3>2. CASE f = number + 1
      BY <1>1, <3>1, <3>2
    <3>3. CASE j \in 1 .. n /\ f \in Holds(queue[j])
      BY <2>1, <3>1, <3>3 DEF DeliveryInv, InOrder, n
    <3> QED
      BY <1>5, <3>2, <3>3
  <2>2. ASSUME pending # None, NEW j \in 1 .. m, NEW e \in Holds(pending), NEW f \in Holds(queue'[j])
        PROVE  e < f
    <3>1. CASE f = number + 1
      BY <1>1, <1>3, <2>2, <3>1
    <3>2. CASE j \in 1 .. n /\ f \in Holds(queue[j])
      BY <2>2, <3>2 DEF DeliveryInv, InOrder, n
    <3> QED
      BY <1>5, <3>1, <3>2
  <2> QED
    BY <1>1, <2>1, <2>2 DEF InOrder, m
<1>9. ArrivedBefore'
  <2>1. ASSUME NEW i \in 1 .. m
        PROVE  Arrived(queue'[i], received \ dropped)
    <3>1. ASSUME NEW e \in Holds(queue'[i]), NEW f \in received \ dropped
          PROVE  f < e \/ f \in Holds(queue'[i])
      <4>1. CASE e = number + 1
        BY <1>1, <1>3, <3>1, <4>1
      <4>2. CASE i \in 1 .. n /\ e \in Holds(queue[i])
        BY <1>6, <3>1, <4>2 DEF DeliveryInv, ArrivedBefore, Arrived, n
      <4> QED
        BY <1>5, <4>1, <4>2
    <3> QED
      BY <3>1 DEF Arrived
  <2> QED
    BY <1>1, <2>1 DEF DeliveryInv, ArrivedBefore, m
<1> QED
  BY <1>1, <1>2, <1>7, <1>8, <1>9 DEF DeliveryInv, Confirmed, OnlyPending, IsPending

LEMMA TakenDelivers ==
  ASSUME DeliveryInv, Events!SendNextBatch
  PROVE  DeliveryInv'
<1> DEFINE n == Len(queue)
           m == Len(queue')
<1>1. pending = None /\ UNCHANGED <<auth_key, number, emitter, received, dropped>>
  BY DEF Events!SendNextBatch
<1>2. /\ EventsInv' /\ pending' = queue[1] /\ n \in Nat \ {0} /\ m = n - 1
      /\ \A i \in 1 .. m : i + 1 \in 1 .. n /\ queue'[i] = queue[i + 1]
  BY BatchTaken DEF DeliveryInv
<1>3. /\ \A e : e \in Events!Queued <=> \E i \in 1 .. n : e \in Holds(queue[i])
      /\ \A e : e \in Events!Queued' <=> \E i \in 1 .. m : e \in Holds(queue'[i])
      /\ Events!Pending = {} /\ Events!Pending' = Holds(queue[1])
  <2>1. queue[1] # None
    BY <1>2, AnalyticsAssumption DEF DeliveryInv, EventsInv, Own, Events!AccountsAssumption
  <2> QED
    BY <1>1, <1>2, <2>1, QueuedIs, QueuedNext DEF DeliveryInv, Events!Pending, Holds
<1> HIDE DEF n, m
<1>4. Events!NotForgotten'
  <2>1. Events!Queued = Events!Queued' \cup Events!Pending'
    <3>1. ASSUME NEW i \in 1 .. n
          PROVE  i = 1 \/ (i - 1 \in 1 .. m /\ queue'[i - 1] = queue[i])
      BY <1>2
    <3> QED
      BY <1>2, <1>3, <3>1
  <2> QED
    BY <1>1, <1>3, <2>1 DEF DeliveryInv, Events!NotForgotten
<1>5. InOrder'
  BY <1>1, <1>2 DEF DeliveryInv, InOrder, n, m
<1>6. ArrivedBefore'
  BY <1>1, <1>2 DEF DeliveryInv, ArrivedBefore, Arrived, n, m
<1>7. PICK s \in Slots :
        /\ sending[s] = Free
        /\ sending' = [sending EXCEPT ![s] = [batch |-> queue[1], flushed |-> FALSE, answer |-> "none"]]
  <2>1. Head(queue) = queue[1]
    BY <1>2 DEF DeliveryInv, EventsInv, n
  <2> QED
    BY <2>1 DEF Events!SendNextBatch, Events!Sent
<1>8. Confirmed' /\ OnlyPending'
  <2>1. \A t \in Slots : ~IsPending(t)
    <3>1. \A t \in Slots : sending[t] # Free => sending[t].batch # None
      BY AnalyticsAssumption DEF DeliveryInv, EventsInv, Own, Events!AccountsAssumption
    <3> QED
      BY <1>1, <3>1 DEF DeliveryInv, OnlyPending, IsPending
  <2>2. /\ DOMAIN sending = Slots
        /\ \A t \in Slots \ {s} : sending'[t] = sending[t]
        /\ sending'[s] = [batch |-> queue[1], flushed |-> FALSE, answer |-> "none"]
    BY <1>7 DEF DeliveryInv, EventsInv
  <2>3. Confirmed'
    BY <1>1, <2>2 DEF DeliveryInv, Confirmed
  <2>4. \A t \in Slots : IsPending(t)' => t = s
    BY <1>1, <2>1, <2>2 DEF IsPending
  <2>5. OnlyPending'
    BY <1>1, <1>2, <2>2, <2>4 DEF DeliveryInv, OnlyPending, IsPending
  <2> QED
    BY <2>3, <2>5
<1> QED
  BY <1>2, <1>4, <1>5, <1>6, <1>8 DEF DeliveryInv

LEMMA ServedDelivers ==
  ASSUME DeliveryInv, NEW s \in Slots, Events!Serve(s)
  PROVE  /\ DeliveryInv'
         /\ ~sending[s].flushed =>
              Arrived(sending[s].batch, received \ dropped) \/ Holds(sending[s].batch) \subseteq dropped
<1> DEFINE batch == sending[s].batch
<1>1. PICK answer \in {"ok", "refused", "failed"}, arrives \in BOOLEAN :
        /\ arrives => answer # "refused"
        /\ answer = "ok" => arrives
        /\ received' = IF arrives THEN received \cup Holds(batch) ELSE received
        /\ sending' = [sending EXCEPT ![s].answer = answer]
        /\ dropped' = IF answer = "refused" THEN dropped \cup Holds(batch) ELSE dropped
  BY DEF Events!Serve, Holds
<1>2. UNCHANGED <<auth_key, number, queue, pending, emitter>> /\ sending[s] # Free
  BY DEF Events!Serve
<1>3. EventsInv' /\ EventsInv
  BY Served DEF DeliveryInv
<1>4. sending[s] \in Request /\ Holds(batch) \subseteq 1 .. number /\ DOMAIN sending = Slots
  BY <1>2, QueuedIs DEF DeliveryInv, EventsInv
<1>5. /\ \A t \in Slots \ {s} : sending'[t] = sending[t]
      /\ sending'[s].batch = batch /\ sending'[s].flushed = sending[s].flushed
      /\ sending'[s].answer = answer
  BY <1>1, <1>4 DEF Request
<1> HIDE DEF batch
<1>6. Events!NotForgotten'
  <2>1. Events!Queued' = Events!Queued /\ Events!Pending' = Events!Pending
    BY <1>2 DEF Events!Queued, Events!Pending, Events!Events
  <2> QED
    BY <1>1, <1>2, <1>4, <2>1 DEF DeliveryInv, Events!NotForgotten
<1>7. Confirmed'
  BY <1>1, <1>2, <1>5 DEF DeliveryInv, Confirmed, batch
<1>8. InOrder'
  BY <1>2 DEF DeliveryInv, InOrder
<1>9. IsPending(s) \/ Holds(batch) \subseteq dropped
  BY <1>2, <1>4 DEF DeliveryInv, OnlyPending, IsPending, batch, Request
<1>10. ArrivedBefore' /\ (~sending[s].flushed => Arrived(batch, received \ dropped) \/ Holds(batch) \subseteq dropped)
  <2>1. CASE Holds(batch) \subseteq dropped
    <3>1. received' \ dropped' \subseteq received \ dropped
      BY <1>1, <2>1
    <3> QED
      BY <1>2, <2>1, <3>1 DEF DeliveryInv, ArrivedBefore, Arrived
  <2>2. CASE IsPending(s)
    <3>1. batch = pending /\ pending # None
      BY <2>2, <1>4, AnalyticsAssumption DEF DeliveryInv, OnlyPending, batch, Request, Events!AccountsAssumption
    <3>2. received' \ dropped' \subseteq (received \ dropped) \cup Holds(pending)
      BY <1>1, <3>1
    <3>3. \A i \in 1 .. Len(queue) : Arrived(queue[i], received' \ dropped')
      BY <1>2, <3>1, <3>2 DEF DeliveryInv, ArrivedBefore, Arrived, InOrder
    <3>4. Arrived(pending, received \ dropped) /\ Arrived(pending, received' \ dropped')
      BY <1>2, <3>1, <3>2 DEF DeliveryInv, ArrivedBefore, Arrived
    <3> QED
      BY <1>2, <3>1, <3>3, <3>4 DEF ArrivedBefore, Arrived
  <2> QED
    BY <1>9, <2>1, <2>2
<1>11. OnlyPending'
  <2>1. \A t \in Slots : IsPending(t)' => IsPending(t)
    BY <1>1, <1>2, <1>5 DEF IsPending, batch
  <2> QED
    BY <1>1, <1>2, <1>5, <2>1 DEF DeliveryInv, OnlyPending, batch
<1> QED
  BY <1>3, <1>6, <1>7, <1>8, <1>10, <1>11 DEF DeliveryInv, batch

LEMMA SettledDelivers ==
  ASSUME DeliveryInv, NEW s \in Slots, Events!BatchSent(s)
  PROVE  DeliveryInv'
<1>1. /\ sending' = [sending EXCEPT ![s] = Free] /\ sending[s] \in Request /\ sending[s] # Free
      /\ sending[s].answer # "none" /\ DOMAIN sending = Slots
      /\ UNCHANGED <<auth_key, number, emitter, received, dropped>>
  BY DEF Events!BatchSent, Events!Ended, DeliveryInv, EventsInv
<1>2. EventsInv' /\ EventsInv
  BY Settled DEF DeliveryInv
<1>3. /\ \A t \in Slots \ {s} : sending'[t] = sending[t]
      /\ sending'[s] = Free
  BY <1>1
<1>4. Confirmed'
  BY <1>1, <1>3 DEF DeliveryInv, Confirmed
<1>5. \A t \in Slots : IsPending(t)' => IsPending(t) /\ t # s
  BY <1>1, <1>3 DEF IsPending
<1>6. CASE UNCHANGED <<pending, queue>>
  <2>1. Events!NotForgotten' /\ InOrder' /\ ArrivedBefore'
    BY <1>1, <1>6 DEF DeliveryInv, Events!NotForgotten, InOrder, ArrivedBefore, Arrived, Events!Queued, Events!Pending,
       Events!Events
  <2>2. OnlyPending'
    BY <1>1, <1>3, <1>5, <1>6 DEF DeliveryInv, OnlyPending
  <2> QED
    BY <1>2, <1>4, <2>1, <2>2 DEF DeliveryInv
<1>7. CASE pending' = None /\ ~sending[s].flushed /\ pending = sending[s].batch
  <2>1. OnlyPending'
    <3>1. \A t \in Slots : ~IsPending(t)'
      <4>1. ASSUME NEW t \in Slots, IsPending(t), t # s
            PROVE  FALSE
        <5>1. sending[t].batch = sending[s].batch
          BY <1>7, <4>1 DEF DeliveryInv, OnlyPending
        <5>2. IsPending(s)
          BY <1>1, <1>7, <4>1, <5>1 DEF IsPending
        <5> QED
          BY <4>1, <5>2 DEF DeliveryInv, OnlyPending
      <4> QED
        BY <1>5, <4>1
    <3> QED
      BY <1>1, <1>3, <3>1 DEF DeliveryInv, OnlyPending
  <2>2. pending # None
    BY <1>1, <1>7, AnalyticsAssumption DEF Request, Events!AccountsAssumption
  <2>3. CASE sending[s].answer # "failed" /\ queue' = queue
    <3>1. Holds(pending) \subseteq received \cup dropped
      <4>1. sending[s].answer \in {"ok", "refused"}
        BY <1>1, <2>3 DEF Request
      <4> QED
        BY <1>1, <1>7, <4>1 DEF DeliveryInv, Confirmed
    <3>2. Events!Queued' = Events!Queued /\ Events!Pending' = {} /\ Events!Pending = Holds(pending)
      BY <1>7, <2>2, <2>3 DEF Events!Queued, Events!Pending, Events!Events, Holds
    <3>3. Events!NotForgotten'
      BY <1>1, <3>1, <3>2 DEF DeliveryInv, Events!NotForgotten
    <3>4. InOrder' /\ ArrivedBefore'
      BY <1>1, <1>7, <2>3 DEF DeliveryInv, InOrder, ArrivedBefore, Arrived
    <3> QED
      BY <1>2, <1>4, <2>1, <3>3, <3>4 DEF DeliveryInv
  <2>4. CASE /\ Len(queue) \in Nat /\ Len(queue') = Len(queue) + 1 /\ queue'[1] = pending
             /\ \A i \in 2 .. Len(queue') : i - 1 \in 1 .. Len(queue) /\ queue'[i] = queue[i - 1]
    <3> DEFINE n == Len(queue)
               m == Len(queue')
    <3>1. /\ \A e : e \in Events!Queued <=> \E i \in 1 .. n : e \in Holds(queue[i])
          /\ \A e : e \in Events!Queued' <=> \E i \in 1 .. m : e \in Holds(queue'[i])
          /\ Events!Pending = Holds(pending) /\ Events!Pending' = {}
      BY <1>2, <1>7, <2>2, QueuedIs, QueuedNext DEF Events!Pending, Holds
    <3>2. n \in Nat /\ m = n + 1 /\ \A i \in 1 .. n : i + 1 \in 2 .. m /\ queue'[i + 1] = queue[i]
      BY <2>4
    <3>3. \A i \in 1 .. m : (i = 1 /\ queue'[i] = pending)
                         \/ (i \in 2 .. m /\ i - 1 \in 1 .. n /\ queue'[i] = queue[i - 1])
      BY <2>4
    <3> HIDE DEF n, m
    <3>4. Events!NotForgotten'
      <4>1. Events!Queued' = Events!Queued \cup Events!Pending
        <5>1. 1 \in 1 .. m /\ 2 .. m \subseteq 1 .. m
          BY <3>2
        <5> QED
          <6>1. ASSUME NEW e \in Events!Queued'
                PROVE  e \in Events!Queued \/ e \in Events!Pending
            BY <3>1, <3>3
          <6>2. Events!Pending \subseteq Events!Queued'
            BY <2>4, <3>1, <5>1
          <6>3. ASSUME NEW e \in Events!Queued
                PROVE  e \in Events!Queued'
            BY <3>1, <3>2, <5>1
          <6> QED
            BY <6>1, <6>2, <6>3
      <4> QED
        BY <1>1, <3>1, <4>1 DEF DeliveryInv, Events!NotForgotten
    <3>5. InOrder'
      <4>1. ASSUME NEW i \in 1 .. m, NEW j \in 1 .. m, i < j,
                   NEW e \in Holds(queue'[i]), NEW f \in Holds(queue'[j])
            PROVE  e < f
        <5>1. j \in 2 .. m /\ j - 1 \in 1 .. n /\ f \in Holds(queue[j - 1])
          BY <3>2, <3>3, <4>1
        <5>2. CASE i = 1 /\ queue'[i] = pending
          BY <2>2, <4>1, <5>1, <5>2 DEF DeliveryInv, InOrder, n
        <5>3. CASE i \in 2 .. m /\ i - 1 \in 1 .. n /\ queue'[i] = queue[i - 1]
          BY <3>2, <4>1, <5>1, <5>3 DEF DeliveryInv, InOrder, n
        <5> QED
          BY <3>3, <5>2, <5>3
      <4> QED
        BY <1>7, <4>1 DEF InOrder, m
    <3>6. ArrivedBefore'
      BY <1>1, <1>7, <2>2, <3>3 DEF DeliveryInv, ArrivedBefore, Arrived, n, m
    <3> QED
      BY <1>2, <1>4, <2>1, <3>4, <3>5, <3>6 DEF DeliveryInv
  <2> QED
    BY <1>7, <2>2, <2>3, <2>4, Settled DEF DeliveryInv
<1> QED
  BY <1>6, <1>7, Settled DEF DeliveryInv

LEMMA FlushedDelivers ==
  ASSUME DeliveryInv, Events!Flush
  PROVE  DeliveryInv'
<1>1. /\ queue' = <<>> /\ pending' = None /\ dropped' = dropped \cup Events!Queued \cup Events!Pending
      /\ UNCHANGED <<auth_key, number, emitter, received>>
  BY DEF Events!Flush
<1>2. /\ EventsInv'
      /\ \A s \in Slots :
           \/ sending'[s] = sending[s]
           \/ \E i \in 1 .. Len(queue) :
                sending'[s] = [batch |-> queue[i], flushed |-> TRUE, answer |-> "none"]
  BY Flushed DEF DeliveryInv
<1>3. Events!Queued' = {} /\ Events!Pending' = {} /\ Len(queue') = 0 /\ 1 .. 0 = {}
  BY <1>1 DEF Events!Queued, Events!Pending
<1>4. /\ \A i \in 1 .. Len(queue) : Holds(queue[i]) \subseteq dropped'
      /\ pending # None => Holds(pending) \subseteq dropped'
  BY <1>1, QueuedIs DEF DeliveryInv
<1>10. ASSUME NEW s \in Slots, sending'[s] # sending[s]
       PROVE  sending'[s].flushed /\ sending'[s].answer = "none" /\ Holds(sending'[s].batch) \subseteq dropped'
  <2>1. PICK i \in 1 .. Len(queue) :
          sending'[s] = [batch |-> queue[i], flushed |-> TRUE, answer |-> "none"]
    BY <1>2, <1>10
  <2> QED
    BY <1>4, <2>1
<1>5. Events!NotForgotten'
  BY <1>1, <1>3 DEF DeliveryInv, Events!NotForgotten
<1>6. InOrder' /\ ArrivedBefore'
  BY <1>1, <1>3 DEF InOrder, ArrivedBefore
<1>7. Confirmed'
  BY <1>1, <1>10 DEF DeliveryInv, Confirmed
<1>8. \A s \in Slots : ~IsPending(s)'
  <2>1. ASSUME NEW s \in Slots, IsPending(s)'
        PROVE  FALSE
    <3>1. sending'[s] = sending[s] /\ IsPending(s)
      BY <1>1, <1>10, <2>1 DEF IsPending
    <3>2. pending = sending[s].batch /\ pending # None
      BY <3>1, AnalyticsAssumption
      DEF DeliveryInv, OnlyPending, IsPending, EventsInv, Own, Events!AccountsAssumption
    <3> QED
      BY <1>4, <2>1, <3>1, <3>2 DEF IsPending
  <2> QED
    BY <2>1
<1>9. OnlyPending'
  BY <1>1, <1>8, <1>10 DEF DeliveryInv, OnlyPending
<1> QED
  BY <1>2, <1>5, <1>6, <1>7, <1>9 DEF DeliveryInv

LEMMA DeliveryNext ==
  ASSUME DeliveryInv, Events!Next
  PROVE  DeliveryInv'
<1>1. ASSUME NEW k \in Events!Option(Keys), Events!ProfileChanged(k)
      PROVE  DeliveryInv'
  <2>1. UNCHANGED <<number, queue, pending, sending, emitter, received, dropped>>
    BY <1>1 DEF Events!ProfileChanged
  <2>2. EventsInv'
    BY <1>1, EventsNext DEF DeliveryInv, Events!Next
  <2> QED
    BY <2>1, <2>2 DEF DeliveryInv, Events!NotForgotten, Confirmed, InOrder, ArrivedBefore, Arrived,
       OnlyPending, IsPending, Events!Queued, Events!Pending, Events!Events
<1> QED
  BY <1>1, EmittedDelivers, TakenDelivers, ServedDelivers, SettledDelivers, FlushedDelivers
  DEF Events!Next
-----------------------------------------------------------------------------
LEMMA InOrderStep ==
  ASSUME DeliveryInv, NEW s \in Slots, Events!Serve(s), ~sending[s].flushed
  PROVE  \A e \in Events!Events(sending[s].batch) \ dropped, f \in received \ dropped :
           f < e \/ f \in Events!Events(sending[s].batch)
BY ServedDelivers DEF Arrived, Holds
-----------------------------------------------------------------------------
(* The parts together *)

AccountInv == part \in Parts /\ SessionInv /\ LinkInv /\ ExportInv /\ DescriptorInv /\ DeliveryInv

LEMMA AccountInit == Init => AccountInv
BY SessionInit, LinkInit, ExportInit, DescriptorInit, DeliveryInit DEF Init, AccountInv

LEMMA SessionRests ==
  ASSUME SessionInv, UNCHANGED sessionVars
  PROVE  SessionInv'
BY DEF sessionVars, SessionInv, Session!TypeOK

LEMMA LinkRests ==
  ASSUME LinkInv, UNCHANGED linkVars
  PROVE  LinkInv'
BY DEF linkVars, LinkInv, Link!TypeOK, Link!DataIsOfCode, Link!LinkIsAnswered, Link!UnderWay

LEMMA ExportRests ==
  ASSUME ExportInv, UNCHANGED exportVars
  PROVE  ExportInv'
BY DEF exportVars, ExportInv, Export!TypeOK, Export!ExportOfSession, Export!ExportIsAnswered, Export!UnderWay

LEMMA DescriptorsRest ==
  ASSUME DescriptorInv, UNCHANGED descriptorVars
  PROVE  DescriptorInv'
BY DEF descriptorVars, DescriptorInv, Descriptors!TypeOK, Descriptors!PageIsOfSelected,
       Descriptors!ManifestIsAnswered, Descriptors!UnderWay, TraktOfUser

LEMMA DeliveryRests ==
  ASSUME DeliveryInv, UNCHANGED analyticsVars
  PROVE  DeliveryInv'
BY DEF analyticsVars, DeliveryInv, EventsInv, Own, Events!NotForgotten, Confirmed, InOrder,
       ArrivedBefore, Arrived, OnlyPending, IsPending, Events!Queued, Events!Pending, Events!Events

LEMMA AccountStep == AccountInv /\ [Next]_modelVars => AccountInv'
<1> SUFFICES ASSUME AccountInv, [Next]_modelVars PROVE AccountInv'
  OBVIOUS
<1>1. LinkInv'
  BY LinkNext, LinkRests DEF AccountInv, Next, modelVars
<1>2. ExportInv'
  BY ExportNext, ExportRests DEF AccountInv, Next, modelVars
<1>3. DescriptorInv'
  BY DescriptorNext, DescriptorsRest DEF AccountInv, Next, modelVars
<1>4. DeliveryInv'
  BY DeliveryNext, DeliveryRests DEF AccountInv, Next, modelVars
<1>5. SessionInv'
  BY SessionNext, SessionRests DEF AccountInv, Next, modelVars
<1>6. part' \in Parts
  BY DEF AccountInv, Next, modelVars
<1> QED
  BY <1>1, <1>2, <1>3, <1>4, <1>5, <1>6 DEF AccountInv

LEMMA AccountSpec == Spec => []AccountInv
BY AccountInit, AccountStep, PTL DEF Spec

\* Each part keeps the types of its state.
THEOREM AccountTypes == Spec => []TypeOK
<1>1. AccountInv => TypeOK
  BY EventsTyped DEF AccountInv, SessionInv, LinkInv, ExportInv, DescriptorInv, DeliveryInv, TypeOK
<1> QED
  BY <1>1, AccountSpec, PTL

\* What is shown of a link, an export or an add-on was fetched for what is selected
\* and for who is signed in, whichever answers come late (link.rs:93, data_export.rs:61).
THEOREM ShowsOwn == Spec => []ShownIsOwn
<1>1. AccountInv => ShownIsOwn
  BY DEF AccountInv, LinkInv, ExportInv, DescriptorInv, ShownIsOwn
<1> QED
  BY <1>1, AccountSpec, PTL

\* Whatever is Loading will be answered by a request under way.
THEOREM AnswersLoading == Spec => []LoadingIsAnswered
<1>1. AccountInv => LoadingIsAnswered
  BY DEF AccountInv, LinkInv, ExportInv, DescriptorInv, LoadingIsAnswered
<1> QED
  BY <1>1, AccountSpec, PTL

\* A manifest that comes late installs nobody's Trakt add-on but that of a user the
\* session has had since it asked (update_trakt_addon.rs:66), tokens included, which
\* replace the user and keep what was asked for (update_profile.rs:379).
THEOREM InstallsOwnTrakt == Spec => TraktIsOwn
<1>1. AccountInv /\ [Next]_modelVars =>
        [\A s \in Slots : Descriptors!Answer(s) =>
           \A url \in addons' \ addons :
             uid # None /\ \E u \in holders : url = Descriptors!TraktUrl(u)]_(Descriptors!descriptorVars)
  BY TraktStep DEF AccountInv
<1> QED
  BY <1>1, AccountSpec, PTL DEF Spec, TraktIsOwn, Descriptors!TraktIsOwn

\* Every event is sent under the account that emitted it, whatever fails and whoever
\* signs in meanwhile (analytics.rs:64).
THEOREM SendsOwnEvents == Spec => []SentUnderOwnAccount
<1>1. AccountInv => SentUnderOwnAccount
  BY DEF AccountInv, DeliveryInv, EventsInv, Own, SentUnderOwnAccount, Events!SentUnderOwnAccount
<1> QED
  BY <1>1, AccountSpec, PTL

\* No event is forgotten unless it was dropped, and batches arrive in order, those
\* sent again too (analytics.rs:141).
THEOREM Delivered == Spec => DeliveredInOrder
<1>1. AccountInv => Events!NotForgotten
  BY DEF AccountInv, DeliveryInv
<1>2. AccountInv /\ [Next]_modelVars =>
        [\A s \in Slots :
           Events!Serve(s) /\ ~sending[s].flushed =>
             \A e \in Events!Events(sending[s].batch) \ dropped, f \in received \ dropped :
               f < e \/ f \in Events!Events(sending[s].batch)]_(Events!analyticsVars)
  BY InOrderStep DEF AccountInv
<1> QED
  BY <1>1, <1>2, AccountSpec, PTL DEF Spec, DeliveredInOrder, Events!ArriveInOrder
=============================================================================
