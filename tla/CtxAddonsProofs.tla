-------------------------- MODULE CtxAddonsProofs ---------------------------
(***************************************************************************)
(* Proofs about CtxAddons for any accounts, add-ons and sessions, and any  *)
(* number of requests under way, with pushes while the add-ons are locked  *)
(* and with tokens.                                                        *)
(*                                                                         *)
(* Whose collection the add-ons were made from is carried by profiles, in  *)
(* memory and stored, and by requests; an answer is accepted for its key,  *)
(* so the invariant says that a key has one account wherever it is (Keyed) *)
(* and that an account whose add-ons are neither locked nor of a token has *)
(* its own (Based).  Agreeing says what the only request under way will    *)
(* make of profile and API as long as nothing let them drift.              *)
(***************************************************************************)
EXTENDS CtxAddons, TLAPS

Types ==
  /\ profile \in Profile /\ toSave \in Profile /\ saved \in Profile
  /\ flight \in [Slots -> Request \cup {Free}]
  /\ remote \in [Users -> SUBSET Descriptor]
  /\ keys \in 0 .. MaxKeys
  /\ drifted \in BOOLEAN

Profiles == {profile, toSave, saved}
Requests == {flight[s] : s \in {t \in Slots : flight[t] # Free}}

\* A key was opened, for one account.
Keyed ==
  /\ \A p \in Profiles : p.key = 0 <=> p.user = NoUser
  /\ \A p \in Profiles \cup Requests : p.key <= keys
  /\ \A p, q \in Profiles \cup Requests : p.key = q.key => p.user = q.user

Based ==
  /\ \A p \in Profiles : p.user # NoUser /\ ~p.locked /\ ~p.token => p.basis = p.user
  /\ UnforcedWasFetched

AddonInv == Types /\ Keyed /\ Based

LEMMA AddonTypes ==
  /\ Official \in SUBSET Descriptor
  /\ Stored \subseteq SUBSET Descriptor
  /\ Addons \subseteq Descriptor
BY AddonsAssumption DEF Collection

LEMMA DefaultType == Default \in Profile
BY AddonTypes, BoundAssumption DEF Default, Profile, UID

LEMMA AddonInit == Init => AddonInv
<1> SUFFICES ASSUME Init PROVE AddonInv
  OBVIOUS
<1>1. PICK addons \in Stored : profile = [Default EXCEPT !.addons = addons]
  BY DEF Init
<1>2. profile \in Profile /\ profile.user = NoUser /\ profile.key = 0
  BY <1>1, AddonTypes, DefaultType DEF Default, Profile
<1>3. Types
  <2>1. remote \in [Users -> SUBSET Descriptor]
    BY AddonTypes DEF Init
  <2>2. keys \in 0 .. MaxKeys
    BY BoundAssumption DEF Init
  <2> QED
    BY <1>2, <2>1, <2>2 DEF Init, Types
<1>4. Keyed
  <2>1. Requests = {} /\ Profiles = {profile}
    BY DEF Init, Requests, Profiles
  <2> QED
    BY <1>2, <2>1 DEF Init, Keyed
<1>5. Based
  BY <1>2 DEF Init, Based, Profiles, UnforcedWasFetched
<1> QED
  BY <1>3, <1>4, <1>5 DEF AddonInv

LEMMA NewRequestType ==
  ASSUME NEW kind \in {"Get", "Set"}, NEW p \in Profile, p.user # NoUser, p.key # 0
  PROVE  /\ NewRequest(kind, p) \in Request
         /\ NewRequest(kind, p).user = p.user /\ NewRequest(kind, p).key = p.key
         /\ NewRequest(kind, p).kind = kind /\ NewRequest(kind, p).basis = p.basis
         /\ NewRequest(kind, p).forced = (p.locked \/ p.token)
         /\ NewRequest(kind, p).answer = "none"
         /\ kind = "Set" => NewRequest(kind, p).addons = p.addons
BY DEF NewRequest, Request, Profile, UID

\* A request of the session joins the others.
LEMMA SendKeeps ==
  ASSUME AddonInv, SignedIn, NEW kind \in {"Get", "Set"}, NEW p \in Profile,
         p.user = profile.user, p.key = profile.key, p.basis = profile.basis,
         p.locked = profile.locked, p.token = profile.token,
         Send(NewRequest(kind, p)), profile' = p, toSave' \in {toSave, p}, UNCHANGED <<saved, remote, keys>>
  PROVE  AddonInv'
<1> DEFINE r == NewRequest(kind, p)
<1>1. profile.user # NoUser /\ profile.key # 0
  BY DEF SignedIn, AddonInv, Keyed, Profiles
<1>2. /\ r \in Request /\ r.user = p.user /\ r.key = p.key /\ r.kind = kind /\ r.basis = p.basis
      /\ r.forced = (p.locked \/ p.token)
  BY <1>1, NewRequestType
<1> HIDE DEF r
<1>3. PICK s \in Slots : flight[s] = Free /\ flight' = [flight EXCEPT ![s] = r]
  BY DEF Send, r
<1>4. flight'[s] = r /\ \A t \in Slots \ {s} : flight'[t] = flight[t]
  BY <1>3 DEF AddonInv, Types
<1>5. Types'
  <2>1. drifted' \in BOOLEAN
    BY DEF Send, AddonInv, Types
  <2> QED
    BY <1>2, <1>3, <2>1 DEF AddonInv, Types
<1>6. Requests' \subseteq Requests \cup {r} /\ Profiles' \subseteq Profiles \cup {p}
  BY <1>3, <1>4 DEF Requests, Profiles
<1>7. Keyed'
  BY <1>2, <1>6 DEF AddonInv, Keyed, Profiles
<1>8. Based'
  <2>1. ~r.forced => r.basis = r.user
    BY <1>1, <1>2 DEF AddonInv, Based, Profiles, Types, Profile
  <2> QED
    BY <1>4, <1>6, <2>1 DEF AddonInv, Based, Profiles, UnforcedWasFetched
<1> QED
  BY <1>5, <1>7, <1>8 DEF AddonInv

\* Profiles that are there, or new ones of sessions that are there, and no new requests.
LEMMA ProfilesKeep ==
  ASSUME AddonInv, NEW p \in Profile, p.user = NoUser => p.key = 0,
         (p.user = profile.user /\ p.key = profile.key) \/ (p.user = NoUser /\ p.key = 0),
         p.user # NoUser /\ ~p.locked /\ ~p.token => p.basis = p.user,
         Profiles' \subseteq Profiles \cup {p}, UNCHANGED keys,
         \A s \in Slots : flight'[s] \in {flight[s], Free}
  PROVE  Keyed' /\ Based'
<1>1. Requests' \subseteq Requests
  BY DEF Requests
<1>2. \A q, r \in Profiles \cup Requests \cup {p} : q.key = r.key => q.user = r.user
  <2>1. ASSUME p.key = 0 /\ p.user = NoUser, NEW r \in Requests
        PROVE  r.key # 0
    BY DEF AddonInv, Types, Requests, Request
  <2>2. profile \in Profiles
    BY DEF Profiles
  <2> QED
    BY <2>1, <2>2 DEF AddonInv, Keyed
<1>3. p.key <= keys
  BY DEF AddonInv, Keyed, Profiles, Types
<1>4. Keyed'
  <2>1. p.key = 0 <=> p.user = NoUser
    BY DEF AddonInv, Keyed, Profiles
  <2> QED
    BY <1>1, <1>2, <1>3, <2>1 DEF AddonInv, Keyed
<1>5. Based'
  <2>1. \A s \in Slots : flight'[s] # Free => flight'[s] = flight[s]
    OBVIOUS
  <2> QED
    BY <2>1 DEF AddonInv, Based, UnforcedWasFetched
<1> QED
  BY <1>4, <1>5

LEMMA ChangeKeeps ==
  ASSUME AddonInv, NEW new \in SUBSET Descriptor, ~profile.locked, ChangeAddons(new)
  PROVE  AddonInv'
<1> DEFINE p == [profile EXCEPT !.addons = new]
<1>1. /\ p \in Profile /\ p.user = profile.user /\ p.key = profile.key /\ p.basis = profile.basis
      /\ p.locked = profile.locked /\ p.token = profile.token
  BY DEF AddonInv, Types, Profile
<1>2. profile' = p /\ toSave' = p /\ UNCHANGED <<saved, remote, keys>>
  BY DEF ChangeAddons, ProfileChanged
<1>3. CASE SignedIn
  <2>1. Send(NewRequest("Set", p))
    BY <1>2, <1>3 DEF ChangeAddons
  <2> HIDE DEF p
  <2> QED
    BY <1>1, <1>2, <1>3, <2>1, SendKeeps
<1>4. CASE ~SignedIn
  <2>1. UNCHANGED <<flight, drifted>>
    BY <1>4 DEF ChangeAddons
  <2>2. Types'
    BY <1>1, <1>2, <2>1 DEF AddonInv, Types
  <2>3. p.user = NoUser /\ p.key = 0
    BY <1>1, <1>4 DEF SignedIn, AddonInv, Keyed, Profiles
  <2>4. Profiles' \subseteq Profiles \cup {p}
    BY <1>2 DEF Profiles
  <2> HIDE DEF p
  <2>5. Keyed' /\ Based'
    BY <1>1, <1>2, <2>1, <2>3, <2>4, ProfilesKeep
  <2> QED
    BY <2>2, <2>5 DEF AddonInv
<1> QED
  BY <1>3, <1>4

LEMMA RefreshedType ==
  ASSUME NEW addon \in Descriptor
  PROVE  Refreshed(addon) \in Descriptor
<1> DEFINE newer == {o \in Official : o.id = addon.id /\ o.version > addon.version}
<1>1. CASE newer = {}
  BY <1>1 DEF Refreshed
<1>2. CASE newer # {}
  <2>1. PICK o \in Descriptor : o = CHOOSE n \in newer : TRUE
    BY <1>2, AddonTypes
  <2>2. Refreshed(addon) = [o EXCEPT !.protected = addon.protected]
    BY <1>2, <2>1 DEF Refreshed
  <2> QED
    BY <2>2 DEF Descriptor
<1> QED
  BY <1>1, <1>2

LEMMA PullKeeps ==
  ASSUME AddonInv, PullAddonsFromAPI
  PROVE  AddonInv'
<1>1. CASE SignedIn
  <2>1. Send(NewRequest("Get", profile)) /\ UNCHANGED <<profile, toSave, saved, remote, keys>>
    BY <1>1 DEF PullAddonsFromAPI
  <2> QED
    BY <1>1, <2>1, SendKeeps DEF AddonInv, Types
<1>2. CASE ~SignedIn
  <2> DEFINE p == [profile EXCEPT !.addons = {Refreshed(a) : a \in profile.addons}]
  <2>1. profile' = p /\ toSave' = p /\ UNCHANGED <<saved, flight, remote, keys, drifted>>
    BY <1>2 DEF PullAddonsFromAPI, ProfileChanged
  <2>2. p \in Profile /\ p.user = profile.user /\ p.key = profile.key
    <3>1. {Refreshed(a) : a \in profile.addons} \in SUBSET Descriptor
      BY RefreshedType DEF AddonInv, Types, Profile
    <3> QED
      BY <3>1 DEF AddonInv, Types, Profile
  <2>3. p.user = NoUser /\ p.key = 0
    BY <1>2, <2>2 DEF SignedIn, AddonInv, Keyed, Profiles
  <2>4. Profiles' \subseteq Profiles \cup {p}
    BY <2>1 DEF Profiles
  <2>5. Types'
    BY <2>1, <2>2 DEF AddonInv, Types
  <2> HIDE DEF p
  <2>6. Keyed' /\ Based'
    BY <2>1, <2>2, <2>3, <2>4, ProfilesKeep
  <2> QED
    BY <2>5, <2>6 DEF AddonInv
<1> QED
  BY <1>1, <1>2

LEMMA ResultKeeps ==
  ASSUME AddonInv, NEW s \in Slots, AddonsAPIResult(s)
  PROVE  AddonInv'
<1> DEFINE r == flight[s]
<1>1. r \in Request /\ r # Free /\ r \in Requests
  BY DEF AddonsAPIResult, AddonInv, Types, Requests
<1>2. \A t \in Slots : flight'[t] \in {flight[t], Free}
  BY DEF AddonsAPIResult, AddonInv, Types
<1>3. flight' \in [Slots -> Request \cup {Free}] /\ UNCHANGED <<saved, remote, keys, drifted>>
  BY DEF AddonsAPIResult, AddonInv, Types
<1>4. CASE profile.key # r.key
  <2>1. UNCHANGED <<profile, toSave>>
    BY <1>4 DEF AddonsAPIResult
  <2>2. Types'
    BY <1>3, <2>1 DEF AddonInv, Types
  <2>3. Profiles' \subseteq Profiles \cup {profile}
    BY <1>3, <2>1 DEF Profiles
  <2>4. Keyed' /\ Based'
    BY <1>2, <1>3, <2>3, ProfilesKeep DEF AddonInv, Types, Keyed, Based, Profiles
  <2> QED
    BY <2>2, <2>4 DEF AddonInv
<1>5. CASE profile.key = r.key
  <2>1. r.user = profile.user /\ profile.user # NoUser
    BY <1>1, <1>5, NamesAssumption DEF AddonInv, Keyed, Profiles, Request
  <2>2. /\ profile' \in Profile /\ profile'.user = profile.user /\ profile'.key = profile.key
        /\ ~profile'.locked /\ ~profile'.token => profile'.basis = profile'.user
    <3>1. CASE r.answer = "ok"
      <4>1. profile' = [profile EXCEPT !.addons = r.addons, !.basis = r.user, !.locked = FALSE, !.token = FALSE]
        BY <1>5, <3>1 DEF AddonsAPIResult
      <4> QED
        BY <1>1, <2>1, <4>1 DEF AddonInv, Types, Profile, Request, UID
    <3>2. CASE r.answer # "ok"
      <4>1. profile' = [profile EXCEPT !.locked = TRUE]
        BY <1>5, <3>2 DEF AddonsAPIResult
      <4> QED
        BY <4>1 DEF AddonInv, Types, Profile
    <3> QED
      BY <3>1, <3>2
  <2>3. toSave' \in {toSave, profile'}
    BY <1>5 DEF AddonsAPIResult, ProfileChanged
  <2>4. Types'
    BY <1>3, <2>2, <2>3 DEF AddonInv, Types
  <2>5. PICK p \in Profile : p = profile'
    BY <2>2
  <2>6. Profiles' \subseteq Profiles \cup {p}
    BY <1>3, <2>3, <2>5 DEF Profiles
  <2>7. Keyed' /\ Based'
    BY <1>2, <1>3, <2>1, <2>2, <2>5, <2>6, ProfilesKeep
  <2> QED
    BY <2>4, <2>7 DEF AddonInv
<1> QED
  BY <1>4, <1>5

\* A session that opens has a key of its own.
LEMMA OpensKeep ==
  ASSUME AddonInv, NEW p \in Profile, keys < MaxKeys, p.user # NoUser, p.key = keys + 1, keys' = keys + 1,
         ~p.locked /\ ~p.token => p.basis = p.user,
         profile' = p, toSave' = p, UNCHANGED <<saved, flight, remote>>, drifted' \in BOOLEAN
  PROVE  AddonInv'
<1>1. Types'
  BY BoundAssumption DEF AddonInv, Types
<1>2. Profiles' \subseteq Profiles \cup {p} /\ Requests' = Requests
  BY DEF Profiles, Requests
<1>3. Keyed'
  <2>1. keys \in Nat
    BY BoundAssumption DEF AddonInv, Types
  <2>2. \A q \in Profiles \cup Requests : q.key \in Nat /\ q.key <= keys
    BY BoundAssumption DEF AddonInv, Types, Keyed, Profile, Request, Profiles, Requests
  <2> QED
    BY <1>2, <2>1, <2>2 DEF AddonInv, Keyed
<1>4. Based'
  BY <1>2 DEF AddonInv, Based, UnforcedWasFetched
<1> QED
  BY <1>1, <1>3, <1>4 DEF AddonInv

LEMMA AuthKeeps ==
  ASSUME AddonInv, NEW u \in Users, NEW fetched \in BOOLEAN, CtxAuthResult(u, fetched)
  PROVE  AddonInv'
<1> DEFINE p == IF fetched THEN [Session(u) EXCEPT !.addons = remote[u], !.basis = u]
                ELSE [Session(u) EXCEPT !.locked = TRUE]
<1>1. keys + 1 \in 0 .. MaxKeys
  BY BoundAssumption DEF CtxAuthResult, AddonInv, Types
<1>2. Session(u) \in Profile /\ Session(u).user = u /\ Session(u).key = keys + 1
  BY <1>1, DefaultType DEF Session, Profile, UID
<1>3. /\ p \in Profile /\ p.user = u /\ p.key = keys + 1
      /\ ~p.locked => p.basis = u
  BY <1>2 DEF Profile, UID, AddonInv, Types
<1>4. /\ keys < MaxKeys /\ keys' = keys + 1 /\ profile' = p /\ toSave' = p /\ drifted' \in BOOLEAN
      /\ UNCHANGED <<saved, flight, remote>>
  BY DEF CtxAuthResult, ProfileChanged, Quiet
<1> HIDE DEF p
<1> QED
  BY <1>3, <1>4, NamesAssumption, OpensKeep

LEMMA TokenKeeps ==
  ASSUME AddonInv, NEW u \in Users, UserAPIResult(u)
  PROVE  AddonInv'
<1> DEFINE p == [profile EXCEPT !.user = u, !.key = keys + 1, !.token = TRUE]
<1>1. keys + 1 \in 0 .. MaxKeys
  BY BoundAssumption DEF UserAPIResult, AddonInv, Types
<1>2. p \in Profile /\ p.user = u /\ p.key = keys + 1 /\ p.token
  BY <1>1 DEF AddonInv, Types, Profile, UID
<1>3. /\ keys < MaxKeys /\ keys' = keys + 1 /\ profile' = p /\ toSave' = p /\ drifted' \in BOOLEAN
      /\ UNCHANGED <<saved, flight, remote>>
  BY DEF UserAPIResult, ProfileChanged
<1> HIDE DEF p
<1> QED
  BY <1>2, <1>3, NamesAssumption, OpensKeep

LEMMA LogoutKeeps ==
  ASSUME AddonInv, Logout
  PROVE  AddonInv'
<1>1. profile' = Default /\ toSave' = Default /\ UNCHANGED <<saved, flight, remote, keys, drifted>>
  BY DEF Logout, ProfileChanged
<1>2. Types'
  BY <1>1, DefaultType DEF AddonInv, Types
<1>3. Default.user = NoUser /\ Default.key = 0 /\ Profiles' \subseteq Profiles \cup {Default}
  BY <1>1 DEF Default, Profiles
<1>4. Keyed' /\ Based'
  BY <1>1, <1>3, DefaultType, ProfilesKeep
<1> QED
  BY <1>2, <1>4 DEF AddonInv

LEMMA StorageKeeps ==
  ASSUME AddonInv, SaveProfile \/ Restart
  PROVE  AddonInv'
<1>1. Types'
  BY DEF SaveProfile, Restart, AddonInv, Types, Quiet
<1>2. Profiles' \subseteq Profiles \cup {profile} /\ UNCHANGED keys
  BY DEF SaveProfile, Restart, Profiles
<1>3. \A s \in Slots : flight'[s] \in {flight[s], Free}
  BY DEF SaveProfile, Restart
<1>4. Keyed' /\ Based'
  BY <1>2, <1>3, ProfilesKeep DEF AddonInv, Types, Keyed, Based, Profiles
<1> QED
  BY <1>1, <1>4 DEF AddonInv

LEMMA ServeKeeps ==
  ASSUME AddonInv, NEW s \in Slots, ServeGet(s) \/ ServeSet(s)
  PROVE  AddonInv'
<1> DEFINE r == flight[s]
<1>1. r \in Request /\ r # Free /\ r.user \in Users
  <2>1. r \in Request /\ r # Free
    BY DEF ServeGet, ServeSet, AddonInv, Types
  <2> QED
    BY <2>1 DEF Request
<1>2. CASE ServeSet(s)
  <2>1. flight' = [flight EXCEPT ![s] = Free] /\ UNCHANGED <<profile, toSave, saved, keys>>
    BY <1>2 DEF ServeSet
  <2>2. \A t \in Slots : flight'[t] \in {flight[t], Free}
    BY <2>1 DEF AddonInv, Types
  <2>3. Types'
    <3>1. remote' \in [Users -> SUBSET Descriptor]
      BY <1>1, <1>2 DEF ServeSet, AddonInv, Types, Request
    <3> QED
      BY <1>2, <2>1, <3>1 DEF ServeSet, AddonInv, Types
  <2>4. Profiles' \subseteq Profiles \cup {profile}
    BY <2>1 DEF Profiles
  <2>5. Keyed' /\ Based'
    BY <2>1, <2>2, <2>4, ProfilesKeep DEF AddonInv, Types, Keyed, Based, Profiles
  <2> QED
    BY <2>3, <2>5 DEF AddonInv
<1>3. CASE ServeGet(s)
  <2> DEFINE ok == [r EXCEPT !.addons = remote[r.user], !.answer = "ok"]
             failed == [r EXCEPT !.answer = "failed"]
  <2>1. PICK a \in {ok, failed} : flight' = [flight EXCEPT ![s] = a]
    BY <1>1, <1>3 DEF ServeGet, AddonInv, Types
  <2>2. a \in Request /\ a.kind = "Get" /\ a.key = r.key /\ a.user = r.user
    BY <1>1, <1>3 DEF ServeGet, AddonInv, Types, Request
  <2>3. flight'[s] = a /\ \A t \in Slots \ {s} : flight'[t] = flight[t]
    BY <2>1 DEF AddonInv, Types
  <2> HIDE DEF ok, failed
  <2>4. Types'
    BY <1>3, <2>1, <2>2 DEF ServeGet, AddonInv, Types
  <2>5. Requests' \subseteq Requests \cup {a} /\ Profiles' = Profiles /\ r \in Requests
    BY <1>1, <1>3, <2>3 DEF ServeGet, Requests, Profiles
  <2>6. Keyed'
    BY <1>3, <2>2, <2>5 DEF ServeGet, AddonInv, Keyed
  <2>7. Based'
    BY <1>3, <2>2, <2>3, <2>5 DEF ServeGet, AddonInv, Based, UnforcedWasFetched
  <2> QED
    BY <2>4, <2>6, <2>7 DEF AddonInv
<1> QED
  BY <1>2, <1>3

LEMMA OtherKeeps ==
  ASSUME AddonInv, NEW u \in Users, NEW addons \in Stored, OtherDevice(u, addons)
  PROVE  AddonInv'
<1>1. Types'
  BY AddonTypes DEF OtherDevice, AddonInv, Types
<1>2. Keyed' /\ Based'
  BY DEF OtherDevice, AddonInv, Keyed, Based, Profiles, Requests, UnforcedWasFetched
<1> QED
  BY <1>1, <1>2 DEF AddonInv

LEMMA AddonNext ==
  ASSUME AddonInv, [Next]_vars
  PROVE  AddonInv'
<1>1. CASE UNCHANGED vars
  BY <1>1 DEF vars, AddonInv, Types, Keyed, Based, Profiles, Requests, UnforcedWasFetched
<1>2. ASSUME NEW addon \in Addons, InstallAddon(addon) \/ UpgradeAddon(addon) \/ UninstallAddon(addon)
      PROVE  AddonInv'
  <2>1. WithoutUrl(addon.url) \in SUBSET Descriptor /\ addon \in Descriptor
    BY AddonTypes DEF WithoutUrl, AddonInv, Types, Profile
  <2>2. PICK new \in SUBSET Descriptor : ChangeAddons(new) /\ ~profile.locked
    BY <1>2, <2>1 DEF InstallAddon, UpgradeAddon, UninstallAddon
  <2> QED
    BY <2>2, ChangeKeeps
<1>3. CASE PushAddonsToAPI
  <2>1. Send(NewRequest("Set", profile)) /\ SignedIn /\ UNCHANGED <<profile, toSave, saved, remote, keys>>
    BY <1>3 DEF PushAddonsToAPI
  <2> QED
    BY <2>1, SendKeeps DEF AddonInv, Types
<1> QED
  BY <1>1, <1>2, <1>3, PullKeeps, ResultKeeps, AuthKeeps, TokenKeeps, LogoutKeeps, StorageKeeps,
     ServeKeeps, OtherKeeps DEF Next

\* Unless one asks for a push while the add-ons are locked, or entered with a token, no
\* account's collection is replaced by one that was not made from it, through failed
\* fetches, late answers, restarts and other accounts (profile.rs:25).
THEOREM PushesOwn == Spec => []UnforcedWasFetched
<1>1. AddonInv => UnforcedWasFetched
  BY DEF AddonInv, Based
<1> QED
  BY <1>1, AddonInit, AddonNext, PTL DEF Spec
-----------------------------------------------------------------------------
(* Collections *)

\* Collections of known ids, each under its own urls.
Known == {c \in Collection : \A a \in c : \E b \in Addons : b.id = a.id /\ b.url = a.url}

Collected ==
  /\ \A p \in Profiles : p.addons \in Known
  /\ \A r \in Requests : r.addons \in Known
  /\ \A u \in Users : remote[u] \in Known

LEMMA KnownAre ==
  /\ Official \in Known /\ Stored \subseteq Known /\ {} \in Known
  /\ \A c \in Known, addon \in Addons :
       LET rest == {a \in c : a.url # addon.url} IN rest \in Known /\ rest \cup {addon} \in Known
BY AddonsAssumption DEF Known, Collection

\* Bringing add-ons up to date gives no two of them one url, if official urls stay.
LEMMA RefreshedAreKnown ==
  ASSUME OfficialUrls, NEW c \in Known
  PROVE  {Refreshed(a) : a \in c} \in Known
<1>1. ASSUME NEW a \in c
      PROVE  Refreshed(a) \in Descriptor /\ Refreshed(a).url = a.url /\ Refreshed(a).id = a.id
  <2> DEFINE newer == {o \in Official : o.id = a.id /\ o.version > a.version}
  <2>1. CASE newer = {}
    BY <2>1 DEF Refreshed, Known, Collection
  <2>2. CASE newer # {}
    <3>1. PICK o \in newer : o = CHOOSE n \in newer : TRUE
      BY <2>2
    <3>2. Refreshed(a) = [o EXCEPT !.protected = a.protected]
      BY <2>2, <3>1 DEF Refreshed
    <3>3. o \in Descriptor /\ a \in Descriptor
      BY AddonTypes DEF Known, Collection
    <3>4. o.url = a.url
      BY DEF OfficialUrls, Known
    <3> QED
      BY <3>2, <3>3, <3>4 DEF Descriptor
  <2> QED
    BY <2>1, <2>2
<1> QED
  BY <1>1 DEF Known, Collection

LEMMA CollectedInit ==
  ASSUME Init
  PROVE  Collected
<1>1. Profiles = {profile} /\ Requests = {}
  BY DEF Init, Profiles, Requests
<1>2. profile.addons \in Known
  BY KnownAre DEF Init, Default
<1> QED
  BY <1>1, <1>2, KnownAre DEF Init, Collected

\* What is sent is of a profile.
LEMMA SendCollects ==
  ASSUME AddonInv, Collected, NEW kind, NEW p, p.addons \in Known, Send(NewRequest(kind, p))
  PROVE  \A r \in Requests' : r.addons \in Known
<1>1. NewRequest(kind, p).addons \in Known
  BY KnownAre DEF NewRequest
<1> QED
  BY <1>1 DEF Send, Requests, Collected, AddonInv, Types

LEMMA ChangeCollects ==
  ASSUME AddonInv, Collected, NEW new \in Known, ChangeAddons(new)
  PROVE  Collected'
<1>1. profile'.addons = new /\ toSave' = profile' /\ UNCHANGED <<saved, remote>>
  BY DEF ChangeAddons, ProfileChanged, AddonInv, Types, Profile
<1>2. \A r \in Requests' : r.addons \in Known
  BY <1>1, SendCollects DEF ChangeAddons, Collected, Requests
<1> QED
  BY <1>1, <1>2 DEF Collected, Profiles

LEMMA CollectedNext ==
  ASSUME OfficialUrls, AddonInv, Collected, [Next]_vars
  PROVE  Collected'
<1> USE DEF AddonInv, Types, Profile
<1>1. CASE UNCHANGED vars
  BY <1>1 DEF vars, Collected, Profiles, Requests
<1>2. ASSUME NEW addon \in Addons, InstallAddon(addon) \/ UpgradeAddon(addon) \/ UninstallAddon(addon)
      PROVE  Collected'
  <2>1. profile.addons \in Known
    BY DEF Collected, Profiles
  <2>2. WithoutUrl(addon.url) \in Known /\ WithoutUrl(addon.url) \cup {addon} \in Known
    BY <2>1, KnownAre DEF WithoutUrl
  <2> QED
    BY <1>2, <2>2, ChangeCollects DEF InstallAddon, UpgradeAddon, UninstallAddon
<1>3. CASE PushAddonsToAPI
  BY <1>3, SendCollects DEF PushAddonsToAPI, Collected, Profiles
<1>4. CASE PullAddonsFromAPI
  <2>1. CASE SignedIn
    BY <1>4, <2>1, SendCollects DEF PullAddonsFromAPI, Collected, Profiles
  <2>2. CASE ~SignedIn
    <3>1. profile.addons \in Known
      BY DEF Collected, Profiles
    <3>2. profile'.addons \in Known /\ toSave' = profile' /\ UNCHANGED <<saved, flight, remote>>
      BY <1>4, <2>2, <3>1, RefreshedAreKnown DEF PullAddonsFromAPI, ProfileChanged
    <3> QED
      BY <3>2 DEF Collected, Profiles, Requests
  <2> QED
    BY <2>1, <2>2
<1>5. ASSUME NEW s \in Slots, AddonsAPIResult(s)
      PROVE  Collected'
  <2>1. flight[s] \in Requests
    BY <1>5 DEF AddonsAPIResult, Requests
  <2>2. Requests' \subseteq Requests
    BY <1>5 DEF AddonsAPIResult, Requests
  <2>3. profile'.addons \in {profile.addons, flight[s].addons} /\ toSave' \in {toSave, profile'}
    BY <1>5 DEF AddonsAPIResult, ProfileChanged
  <2> QED
    BY <1>5, <2>1, <2>2, <2>3 DEF AddonsAPIResult, Collected, Profiles
<1>6. ASSUME NEW s \in Slots, ServeGet(s)
      PROVE  Collected'
  <2>1. flight[s] \in Requests /\ flight[s].user \in Users /\ flight[s] \in Request
    BY <1>6 DEF ServeGet, Requests, Request
  <2>2. \A t \in Slots : t # s => flight'[t] = flight[t]
    BY <1>6 DEF ServeGet
  <2>3. flight'[s].addons \in {flight[s].addons, remote[flight[s].user]}
    BY <1>6, <2>1 DEF ServeGet, Request
  <2> QED
    BY <1>6, <2>1, <2>2, <2>3 DEF ServeGet, Collected, Profiles, Requests
<1>7. ASSUME NEW s \in Slots, ServeSet(s)
      PROVE  Collected'
  <2>1. flight[s] \in Requests
    BY <1>7 DEF ServeSet, Requests
  <2>2. Requests' \subseteq Requests
    BY <1>7 DEF ServeSet, Requests
  <2> QED
    BY <1>7, <2>1, <2>2 DEF ServeSet, Collected, Profiles
<1>8. ASSUME NEW u \in Users, NEW fetched \in BOOLEAN, CtxAuthResult(u, fetched)
      PROVE  Collected'
  <2>1. profile'.addons \in {remote[u], Official} /\ toSave' = profile'
    BY <1>8 DEF CtxAuthResult, Session, Default, ProfileChanged
  <2> QED
    BY <1>8, <2>1, KnownAre DEF CtxAuthResult, Collected, Profiles, Requests
<1>9. ASSUME NEW u \in Users, UserAPIResult(u)
      PROVE  Collected'
  BY <1>9 DEF UserAPIResult, ProfileChanged, Collected, Profiles, Requests
<1>10. ASSUME NEW u \in Users, NEW addons \in Stored, OtherDevice(u, addons)
       PROVE  Collected'
  BY <1>10, KnownAre DEF OtherDevice, Collected, Profiles, Requests
<1>11. CASE Logout
  BY <1>11, KnownAre DEF Logout, ProfileChanged, Default, Collected, Profiles, Requests
<1>12. CASE SaveProfile \/ Restart
  BY <1>12 DEF SaveProfile, Restart, Collected, Profiles, Requests
<1> QED
  BY <1>1, <1>2, <1>3, <1>4, <1>5, <1>6, <1>7, <1>8, <1>9, <1>10, <1>11, <1>12 DEF Next

\* No collection has two add-ons of one url, neither that of the profile nor those of
\* the API, through installing, upgrading, fetching and bringing up to date; if an
\* official add-on keeps its url (update_profile.rs:93 takes the url of the new version).
THEOREM CollectionsAreUnique ==
  ASSUME OfficialUrls
  PROVE  Spec => []TypeOK
<1>1. AddonInv /\ Collected => TypeOK
  BY DEF AddonInv, Types, Collected, Profiles, Known, TypeOK
<1> QED
  BY <1>1, AddonInit, AddonNext, CollectedInit, CollectedNext, PTL DEF Spec
-----------------------------------------------------------------------------
(* Agreement with the API. *)

\* The add-ons of a fetched collection are the API's.
Same == profile.basis = profile.user => profile.addons = remote[profile.user]

\* What the only request under way leads to: add-ons that are the same.
Expected(r) ==
  /\ r.key = profile.key
  /\ r.kind = "Set" => r.addons = profile.addons
  /\ r.kind = "Get" /\ r.answer = "ok" => r.addons = remote[profile.user]
  /\ r.kind = "Get" /\ r.answer # "ok" => Same

Agreeing ==
  ~drifted =>
    /\ \A s, t \in Slots : flight[s] # Free /\ flight[t] # Free => s = t
    /\ SignedIn => (Quiet => Same) /\ \A s \in Slots : flight[s] # Free => Expected(flight[s])

LEMMA AgreeingInit == Init => Agreeing
BY DEF Init, Agreeing, SignedIn, Default

LEMMA SendIsRequest ==
  ASSUME AddonInv, SignedIn, NEW kind \in {"Get", "Set"}, NEW p \in Profile,
         p.user = profile.user, p.key = profile.key
  PROVE  NewRequest(kind, p) # Free
<1>1. p.user # NoUser /\ p.key # 0
  BY DEF AddonInv, SignedIn, Keyed, Profiles
<1> QED
  BY <1>1, NewRequestType, FreeAssumption

\* A request sent while nothing was under way is the only one.
LEMMA SendAgrees ==
  ASSUME AddonInv, Agreeing, SignedIn, NEW r, r # Free, Send(r), UNCHANGED remote,
         profile'.user = profile.user, profile'.basis = profile.basis, r.key = profile'.key,
         r.kind \in {"Get", "Set"}, r.answer = "none",
         r.kind = "Set" => r.addons = profile'.addons,
         r.kind = "Get" => profile'.addons = profile.addons
  PROVE  Agreeing'
<1> SUFFICES ASSUME ~drifted' PROVE Agreeing'
  BY DEF Agreeing
<1>1. Quiet /\ ~drifted
  BY DEF Send, Quiet, AddonInv, Types
<1>2. PICK s \in Slots : flight' = [flight EXCEPT ![s] = r]
  BY DEF Send
<1>3. flight'[s] = r /\ \A t \in Slots \ {s} : flight'[t] = Free
  BY <1>1, <1>2 DEF Quiet, AddonInv, Types
<1>4. Same
  BY <1>1 DEF Agreeing
<1>5. r.kind = "Get" => Same'
  BY <1>4 DEF Same
<1>6. Expected(flight[s])'
  BY <1>3, <1>5 DEF Expected
<1> QED
  BY <1>3, <1>6 DEF Agreeing, Quiet

LEMMA ResultAgrees ==
  ASSUME AddonInv, Agreeing, NEW s \in Slots, AddonsAPIResult(s)
  PROVE  Agreeing'
<1> DEFINE r == flight[s]
<1> SUFFICES ASSUME ~drifted' PROVE Agreeing'
  BY DEF Agreeing
<1>1. ~drifted /\ UNCHANGED remote /\ r # Free /\ r.kind = "Get" /\ r \in Request /\ r \in Requests
  BY DEF AddonsAPIResult, AddonInv, Types, Requests
<1>2. \A t \in Slots : flight'[t] = Free
  BY <1>1 DEF AddonsAPIResult, Agreeing, AddonInv, Types
<1>3. SignedIn' => Same'
  <2>1. CASE SignedIn
    <3>1. Expected(r)
      BY <1>1, <2>1 DEF Agreeing
    <3>2. CASE r.answer = "ok"
      <4>1. profile' = [profile EXCEPT !.addons = r.addons, !.basis = r.user, !.locked = FALSE, !.token = FALSE]
        BY <3>1, <3>2 DEF AddonsAPIResult, Expected
      <4> QED
        BY <1>1, <3>1, <3>2, <4>1 DEF Expected, Same, AddonInv, Types, Profile
    <3>3. CASE r.answer # "ok"
      <4>1. profile' = [profile EXCEPT !.locked = TRUE]
        BY <3>1, <3>3 DEF AddonsAPIResult, Expected
      <4> QED
        BY <1>1, <3>1, <3>3, <4>1 DEF Expected, Same, AddonInv, Types, Profile
    <3> QED
      BY <3>2, <3>3
  <2>2. CASE ~SignedIn
    <3>1. profile.key = 0 /\ r.key # 0
      BY <1>1, <2>2 DEF SignedIn, AddonInv, Keyed, Profiles, Request
    <3>2. profile' = profile
      BY <3>1 DEF AddonsAPIResult
    <3> QED
      BY <2>2, <3>2 DEF SignedIn
  <2> QED
    BY <2>1, <2>2
<1> QED
  BY <1>2, <1>3 DEF Agreeing, Quiet

LEMMA AuthAgrees ==
  ASSUME AddonInv, Agreeing, NEW u \in Users, NEW fetched \in BOOLEAN, CtxAuthResult(u, fetched)
  PROVE  Agreeing'
<1> SUFFICES ASSUME ~drifted' PROVE Agreeing'
  BY DEF Agreeing
<1>1. UNCHANGED <<flight, remote>> /\ \A s \in Slots : flight[s] = Free
  BY DEF CtxAuthResult, Quiet
<1>2. Same'
  <2>1. CASE fetched
    <3>1. profile' = [Session(u) EXCEPT !.addons = remote[u], !.basis = u]
      BY <2>1 DEF CtxAuthResult
    <3> QED
      BY <1>1, <3>1 DEF Same, Session, Default
  <2>2. CASE ~fetched
    <3>1. profile' = [Session(u) EXCEPT !.locked = TRUE]
      BY <2>2 DEF CtxAuthResult
    <3> QED
      BY <3>1, NamesAssumption DEF Same, Session, Default
  <2> QED
    BY <2>1, <2>2
<1> QED
  BY <1>1, <1>2 DEF Agreeing

LEMMA ServeGetAgrees ==
  ASSUME AddonInv, Agreeing, NEW s \in Slots, ServeGet(s)
  PROVE  Agreeing'
<1> DEFINE r == flight[s]
           ok == [r EXCEPT !.addons = remote[r.user], !.answer = "ok"]
           failed == [r EXCEPT !.answer = "failed"]
<1> SUFFICES ASSUME ~drifted' PROVE Agreeing'
  BY DEF Agreeing
<1>1. r # Free /\ r \in Request /\ r.kind = "Get" /\ r.answer = "none" /\ UNCHANGED <<profile, remote>> /\ r \in Requests
  BY DEF ServeGet, AddonInv, Types, Requests
<1>2. \/ /\ flight' = [flight EXCEPT ![s] = ok]
         /\ ~drifted \/ (r.key = profile.key /\ \A t \in Slots \ {s} : flight[t] = Free)
      \/ flight' = [flight EXCEPT ![s] = failed] /\ ~drifted
  BY <1>1 DEF ServeGet, AddonInv, Types
<1>3. \A t \in Slots \ {s} : flight[t] = Free /\ flight'[t] = Free
  BY <1>1, <1>2 DEF Agreeing, AddonInv, Types
<1>4. SignedIn => r.key = profile.key /\ r.user = profile.user
  <2>1. SignedIn => r.key = profile.key
    BY <1>1, <1>2 DEF Agreeing, Expected
  <2> QED
    BY <1>1, <2>1 DEF AddonInv, Keyed, Profiles
<1>5. ASSUME SignedIn
      PROVE  Expected(flight[s])'
  <2>1. CASE flight' = [flight EXCEPT ![s] = ok]
    <3>1. flight'[s] = ok
      BY <2>1 DEF AddonInv, Types
    <3>2. ok.key = r.key /\ ok.kind = "Get" /\ ok.answer = "ok" /\ ok.addons = remote[r.user]
      BY <1>1 DEF Request
    <3> HIDE DEF ok
    <3> QED
      BY <1>1, <1>4, <1>5, <3>1, <3>2 DEF Expected
  <2>2. CASE flight' = [flight EXCEPT ![s] = failed] /\ ~drifted
    <3>1. flight'[s] = failed
      BY <2>2 DEF AddonInv, Types
    <3>2. failed.key = r.key /\ failed.kind = "Get" /\ failed.answer = "failed"
      BY <1>1 DEF Request
    <3>3. Same
      BY <1>1, <1>5, <2>2 DEF Agreeing, Expected
    <3> HIDE DEF failed
    <3> QED
      BY <1>1, <1>4, <1>5, <3>1, <3>2, <3>3 DEF Expected, Same
  <2> QED
    BY <1>2, <2>1, <2>2
<1>6. flight'[s] # Free
  <2>1. failed \in Request /\ ok \in Request
    BY <1>1 DEF Request, AddonInv, Types
  <2> HIDE DEF ok, failed
  <2> QED
    BY <1>2, <2>1, FreeAssumption DEF AddonInv, Types
<1> QED
  BY <1>1, <1>3, <1>5, <1>6 DEF Agreeing, Quiet, SignedIn

LEMMA ServeSetAgrees ==
  ASSUME AddonInv, Agreeing, NEW s \in Slots, ServeSet(s)
  PROVE  Agreeing'
<1> DEFINE r == flight[s]
<1> SUFFICES ASSUME ~drifted' PROVE Agreeing'
  BY DEF Agreeing
<1>1. /\ r # Free /\ r.kind = "Set" /\ r \in Request /\ r \in Requests /\ ~drifted /\ UNCHANGED profile
      /\ remote' = [remote EXCEPT ![r.user] = r.addons]
  BY DEF ServeSet, AddonInv, Types, Requests
<1>2. \A t \in Slots : flight'[t] = Free
  BY <1>1 DEF ServeSet, Agreeing, AddonInv, Types
<1>3. SignedIn => Same'
  <2>1. ASSUME SignedIn
        PROVE  r.user = profile.user /\ r.addons = profile.addons
    BY <1>1, <2>1 DEF Agreeing, Expected, AddonInv, Keyed, Profiles
  <2>2. r.user \in Users
    BY <1>1 DEF Request
  <2> QED
    BY <1>1, <2>1, <2>2 DEF Same, AddonInv, Types
<1> QED
  BY <1>1, <1>2, <1>3 DEF Agreeing, Quiet, SignedIn

LEMMA AgreeingNext ==
  ASSUME AddonInv, Agreeing, [Next]_vars
  PROVE  Agreeing'
<1>1. CASE UNCHANGED vars \/ SaveProfile
  BY <1>1 DEF vars, SaveProfile, Agreeing, Quiet, SignedIn, Same, Expected
<1>2. ASSUME NEW new \in SUBSET Descriptor, ChangeAddons(new)
      PROVE  Agreeing'
  <2> DEFINE p == [profile EXCEPT !.addons = new]
  <2>1. /\ profile' = p /\ UNCHANGED remote /\ p.user = profile.user /\ p.basis = profile.basis
        /\ p.key = profile.key /\ p.addons = new /\ p \in Profile
    BY <1>2 DEF ChangeAddons, AddonInv, Types, Profile
  <2> HIDE DEF p
  <2>2. CASE SignedIn
    <3>1. Send(NewRequest("Set", p))
      BY <1>2, <2>1, <2>2 DEF ChangeAddons
    <3>2. /\ NewRequest("Set", p).key = p.key /\ NewRequest("Set", p).kind = "Set"
          /\ NewRequest("Set", p).answer = "none" /\ NewRequest("Set", p).addons = p.addons
      BY DEF NewRequest
    <3>3. NewRequest("Set", p) # Free
      BY <2>1, <2>2, SendIsRequest
    <3> QED
      BY <2>1, <2>2, <3>1, <3>2, <3>3, SendAgrees
  <2>3. CASE ~SignedIn
    BY <1>2, <2>1, <2>3 DEF ChangeAddons, Agreeing, SignedIn
  <2> QED
    BY <2>2, <2>3
<1>3. ASSUME NEW addon \in Addons, InstallAddon(addon) \/ UpgradeAddon(addon) \/ UninstallAddon(addon)
      PROVE  Agreeing'
  <2>1. WithoutUrl(addon.url) \in SUBSET Descriptor /\ addon \in Descriptor
    BY AddonTypes DEF WithoutUrl, AddonInv, Types, Profile
  <2>2. PICK new \in SUBSET Descriptor : ChangeAddons(new)
    BY <1>3, <2>1 DEF InstallAddon, UpgradeAddon, UninstallAddon
  <2> QED
    BY <1>2, <2>2
<1>4. ASSUME NEW kind \in {"Get", "Set"}, SignedIn, Send(NewRequest(kind, profile)), UNCHANGED <<profile, remote>>
      PROVE  Agreeing'
  <2>1. /\ NewRequest(kind, profile).key = profile.key /\ NewRequest(kind, profile).kind = kind
        /\ NewRequest(kind, profile).answer = "none"
        /\ kind = "Set" => NewRequest(kind, profile).addons = profile.addons
    BY DEF NewRequest
  <2>2. NewRequest(kind, profile) # Free
    BY <1>4, SendIsRequest DEF AddonInv, Types
  <2> QED
    BY <1>4, <2>1, <2>2, SendAgrees
<1>5. CASE PushAddonsToAPI
  BY <1>4, <1>5 DEF PushAddonsToAPI
<1>6. CASE PullAddonsFromAPI
  <2>1. CASE SignedIn
    BY <1>4, <1>6, <2>1 DEF PullAddonsFromAPI
  <2>2. CASE ~SignedIn
    <3>1. profile'.user = profile.user /\ UNCHANGED <<flight, drifted>>
      BY <1>6, <2>2 DEF PullAddonsFromAPI, AddonInv, Types, Profile
    <3> QED
      BY <2>2, <3>1 DEF Agreeing, SignedIn
  <2> QED
    BY <2>1, <2>2
<1>7. CASE Logout
  BY <1>7 DEF Logout, Default, Agreeing, SignedIn
<1>8. CASE Restart
  <2>1. ~drifted' => ~drifted /\ Quiet /\ profile' = profile
    BY <1>8 DEF Restart
  <2>2. \A s \in Slots : flight'[s] = Free
    BY <1>8 DEF Restart
  <2> QED
    BY <1>8, <2>1, <2>2 DEF Restart, Agreeing, SignedIn, Same
<1>9. ASSUME NEW u \in Users, UserAPIResult(u)
      PROVE  Agreeing'
  BY <1>9 DEF UserAPIResult, Agreeing
<1>10. ASSUME NEW u \in Users, NEW addons \in Stored, OtherDevice(u, addons)
       PROVE  Agreeing'
  BY <1>10 DEF OtherDevice, Agreeing
<1> QED
  BY <1>1, <1>3, <1>5, <1>6, <1>7, <1>8, <1>9, <1>10, ResultAgrees, AuthAgrees, ServeGetAgrees,
     ServeSetAgrees DEF Next

\* Nothing the program does alone lets profile and API differ for good: it takes a
\* request that overtakes or fails, a stop, a token or another device
\* (update_profile.rs:429).
THEOREM Agrees == Spec => []Agreement
<1>1. Agreeing => Agreement
  BY DEF Agreeing, Agreement, Same
<1> QED
  BY <1>1, AddonInit, AddonNext, AgreeingInit, AgreeingNext, PTL DEF Spec
=============================================================================
