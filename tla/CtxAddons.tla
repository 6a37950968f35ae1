----------------------------- MODULE CtxAddons ------------------------------
(***************************************************************************)
(* The add-on collection of the profile (src/models/ctx/update_profile.rs) *)
(* and the collection the API keeps for the account: every change of the   *)
(* first is pushed to the second as a whole, without waiting for earlier   *)
(* pushes, pulls may be answered late, and the process may stop before the *)
(* profile is saved.                                                       *)
(*                                                                         *)
(* When the API's collection cannot be fetched at sign-in the profile has  *)
(* the official add-ons instead, and addons_locked keeps them from being   *)
(* pushed over the user's own.                                             *)
(*                                                                         *)
(* Sign-ins are one step here; CtxSession takes them apart.  The order of  *)
(* a collection is left out.                                               *)
(***************************************************************************)
EXTENDS Naturals, FiniteSets

CONSTANTS
  Users, NoUser,     \* accounts, and the UID None
  Addons,            \* descriptors, see Descriptor
  Official,          \* OFFICIAL_ADDONS of this build
  Stored,            \* collections a signed-out profile may have been stored with
  Slots, Free,       \* bound: requests under way; a slot without one
  MaxKeys,           \* bound: sessions this device opens
  PushWhileLocked,   \* whether PushAddonsToAPI is dispatched while add-ons are locked
  TokenPulls         \* whether PullUserFromAPI is dispatched with a token

Descriptor ==
  [url : STRING, id : STRING, version : Nat, protected : BOOLEAN, configure : BOOLEAN]

UID == Users \cup {NoUser}

\* DescriptorUniqueVecAdapter: a collection has one add-on of a transport url.
Collection == {c \in SUBSET Descriptor : \A a, b \in c : a.url = b.url => a = b}

ASSUME NamesAssumption == NoUser \notin Users
ASSUME AddonsAssumption ==
  /\ Addons \subseteq Descriptor /\ Official \in Collection /\ Stored \subseteq Collection
  /\ Official \cup UNION Stored \subseteq Addons
ASSUME BoundAssumption == MaxKeys \in Nat /\ PushWhileLocked \in BOOLEAN /\ TokenPulls \in BOOLEAN

\* An official add-on has its url in every version: not assumed, but where it fails
\* bringing add-ons up to date may give two of them one url.
OfficialUrls == \A addon \in Addons, o \in Official : addon.id = o.id => addon.url = o.url

\* `basis' is history: the account whose collection, fetched from the API, the
\* add-ons were made from by the user's changes; NoUser if there is none, and
\* `token', history too, says that a token brought the account and none of its
\* collections was fetched since.
Profile ==
  [user : UID, key : 0 .. MaxKeys, addons : SUBSET Descriptor, locked : BOOLEAN, basis : UID,
   token : BOOLEAN]

Request ==
  [kind : {"Get", "Set"}, user : Users, key : 1 .. MaxKeys, addons : SUBSET Descriptor,
   basis : UID, forced : BOOLEAN, answer : {"none", "ok", "failed"}]

ASSUME FreeAssumption == Free \notin Request

VARIABLES
  profile,    \* ctx.profile: auth, addons, addons_locked
  toSave,     \* the profile as push_profile_to_storage serialized it last
  saved,      \* the profile in storage
  flight,     \* requests the API has not served, and answers on their way
  remote,     \* the API: the collection of each account
  keys,       \* how many sessions were opened
  drifted     \* history: something happened that lets profile and API disagree

vars == <<profile, toSave, saved, flight, remote, keys, drifted>>

TypeOK ==
  /\ {profile, toSave, saved} \subseteq Profile
  /\ profile.addons \in Collection
  /\ flight \in [Slots -> Request \cup {Free}]
  /\ remote \in [Users -> Collection]
  /\ keys \in 0 .. MaxKeys
  /\ drifted \in BOOLEAN
-----------------------------------------------------------------------------
SignedIn == profile.user # NoUser
Quiet == \A s \in Slots : flight[s] = Free

Default == [user |-> NoUser, key |-> 0, addons |-> Official, locked |-> FALSE, basis |-> NoUser,
            token |-> FALSE]

\* Internal::ProfileChanged
ProfileChanged == toSave' = profile'

\* `forced' is history: the add-ons were locked, or never fetched after a token.
NewRequest(kind, p) ==
  [kind |-> kind, user |-> p.user, key |-> p.key, addons |-> IF kind = "Set" THEN p.addons ELSE {},
   basis |-> p.basis, forced |-> p.locked \/ p.token, answer |-> "none"]

\* A request that others overtake may leave profile and API with different add-ons.
Send(request) ==
  /\ \E s \in Slots : flight[s] = Free /\ flight' = [flight EXCEPT ![s] = request]
  /\ drifted' = (drifted \/ ~Quiet)

\* Changed: what is pushed are the add-ons before the change.
ChangeAddons_PushesBefore(addons) ==
  /\ profile' = [profile EXCEPT !.addons = addons]
  /\ IF SignedIn THEN Send(NewRequest("Set", profile)) ELSE UNCHANGED <<flight, drifted>>
  /\ ProfileChanged
  /\ UNCHANGED <<saved, remote, keys>>

\* The end of install, upgrade and uninstall: push the add-ons if there is an
\* account, and save the profile.
ChangeAddons(addons) ==
  /\ profile' = [profile EXCEPT !.addons = addons]
  /\ IF SignedIn THEN Send(NewRequest("Set", profile')) ELSE UNCHANGED <<flight, drifted>>
  /\ ProfileChanged
  /\ UNCHANGED <<saved, remote, keys>>

WithoutUrl(url) == {a \in profile.addons : a.url # url}
-----------------------------------------------------------------------------
\* Changed: the add-on is added beside another one of its url.
InstallAddon_Beside(addon) ==
  /\ ~profile.locked
  /\ addon \notin profile.addons
  /\ ~addon.configure
  /\ ChangeAddons(profile.addons \cup {addon})

\* Internal::InstallAddon: it replaces an add-on of the same url, a protected
\* one too.
InstallAddon(addon) ==
  /\ ~profile.locked
  /\ addon \notin profile.addons
  /\ ~addon.configure
  /\ ChangeAddons(WithoutUrl(addon.url) \cup {addon})

\* ActionCtx::UpgradeAddon
UpgradeAddon(addon) ==
  /\ ~profile.locked
  /\ addon \notin profile.addons
  /\ ~addon.configure /\ ~addon.protected
  /\ \E old \in profile.addons : old.url = addon.url /\ ~old.protected
  /\ ChangeAddons(WithoutUrl(addon.url) \cup {addon})

\* Internal::UninstallAddon
UninstallAddon(addon) ==
  /\ ~profile.locked
  /\ ~addon.protected
  /\ \E old \in profile.addons : old.url = addon.url /\ ~old.protected
  /\ ChangeAddons(WithoutUrl(addon.url))

\* ActionCtx::PushAddonsToAPI does not look at addons_locked.
PushAddonsToAPI ==
  /\ SignedIn /\ (profile.locked => PushWhileLocked)
  /\ Send(NewRequest("Set", profile))
  /\ UNCHANGED <<profile, toSave, saved, remote, keys>>

\* An add-on in the version of this build, if that is later.
Refreshed(addon) ==
  LET newer == {o \in Official : o.id = addon.id /\ o.version > addon.version} IN
  IF newer = {} THEN addon
  ELSE [(CHOOSE o \in newer : TRUE) EXCEPT !.protected = addon.protected]

\* ActionCtx::PullAddonsFromAPI: without an account the official add-ons are
\* brought up to date.
PullAddonsFromAPI ==
  \/ /\ SignedIn
     /\ Send(NewRequest("Get", profile))
     /\ UNCHANGED <<profile, toSave, saved, remote, keys>>
  \/ /\ ~SignedIn
     /\ profile' = [profile EXCEPT !.addons = {Refreshed(a) : a \in profile.addons}]
     /\ profile' # profile /\ ProfileChanged
     /\ UNCHANGED <<saved, flight, remote, keys, drifted>>

\* Internal::AddonsAPIResult: an answer for another session is dropped.  The
\* lock is set in memory; it is saved only with a change of the add-ons.
AddonsAPIResult(s) ==
  LET r == flight[s] IN
  /\ r # Free /\ r.kind = "Get" /\ r.answer # "none"
  /\ IF profile.key # r.key THEN UNCHANGED <<profile, toSave>>
     ELSE /\ profile' = IF r.answer = "ok"
                          THEN [profile EXCEPT !.addons = r.addons, !.basis = r.user, !.locked = FALSE,
                                          !.token = FALSE]
                          ELSE [profile EXCEPT !.locked = TRUE]
          /\ IF profile'.addons # profile.addons THEN ProfileChanged ELSE UNCHANGED toSave
  /\ flight' = [flight EXCEPT ![s] = Free]
  /\ UNCHANGED <<saved, remote, keys, drifted>>
-----------------------------------------------------------------------------
(* The account, and the process. *)

Session(user) == [Default EXCEPT !.user = user, !.key = keys + 1]

\* Internal::CtxAuthResult(Ok), with the collection or without.
CtxAuthResult(u, fetched) ==
  /\ keys < MaxKeys
  /\ keys' = keys + 1
  /\ profile' = IF fetched THEN [Session(u) EXCEPT !.addons = remote[u], !.basis = u]
                           ELSE [Session(u) EXCEPT !.locked = TRUE]
  /\ drifted' = ~Quiet
  /\ ProfileChanged
  /\ UNCHANGED <<saved, flight, remote>>

\* Internal::Logout
Logout ==
  /\ profile # Default
  /\ profile' = Default /\ ProfileChanged
  /\ UNCHANGED <<saved, flight, remote, keys, drifted>>

\* Internal::UserAPIResult for a token while nobody is signed in: the profile
\* gets the account and keeps the add-ons it has.
UserAPIResult(u) ==
  /\ TokenPulls /\ ~SignedIn /\ keys < MaxKeys
  /\ keys' = keys + 1
  /\ profile' = [profile EXCEPT !.user = u, !.key = keys + 1, !.token = TRUE]
  /\ drifted' = TRUE
  /\ ProfileChanged
  /\ UNCHANGED <<saved, flight, remote>>

\* A write that fails is one that never happens.
SaveProfile ==
  /\ saved # toSave
  /\ saved' = toSave
  /\ UNCHANGED <<profile, toSave, flight, remote, keys, drifted>>

\* Changed: the lock is not part of what is stored.
Restart_LockNotStored ==
  /\ profile' = [saved EXCEPT !.locked = FALSE]
  /\ toSave' = profile' /\ saved' = profile'
  /\ flight' = [s \in Slots |-> Free]
  /\ drifted' = (drifted \/ ~Quiet \/ saved # profile)
  /\ UNCHANGED <<remote, keys>>

\* The process stops and starts from storage; requests not served are lost.
Restart ==
  /\ profile' = saved
  /\ toSave' = saved
  /\ flight' = [s \in Slots |-> Free]
  /\ drifted' = (drifted \/ ~Quiet \/ saved # profile)
  /\ UNCHANGED <<saved, remote, keys>>
-----------------------------------------------------------------------------
(* The API. *)

\* AddonCollectionGet.  The only request under way, and for this session: what
\* it answers makes good what went before.
ServeGet(s) ==
  LET r == flight[s] IN
  /\ r # Free /\ r.kind = "Get" /\ r.answer = "none"
  /\ \/ /\ flight' = [flight EXCEPT ![s].addons = remote[r.user], ![s].answer = "ok"]
        /\ drifted' = (drifted /\ ~(r.key = profile.key /\ \A t \in Slots \ {s} : flight[t] = Free))
     \/ flight' = [flight EXCEPT ![s].answer = "failed"] /\ UNCHANGED drifted
  /\ UNCHANGED <<profile, toSave, saved, remote, keys>>

\* AddonCollectionSet, served in any order; its answer is an event and no more.
ServeSet(s) ==
  LET r == flight[s] IN
  /\ r # Free /\ r.kind = "Set"
  /\ \/ remote' = [remote EXCEPT ![r.user] = r.addons] /\ UNCHANGED drifted
     \/ UNCHANGED remote /\ drifted' = TRUE
  /\ flight' = [flight EXCEPT ![s] = Free]
  /\ UNCHANGED <<profile, toSave, saved, keys>>

\* Another device of the account pushes its collection.
OtherDevice(u, addons) ==
  /\ addons # remote[u]
  /\ remote' = [remote EXCEPT ![u] = addons]
  /\ drifted' = TRUE
  /\ UNCHANGED <<profile, toSave, saved, flight, keys>>
-----------------------------------------------------------------------------
Init ==
  /\ \E addons \in Stored : profile = [Default EXCEPT !.addons = addons]
  /\ toSave = profile /\ saved = profile
  /\ flight = [s \in Slots |-> Free]
  /\ remote \in [Users -> Stored]
  /\ keys = 0
  /\ drifted = FALSE

Next ==
  \/ \E addon \in Addons : InstallAddon(addon) \/ UpgradeAddon(addon) \/ UninstallAddon(addon)
  \/ PushAddonsToAPI \/ PullAddonsFromAPI
  \/ \E s \in Slots : AddonsAPIResult(s) \/ ServeGet(s) \/ ServeSet(s)
  \/ \E u \in Users, fetched \in BOOLEAN : CtxAuthResult(u, fetched)
  \/ \E u \in Users : UserAPIResult(u)
  \/ \E u \in Users, addons \in Stored : OtherDevice(u, addons)
  \/ Logout \/ SaveProfile \/ Restart

Spec == Init /\ [][Next]_vars
-----------------------------------------------------------------------------
\* What the doc of addons_locked asks for (types/profile/profile.rs:25): no push
\* replaces an account's collection in the API by add-ons that were not made from
\* that collection, through failed fetches, pulls, restarts and other accounts.
PushedWasFetched ==
  \A s \in Slots : flight[s] # Free /\ flight[s].kind = "Set" => flight[s].basis = flight[s].user

\* What keeps to it: a push that is not asked for while the add-ons are locked, in
\* an account that was not entered with a token, has the account's own collection
\* as its origin, across failed fetches, late answers, restarts and other accounts.
UnforcedWasFetched ==
  \A s \in Slots :
    flight[s] # Free /\ flight[s].kind = "Set" /\ ~flight[s].forced =>
      flight[s].basis = flight[s].user

\* With nothing under way, the add-ons made from the account's collection are the
\* API's, unless requests overtook one another, one failed, the process stopped
\* before all was saved, or another device wrote: no step alone lets them differ.
Agreement ==
  Quiet /\ SignedIn /\ profile.basis = profile.user /\ ~drifted =>
    profile.addons = remote[profile.user]
=============================================================================
