-------------------------- MODULE AddonDescriptors --------------------------
(***************************************************************************)
(* Add-on manifests that are fetched by their url, and the two models that *)
(* wait for them (src/models/common/descriptor_loadable.rs): the Trakt     *)
(* add-on of Ctx (src/models/ctx/update_trakt_addon.rs), installed as soon *)
(* as its manifest is there, and the page of an add-on                     *)
(* (src/models/addon_details.rs).                                          *)
(*                                                                         *)
(* Both get the same message when a manifest arrives, whoever asked.       *)
(***************************************************************************)
EXTENDS Loadables

CONSTANTS
  Users,        \* accounts
  OtherUrls     \* bound: urls of add-ons that are not Trakt's

TraktUrl(u) == [trakt |-> u]

Urls == OtherUrls \cup {TraktUrl(u) : u \in Users}

\* A manifest that is Ready is represented by its url.
Descriptor == [url : Urls, content : Loadable(Urls)]

UrlsAssumption ==
  /\ Urls \cap {None, Loading, Failed, Free} = {} /\ None \notin Users /\ None \notin Descriptor

VARIABLES
  uid,          \* ctx.profile.uid()
  addons,       \* urls of ctx.profile.addons
  locked,       \* ctx.profile.addons_locked
  trakt,        \* ctx.trakt_addon
  selected, local_addon, remote_addon,   \* AddonDetails
  manifests,    \* requests under way, each by its url
  holders       \* history: the users of this session since it last asked for the Trakt add-on

descriptorVars == <<uid, addons, locked, trakt, selected, local_addon, remote_addon, manifests, holders>>
details == <<selected, local_addon, remote_addon>>

TypeOK ==
  /\ uid \in Option(Users) /\ addons \subseteq Urls /\ locked \in BOOLEAN
  /\ {trakt, remote_addon} \subseteq Option(Descriptor)
  /\ {selected, local_addon} \subseteq Option(Urls)
  /\ manifests \in [Slots -> Urls \cup {Free}]
  /\ holders \subseteq Users
-----------------------------------------------------------------------------
\* descriptor_update, DescriptorRequested: nothing is asked for a second time,
\* whether it is loading, there, or failed.
Requested(descriptor, url) ==
  IF descriptor # None /\ descriptor.url = url
    THEN descriptor ELSE [url |-> url, content |-> Loading]

Request(descriptor, url) ==
  IF Requested(descriptor, url) = descriptor
    THEN UNCHANGED manifests ELSE manifests' \in Sent(manifests, url)

\* Changed: an error is not taken.
Received_OkOnly(descriptor, url, result) ==
  IF descriptor = [url |-> url, content |-> Loading] /\ result # Failed
    THEN [url |-> url, content |-> result] ELSE descriptor

\* descriptor_update, ManifestRequestResult.
Received(descriptor, url, result) ==
  IF descriptor = [url |-> url, content |-> Loading]
    THEN [url |-> url, content |-> result] ELSE descriptor

\* local_addon_update, with the add-ons as they are after the step.
LocalAddon == local_addon' = IF selected' \in addons' THEN selected' ELSE None

\* Internal::ProfileChanged for the page of the add-on.
ProfileChanged == UNCHANGED <<selected, remote_addon>> /\ LocalAddon
-----------------------------------------------------------------------------
\* ActionCtx::InstallTraktAddon
InstallTraktAddon ==
  /\ uid # None
  /\ trakt' = Requested(trakt, TraktUrl(uid)) /\ Request(trakt, TraktUrl(uid))
  /\ holders' = {uid}
  /\ UNCHANGED <<uid, addons, locked, details>>

\* ActionCtx::LogoutTrakt and Internal::UninstallTraktAddon: the add-on goes too.
UninstallTraktAddon ==
  /\ trakt' = None
  /\ addons' = IF uid = None \/ locked THEN addons ELSE addons \ {TraktUrl(uid)}
  /\ ProfileChanged
  /\ UNCHANGED <<uid, locked, manifests, holders>>

\* Internal::ManifestRequestResult.  Ctx installs the Trakt add-on when its
\* manifest has come, and forgets it whosever manifest it was.
ManifestRequestResult(s, result) ==
  LET url == manifests[s]
      received == Received(trakt, url, result)
  IN
  /\ url # Free
  /\ addons' = IF received # trakt /\ result # Failed /\ ~locked THEN addons \cup {url} ELSE addons
  /\ trakt' = None
  /\ remote_addon' = Received(remote_addon, url, result)
  /\ UNCHANGED selected /\ LocalAddon
  /\ manifests' = Ended(manifests, s)
  /\ UNCHANGED <<uid, locked, holders>>

\* ActionLoad::AddonDetails
LoadAddonDetails(url) ==
  /\ selected' = url
  /\ remote_addon' = Requested(remote_addon, url) /\ Request(remote_addon, url)
  /\ UNCHANGED <<uid, addons, locked, trakt, holders>> /\ LocalAddon

\* Action::Unload
UnloadAddonDetails ==
  /\ selected' = None /\ local_addon' = None /\ remote_addon' = None
  /\ UNCHANGED <<uid, addons, locked, trakt, manifests, holders>>

\* Installing and removing of other add-ons, see CtxAddons.
ChangeAddons(url) ==
  /\ ~locked
  /\ addons' \in {addons \cup {url}, addons \ {url}}
  /\ ProfileChanged
  /\ UNCHANGED <<uid, locked, trakt, manifests, holders>>

\* Changed: the manifest that is waited for is kept.
Logout_KeepsTrakt ==
  /\ uid # None
  /\ uid' = None /\ addons' = {} /\ locked' = FALSE /\ holders' = {}
  /\ ProfileChanged
  /\ UNCHANGED <<trakt, manifests>>

\* Internal::Logout
Logout ==
  /\ uid # None
  /\ uid' = None /\ addons' = {} /\ locked' = FALSE /\ holders' = {}
  /\ trakt' = None
  /\ ProfileChanged
  /\ UNCHANGED manifests

\* Internal::CtxAuthResult(Ok), also over another account.
CtxAuthResult(u) ==
  /\ uid' = u /\ addons' \in {{}, {TraktUrl(u)}} /\ locked' \in BOOLEAN /\ holders' = {u}
  /\ locked' => addons' = {}
  /\ trakt' = None
  /\ ProfileChanged
  /\ UNCHANGED manifests

\* Internal::UserAPIResult(Ok) for a token, see CtxSession: the user is replaced, or
\* signed in where nobody was; the add-ons and the manifest waited for stay.
UserAPIResult(u) ==
  /\ uid # u
  /\ uid' = u /\ holders' = holders \cup {u}
  /\ UNCHANGED <<addons, locked, trakt, manifests>>
  /\ ProfileChanged
-----------------------------------------------------------------------------
Init ==
  /\ uid = None /\ addons = {} /\ locked = FALSE
  /\ trakt = None /\ selected = None /\ local_addon = None /\ remote_addon = None
  /\ manifests = NoFlight /\ holders = {}

Answer(s) == manifests[s] # Free /\ \E result \in {manifests[s], Failed} : ManifestRequestResult(s, result)

Next ==
  \/ InstallTraktAddon \/ UninstallTraktAddon \/ Logout \/ UnloadAddonDetails
  \/ \E s \in Slots : Answer(s)
  \/ \E url \in Urls : LoadAddonDetails(url)
  \/ \E url \in OtherUrls : ChangeAddons(url)
  \/ \E u \in Users : CtxAuthResult(u) \/ UserAPIResult(u)

Spec == Init /\ [][Next]_descriptorVars
-----------------------------------------------------------------------------
\* The page of an add-on shows the one selected, as it is installed and as it is
\* at its url, whichever manifests arrive late and however the profile changes.
PageIsOfSelected ==
  /\ local_addon = IF selected \in addons THEN selected ELSE None
  /\ IF selected = None THEN remote_addon = None
     ELSE /\ remote_addon # None /\ remote_addon.url = selected
          /\ remote_addon.content \in {Loading, Failed, selected}

\* A manifest that is Loading will be answered: nothing waits for a request that
\* was never sent or whose answer another model took.
ManifestIsAnswered ==
  \A descriptor \in {trakt, remote_addon} :
    descriptor # None /\ descriptor.content = Loading => UnderWay(manifests, descriptor.url)

\* A manifest that comes late installs nobody's Trakt add-on but that of the account
\* which asked for it, and only while its session lasts (update_trakt_addon.rs:66):
\* whoever signs in or out between asking and answer is left alone.  That is the
\* account signed in by then, unless a token's answer has replaced the user of the
\* session since (update_profile.rs:379): it does not clear what was asked for, and
\* the new user gets the Trakt add-on of the one before.
TraktIsOwn ==
  [][\A s \in Slots : Answer(s) =>
       \A url \in addons' \ addons : uid # None /\ \E u \in holders : url = TraktUrl(u)]_descriptorVars
=============================================================================
