--------------------------- MODULE AccountModels ----------------------------
(***************************************************************************)
(* The models that wait for the API on behalf of an account, side by side: *)
(* the session of Ctx, account linking, data export, the manifests of      *)
(* add-ons, and analytics.  A behaviour is one of its parts, told by       *)
(* `part'; the parts share no state here, only the questions asked of      *)
(* them: whose is what they show, and does what they wait for ever come?   *)
(***************************************************************************)
EXTENDS Loadables, Sequences

CONSTANTS
  Users, NoUser, SessionReady, MaxKeys, TokenPulls,   \* CtxSession
  Codes,               \* AccountLink
  Keys,                \* DataExport
  OtherUrls,           \* AddonDescriptors
  MaxEvents            \* Analytics

VARIABLES
  part,
  status, auth, uids, flight, owner, open,                              \* session
  code, data, calls, given,                                             \* link
  key, export_url, exports, used,                                       \* export
  uid, addons, locked, trakt, selected, local_addon, remote_addon, manifests, holders,   \* descriptors
  auth_key, number, queue, pending, sending, emitter, received, dropped         \* analytics

Session == INSTANCE CtxSession WITH Ready <- SessionReady
Link == INSTANCE AccountLink
Export == INSTANCE DataExport
Descriptors == INSTANCE AddonDescriptors
Events == INSTANCE Analytics WITH Accounts <- Keys

ASSUME SessionAssumption == MaxKeys \in Nat /\ Free \notin Session!Request
ASSUME LinkAssumption == Link!CodesAssumption
ASSUME ExportAssumption == Export!KeysAssumption
ASSUME DescriptorsAssumption == Descriptors!UrlsAssumption
ASSUME AnalyticsAssumption == Events!AccountsAssumption /\ Events!EventsAssumption

Parts == {"session", "link", "export", "descriptors", "analytics"}

sessionVars == <<status, auth, uids, flight, owner, open>>
linkVars == <<code, data, calls, given>>
exportVars == <<key, export_url, exports, used>>
descriptorVars ==
  <<uid, addons, locked, trakt, selected, local_addon, remote_addon, manifests, holders>>
analyticsVars == <<auth_key, number, queue, pending, sending, emitter, received, dropped>>

modelVars == <<part, sessionVars, linkVars, exportVars, descriptorVars, analyticsVars>>

Init ==
  /\ part \in Parts
  /\ Session!Init /\ Link!Init /\ Export!Init /\ Descriptors!Init /\ Events!Init

Next ==
  /\ UNCHANGED part
  /\ IF part = "session" THEN Session!Next ELSE UNCHANGED sessionVars
  /\ IF part = "link" THEN Link!Next ELSE UNCHANGED linkVars
  /\ IF part = "export" THEN Export!Next ELSE UNCHANGED exportVars
  /\ IF part = "descriptors" THEN Descriptors!Next ELSE UNCHANGED descriptorVars
  /\ IF part = "analytics" THEN Events!Next ELSE UNCHANGED analyticsVars

Spec ==
  /\ Init /\ [][Next]_modelVars
  /\ Session!Fairness /\ Link!Fairness /\ Events!Fairness
-----------------------------------------------------------------------------
TypeOK ==
  /\ part \in Parts
  /\ Session!TypeOK /\ Link!TypeOK /\ Export!TypeOK /\ Descriptors!TypeOK /\ Events!TypeOK

\* What is shown was fetched for what is selected now and for who is signed in now:
\* the data of a link with its code (link.rs:93), an export with the key of the
\* session (data_export.rs:61), an add-on's page with the manifest at its url.
ShownIsOwn == Link!DataIsOfCode /\ Export!ExportOfSession /\ Descriptors!PageIsOfSelected

\* Whatever is Loading has a request under way that will replace it, in every order
\* of loads, unloads, account changes and late answers.
LoadingIsAnswered ==
  Link!LinkIsAnswered /\ Export!ExportIsAnswered /\ Descriptors!ManifestIsAnswered

\* A manifest that comes late installs nobody's Trakt add-on but that of a user the
\* session has had since it asked (update_trakt_addon.rs:66); more than one only when
\* a token's answer replaced the user in between (update_profile.rs:379).
TraktIsOwn == Descriptors!TraktIsOwn

\* An event goes to the API under the account that was signed in when it was
\* emitted, through account changes, failures and retries (analytics.rs:64).
SentUnderOwnAccount == Events!SentUnderOwnAccount

\* Until flush gives up on it or the API refuses it, every event the API has not
\* received will be sent, and batches sent one at a time arrive in order, also the
\* ones that are retried (analytics.rs:141).
DeliveredInOrder == []Events!NotForgotten /\ Events!ArriveInOrder

\* Waiting ends: a sign-in, a link that is Loading, a batch of events that is
\* pending and keeps the next one from being sent.
WaitingEnds == Session!SignInEnds /\ Link!LinkEnds /\ Events!PendingEnds
=============================================================================
