------------------------------ MODULE CtxBuckets ------------------------------
(***************************************************************************)
(* The small buckets of Ctx: the events of the service and the ones that   *)
(* were dismissed (src/models/ctx/update_events.rs), the search history    *)
(* (src/models/ctx/update_search_history.rs) and the urls of streaming     *)
(* servers (src/models/ctx/update_streaming_server_urls.rs), each saved to *)
(* a slot of the storage whenever it changes.                              *)
(*                                                                         *)
(* Dates are left out: a bucket is [uid, items].  A job is [slot, value];  *)
(* the jobs run one after another.                                         *)
(***************************************************************************)
EXTENDS Loadables, Sequences

CONSTANTS
  Users,       \* accounts
  Events,      \* bound: ids of modals and notifications
  Searches,    \* bound: what is searched
  Urls,        \* bound: urls of streaming servers
  DefaultUrl,  \* STREAMING_SERVER_URL
  MaxJobs      \* bound: writes that wait

\* An event is never taken for one that is Loading, that there is none, or an error.
EventsAssumption == {None, Loading, Failed} \cap Events = {}

VARIABLES
  uid,          \* ctx.profile.uid()
  buckets,      \* the buckets, by the slot they are saved to
  modal, notification,   \* ctx.events
  requests,     \* requests for events under way
  asked,        \* history: whether there was one
  saved,        \* the slots
  jobs,         \* writes that wait
  broken        \* history: slots whose last write failed

bucketVars == <<uid, buckets, modal, notification, requests, asked, saved, jobs, broken>>
events == <<modal, notification, requests, asked>>
storage == <<saved, broken>>

SlotNames == {"dismissed_events", "search_history", "streaming_server_urls"}

Bucket(user, items) == [uid |-> user, items |-> items]

TypeOK ==
  /\ uid \in Option(Users)
  /\ {buckets, saved} \subseteq
       [SlotNames -> [uid : Option(Users), items : SUBSET (Events \cup Searches \cup Urls \cup {DefaultUrl})]]
  /\ {modal, notification} \subseteq Loadable(Option(Events))
  /\ requests \in [Slots -> {"GetModal", "GetNotification", Free}]
  /\ broken \subseteq SlotNames /\ asked \in BOOLEAN

Job(slot, next) == [slot |-> slot, value |-> next[slot]]

\* A bucket changes, and is pushed to its slot.
Change(slot, bucket) ==
  /\ Len(jobs) < MaxJobs
  /\ buckets' = [buckets EXCEPT ![slot] = bucket]
  /\ jobs' = Append(jobs, Job(slot, buckets'))
-----------------------------------------------------------------------------
\* ActionCtx::GetEvents
GetEvents ==
  /\ modal' = Loading /\ notification' = Loading
  /\ requests' \in SentAll(requests, {"GetModal", "GetNotification"}) /\ asked' = TRUE
  /\ UNCHANGED <<uid, buckets, jobs, storage>>

\* What is shown of an event: nothing once it is dismissed.
Shown(event, dismissed) == IF event \in dismissed THEN None ELSE event

\* ActionCtx::DismissEvent
DismissEvent(event) ==
  LET dismissed == buckets["dismissed_events"].items \cup {event} IN
  /\ Change("dismissed_events", Bucket(buckets["dismissed_events"].uid, dismissed))
  /\ modal' = Shown(modal, dismissed) /\ notification' = Shown(notification, dismissed)
  /\ UNCHANGED <<uid, requests, asked, storage>>

\* Internal::GetModalResult and Internal::GetNotificationResult, of any request.
GetResult(s, result) ==
  LET shown == Shown(result, buckets["dismissed_events"].items) IN
  /\ requests[s] # Free
  /\ IF requests[s] = "GetModal" THEN modal' = shown /\ UNCHANGED notification
                                 ELSE notification' = shown /\ UNCHANGED modal
  /\ requests' = Ended(requests, s)
  /\ UNCHANGED <<uid, buckets, asked, jobs, storage>>

\* ActionCtx::ClearSearchHistory and Internal::CatalogsWithExtraSearch
ClearSearchHistory ==
  /\ Change("search_history", [buckets["search_history"] EXCEPT !.items = {}])
  /\ UNCHANGED <<uid, events, storage>>

CatalogsWithExtraSearch(query) ==
  /\ Change("search_history", [buckets["search_history"] EXCEPT !.items = @ \cup {query}])
  /\ UNCHANGED <<uid, events, storage>>

\* ActionCtx::AddServerUrl and ActionCtx::DeleteServerUrl
AddServerUrl(url) ==
  /\ Change("streaming_server_urls", [buckets["streaming_server_urls"] EXCEPT !.items = @ \cup {url}])
  /\ UNCHANGED <<uid, events, storage>>

DeleteServerUrl(url) ==
  /\ Change("streaming_server_urls",
       [buckets["streaming_server_urls"] EXCEPT !.items = @ \ ({url} \ {DefaultUrl})])
  /\ UNCHANGED <<uid, events, storage>>
-----------------------------------------------------------------------------
\* Changed: the search history is new in memory only.
CtxAuthResult_NotPushed(user) ==
  LET next == [buckets EXCEPT !["search_history"] = Bucket(user, {}),
                              !["streaming_server_urls"] = Bucket(user, {DefaultUrl})]
  IN
  /\ Len(jobs) + 2 <= MaxJobs
  /\ uid' = user /\ buckets' = next
  /\ jobs' = Append(jobs, Job("streaming_server_urls", next))
  /\ UNCHANGED <<events, storage>>

\* Internal::CtxAuthResult(Ok): the dismissed events stay, with the uid they had.
CtxAuthResult(user) ==
  LET next == [buckets EXCEPT !["search_history"] = Bucket(user, {}),
                              !["streaming_server_urls"] = Bucket(user, {DefaultUrl})]
  IN
  /\ Len(jobs) + 2 <= MaxJobs
  /\ uid' = user /\ buckets' = next
  /\ jobs' = jobs \o <<Job("search_history", next), Job("streaming_server_urls", next)>>
  /\ UNCHANGED <<events, storage>>

\* Internal::Logout: the urls of streaming servers stay, with the uid they had.
Logout ==
  LET next == [buckets EXCEPT !["search_history"] = Bucket(None, {}),
                              !["dismissed_events"] = Bucket(None, {})]
  IN
  /\ Len(jobs) + 2 <= MaxJobs
  /\ uid' = None /\ buckets' = next
  /\ jobs' = jobs \o <<Job("search_history", next), Job("dismissed_events", next)>>
  /\ UNCHANGED <<events, storage>>

\* EffectFuture::Sequential: the first write of those that wait is made, or fails.
Write(ok) ==
  /\ jobs # <<>>
  /\ saved' = IF ok THEN [saved EXCEPT ![jobs[1].slot] = jobs[1].value] ELSE saved
  /\ broken' = IF ok THEN broken \ {jobs[1].slot} ELSE broken \cup {jobs[1].slot}
  /\ jobs' = Tail(jobs)
  /\ UNCHANGED <<uid, buckets, events>>
-----------------------------------------------------------------------------
Init ==
  /\ uid = None
  /\ buckets = [slot \in SlotNames |-> Bucket(None, IF slot = "streaming_server_urls" THEN {DefaultUrl} ELSE {})]
  /\ saved = buckets /\ jobs = <<>> /\ broken = {}
  /\ modal = Loading /\ notification = Loading   \* before anything is asked
  /\ requests = NoFlight /\ asked = FALSE

Next ==
  \/ GetEvents \/ ClearSearchHistory \/ Logout
  \/ \E event \in Events : DismissEvent(event)
  \/ \E s \in Slots, result \in Option(Events) \cup {Failed} : GetResult(s, result)
  \/ \E query \in Searches : CatalogsWithExtraSearch(query)
  \/ \E url \in Urls \cup {DefaultUrl} : AddServerUrl(url) \/ DeleteServerUrl(url)
  \/ \E user \in Users : CtxAuthResult(user)
  \/ \E ok \in BOOLEAN : Write(ok)

Spec == Init /\ [][Next]_bucketVars
-----------------------------------------------------------------------------
\* An event that was dismissed is not shown, also when it comes in an answer that
\* was asked for before, or once more (update_events.rs:72).
DismissedIsNotShown ==
  {modal, notification} \cap buckets["dismissed_events"].items = {}

\* Every change of a bucket reaches its slot, unless the last write of it failed,
\* and the server of the device stays among the urls.
BucketsAreSaved ==
  /\ \A slot \in SlotNames :
       (\A i \in DOMAIN jobs : jobs[i].slot # slot) /\ slot \notin broken => saved[slot] = buckets[slot]
  /\ DefaultUrl \in buckets["streaming_server_urls"].items

\* An event that is Loading will be answered, once events were asked for at all: a
\* program that never asks shows them Loading from its start (ctx.rs:102).
EventsAreAnswered ==
  asked =>
  /\ modal = Loading => UnderWay(requests, "GetModal")
  /\ notification = Loading => UnderWay(requests, "GetNotification")
=============================================================================
