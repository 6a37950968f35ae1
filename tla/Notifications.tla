--------------------------- MODULE Notifications ----------------------------
(***************************************************************************)
(* Notifications of new videos (src/models/ctx/update_notifications.rs):   *)
(* add-ons are asked for the latest videos of the titles in the library,   *)
(* at most once in a while, and their answers, with what was notified      *)
(* before, make the items shown.  Dismissing a title's notifications also  *)
(* dates the title in the library as watched, in another slot of storage.  *)
(***************************************************************************)
EXTENDS Loadables, Sequences, SequencesExt

CONSTANTS
  Metas,       \* ids of titles
  Videos,      \* ids of videos; each title has one of each
  Released,    \* the time a video is released
  Addons,      \* the add-ons of the profile that have the catalog, in order
  Every,       \* REQUEST_LAST_VIDEOS_EVERY
  MaxTime,     \* bound: of the clock
  MaxJobs      \* bound: of the writes that wait

ReleasedAssumption == Released \in [Videos -> Nat]
BoundsAssumption == MaxTime \in Nat /\ MaxJobs \in Nat /\ Every \in Nat \ {0}
AddonsAssumption == Addons \in Seq(Range(Addons))

Times == 0 .. MaxTime
Item == [removed : BOOLEAN, no_notif : BOOLEAN, last_watched : Option(Times)]
Nothing == [removed |-> TRUE, no_notif |-> FALSE, last_watched |-> None]
Library == [Metas -> Item]
Notified == [Metas -> Option(SUBSET Videos)]

\* A request asks an add-on for some titles; its answer has videos of each.
Request == [addon : Range(Addons), ids : SUBSET Metas]
Answers(ids) == [ids -> SUBSET Videos]

\* What is Loading has no answer yet.
AnswersAssumption == \A ids \in SUBSET Metas : Loading \notin Answers(ids)

VARIABLES
  now,             \* E::now()
  library,         \* ctx.library, a title never seen being a removed one
  items,           \* notifications.items
  last_updated,    \* notifications.last_updated
  catalogs,        \* notification_catalogs: [request, content]
  flight,          \* requests under way
  stored,          \* the slots: [library, items, last_updated]
  jobs,            \* writes that wait, each [slot, value]
  dismissed        \* history: when a title was dismissed, if no stop undid it

notificationVars ==
  <<now, library, items, last_updated, catalogs, flight, stored, jobs, dismissed>>

TypeOK ==
  /\ now \in Times /\ library \in Library /\ items \in Notified
  /\ last_updated \in Option(Times)
  /\ \A i \in DOMAIN catalogs : catalogs[i].request \in Request
  /\ flight \in [Slots -> Request \cup {Free}]
  /\ stored.library \in Library /\ stored.items \in Notified
  /\ Len(jobs) <= MaxJobs
  /\ dismissed \in [Metas -> Option(Times)]
-----------------------------------------------------------------------------
\* should_pull_notifications, of a series
ShouldPull(item) == ~item.removed /\ ~item.no_notif

IsNew(video, after) == after < Released[video] /\ Released[video] <= now

\* Those of an answer to notify of; a title that was never watched has none.
NewVideos(content, item) ==
  {v \in content : item.last_watched # None /\ IsNew(v, item.last_watched)}

\* Those notified before that remain.
Retained(videos, item) ==
  {v \in videos : item.last_watched = None \/ IsNew(v, item.last_watched)}

\* The answers that have videos of title m.
Found(cats, m) ==
  {i \in DOMAIN cats :
     cats[i].content \notin {Loading, Failed} /\ m \in DOMAIN cats[i].content /\ cats[i].content[m] # {}}

\* update_notification_items: the first answer with videos counts.
NextItems(cats, lib, old) ==
  [m \in Metas |->
    IF ~ShouldPull(lib[m]) THEN None
    ELSE IF Found(cats, m) # {}
      THEN LET new == NewVideos(cats[Min(Found(cats, m))].content[m], lib[m]) IN
           IF new = {} THEN None ELSE new
    ELSE IF old[m] \in {None, {}} THEN None
    ELSE Retained(old[m], lib[m])]

\* Internal::NotificationsChanged and the push of the library: writes in order.
WriteItems(its, updated) == <<[slot |-> "items", value |-> [items |-> its, last_updated |-> updated]]>>
WriteLibrary(lib) == <<[slot |-> "library", value |-> lib]>>
Enqueue(writes) == jobs' = jobs \o writes /\ Len(jobs') <= MaxJobs

\* One forced request to each add-on, in place of the catalogs there were.
Ask(ids) ==
  /\ catalogs' = [i \in DOMAIN Addons |-> [request |-> [addon |-> Addons[i], ids |-> ids], content |-> Loading]]
  /\ \E slot \in [DOMAIN Addons -> Slots] :
       /\ \A i, j \in DOMAIN Addons : slot[i] = slot[j] => i = j
       /\ \A i \in DOMAIN Addons : flight[slot[i]] = Free
       /\ flight' = [s \in Slots |->
            IF \E i \in DOMAIN Addons : slot[i] = s
              THEN [addon |-> Addons[CHOOSE i \in DOMAIN Addons : slot[i] = s], ids |-> ids]
              ELSE flight[s]]
-----------------------------------------------------------------------------
\* PullNotifications, for the library lib and what the bucket has by then.
Pull(lib, its, updated, cats) ==
  LET ids == {m \in Metas : ShouldPull(lib[m])} IN
  /\ IF ids # {} /\ (updated = None \/ updated + Every <= now)
       THEN Ask(ids) /\ last_updated' = now
       ELSE UNCHANGED flight /\ catalogs' = cats /\ last_updated' = updated
  /\ items' = NextItems(catalogs', lib, its)

PullNotifications ==
  /\ Pull(library, items, last_updated, catalogs)
  /\ UNCHANGED <<now, library, stored, jobs, dismissed>>

\* Changed: an error leaves the catalog as it is.
ResourceRequestResult_OkOnly(s, result) ==
  LET waits == {i \in DOMAIN catalogs : catalogs[i].request = flight[s] /\ catalogs[i].content = Loading} IN
  /\ flight[s] # Free
  /\ flight' = Ended(flight, s)
  /\ IF waits = {} \/ result = Failed THEN UNCHANGED <<catalogs, items, jobs>>
     ELSE /\ catalogs' = [catalogs EXCEPT ![CHOOSE i \in waits : TRUE].content = result]
          /\ items' = NextItems(catalogs', library, items)
          /\ Enqueue(IF items' # items THEN WriteItems(items', last_updated) ELSE <<>>)
  /\ UNCHANGED <<now, library, last_updated, stored, dismissed>>

\* Internal::ResourceRequestResult, of a request of the notification catalogs.
ResourceRequestResult(s, result) ==
  LET waits == {i \in DOMAIN catalogs : catalogs[i].request = flight[s] /\ catalogs[i].content = Loading} IN
  /\ flight[s] # Free
  /\ flight' = Ended(flight, s)
  /\ IF waits = {} THEN UNCHANGED <<catalogs, items, jobs>>
     ELSE /\ catalogs' = [catalogs EXCEPT ![CHOOSE i \in waits : TRUE].content = result]
          /\ items' = NextItems(catalogs', library, items)
          /\ Enqueue(IF items' # items THEN WriteItems(items', last_updated) ELSE <<>>)
  /\ UNCHANGED <<now, library, last_updated, stored, dismissed>>

Writes(lib, new) == IF new # lib THEN WriteLibrary(new) ELSE <<>>

\* Changed: the title is not dated as watched.
Dismissing_NotDated(m, item) ==
  /\ items' = [items EXCEPT ![m] = None]
  /\ LET edited == [library EXCEPT ![m] = item] IN
     /\ library' = edited
     /\ Enqueue(Writes(library, edited) \o IF items[m] = None THEN <<>> ELSE WriteItems(items', last_updated))
  /\ dismissed' = IF items[m] = None THEN dismissed ELSE [dismissed EXCEPT ![m] = now]
  /\ UNCHANGED <<now, last_updated, catalogs, flight, stored>>

\* dismiss_notification_item, after title m became item: what is shown goes first,
\* then the title is dated.
Dismissing(m, item) ==
  LET edited == [library EXCEPT ![m] = item]
      dated == [edited EXCEPT ![m].last_watched = now]
  IN
  /\ IF items[m] = None
       THEN /\ library' = edited
            /\ Enqueue(Writes(library, edited))
            /\ UNCHANGED <<items, dismissed>>
       ELSE /\ library' = dated
            /\ items' = [items EXCEPT ![m] = None]
            /\ Enqueue(Writes(library, edited) \o WriteItems(items', last_updated) \o Writes(edited, dated))
            /\ dismissed' = [dismissed EXCEPT ![m] = now]
  /\ UNCHANGED <<now, last_updated, catalogs, flight, stored>>

\* ActionCtx::DismissNotificationItem; the player sends it when it loads a title.
DismissNotificationItem(m) == items[m] # None /\ Dismissing(m, library[m])

\* ActionCtx::RemoveFromLibrary
RemoveFromLibrary(m) == ~library[m].removed /\ Dismissing(m, [library[m] EXCEPT !.removed = TRUE])

\* ActionCtx::ToggleLibraryItemNotifications
ToggleLibraryItemNotifications(m) ==
  IF library[m].no_notif
    THEN /\ library' = [library EXCEPT ![m].no_notif = FALSE]
         /\ Enqueue(WriteLibrary(library'))
         /\ UNCHANGED <<now, items, last_updated, catalogs, flight, stored, dismissed>>
    ELSE Dismissing(m, [library[m] EXCEPT !.no_notif = TRUE])

\* ActionCtx::AddToLibrary: a title never seen counts as watched by now.
AddToLibrary(m) ==
  /\ library[m].removed
  /\ library' = [library EXCEPT ![m].removed = FALSE,
                                ![m].last_watched = IF library[m] = Nothing THEN now ELSE @]
  /\ Enqueue(WriteLibrary(library'))
  /\ UNCHANGED <<now, items, last_updated, catalogs, flight, stored, dismissed>>

\* LibraryItemMarkAsWatched: the title counts as watched now; nothing is dismissed.
MarkAsWatched(m) ==
  /\ library[m] # Nothing /\ library[m].last_watched # now
  /\ library' = [library EXCEPT ![m].last_watched = now]
  /\ Enqueue(WriteLibrary(library'))
  /\ UNCHANGED <<now, items, last_updated, catalogs, flight, stored, dismissed>>

\* Internal::CtxAuthResult(Ok): an account's library, no notifications, and a pull.
CtxAuthResult(lib) ==
  /\ \A m \in Metas : lib[m].last_watched \in Option(0 .. now)
  /\ library' = lib
  /\ Pull(lib, [m \in Metas |-> None], None, <<>>)
  /\ Enqueue(WriteLibrary(lib) \o WriteItems([m \in Metas |-> None], None))
  /\ dismissed' = [m \in Metas |-> None]
  /\ UNCHANGED <<now, stored>>

\* Internal::Logout
Logout ==
  /\ library' = [m \in Metas |-> Nothing] /\ items' = [m \in Metas |-> None]
  /\ last_updated' = None /\ catalogs' = <<>>
  /\ Enqueue(WriteLibrary(library') \o WriteItems(items', None))
  /\ dismissed' = [m \in Metas |-> None]
  /\ UNCHANGED <<now, flight, stored>>
-----------------------------------------------------------------------------
\* Env::set_storage ends, for the job that is next.
Written ==
  /\ jobs # <<>>
  /\ jobs' = Tail(jobs)
  /\ stored' = IF Head(jobs).slot = "library" THEN [stored EXCEPT !.library = Head(jobs).value]
               ELSE [stored EXCEPT !.items = Head(jobs).value.items, !.last_updated = Head(jobs).value.last_updated]
  /\ UNCHANGED <<now, library, items, last_updated, catalogs, flight, dismissed>>

\* The process stops and starts again from the slots.  What was dismissed is known
\* to be so only if nothing waited to be written.
Restart ==
  /\ library' = stored.library /\ items' = stored.items /\ last_updated' = stored.last_updated
  /\ catalogs' = <<>> /\ flight' = NoFlight /\ jobs' = <<>>
  /\ dismissed' = IF jobs = <<>> THEN dismissed ELSE [m \in Metas |-> None]
  /\ UNCHANGED <<now, stored>>

Tick == now < MaxTime /\ now' = now + 1 /\
  UNCHANGED <<library, items, last_updated, catalogs, flight, stored, jobs, dismissed>>

Init ==
  /\ now = 0 /\ library = [m \in Metas |-> Nothing] /\ items = [m \in Metas |-> None]
  /\ last_updated = None /\ catalogs = <<>> /\ flight = NoFlight /\ jobs = <<>>
  /\ stored = [library |-> library, items |-> items, last_updated |-> None]
  /\ dismissed = [m \in Metas |-> None]

Answer(s) ==
  flight[s] # Free /\ \E result \in Answers(flight[s].ids) \cup {Failed} : ResourceRequestResult(s, result)

Next ==
  \/ PullNotifications \/ Logout \/ Written \/ Restart \/ Tick
  \/ \E s \in Slots : Answer(s)
  \/ \E m \in Metas :
       \/ DismissNotificationItem(m) \/ RemoveFromLibrary(m) \/ ToggleLibraryItemNotifications(m)
       \/ AddToLibrary(m) \/ MarkAsWatched(m)
  \/ \E lib \in Library : CtxAuthResult(lib)

Spec == Init /\ [][Next]_notificationVars
-----------------------------------------------------------------------------
\* What was dismissed is not notified of again, by late answers, older answers that
\* are still there, pulls, or the title's removal and return.
DismissedStaysDismissed ==
  \A m \in Metas : dismissed[m] # None /\ items[m] # None => \A v \in items[m] : Released[v] > dismissed[m]

\* Nobody is notified of what is not released yet, whichever path brought the item.
NotifiedIsReleased == \A m \in Metas : items[m] # None => \A v \in items[m] : Released[v] <= now

\* A catalog that is Loading will be answered, so that a later pull, which only
\* comes after six hours, is not what the user waits for.
CatalogsAreAnswered == \A i \in DOMAIN catalogs : catalogs[i].content = Loading => UnderWay(flight, catalogs[i].request)
=============================================================================
