----------------------------- MODULE WebRuntime -----------------------------
(***************************************************************************)
(* The runtime in the worker of the web app (src/runtime/runtime.rs and    *)
(* stremio-core-web/src): a message updates Ctx and then the other models, *)
(* what changed is announced, and the effects are carried out one after    *)
(* the other, each message among them with all its own effects before the  *)
(* next.  Futures are spawned, and reach localStorage and the user         *)
(* interface by messages to the main thread, which takes them in turn.     *)
(*                                                                         *)
(* The models are Ctx, the library screen and the preview of what to       *)
(* continue with; the library holds one title at most.  The interface      *)
(* reads a field again whenever it is told that the field changed.         *)
(***************************************************************************)
EXTENDS Naturals, Sequences, FiniteSets, SequencesExt

CONSTANTS
  None,
  InstallationIds,   \* what random_buffer may return
  MaxActions,        \* bound: actions dispatched
  MaxStarts,         \* bound: starts of the app
  MaxFailures        \* bound: calls of localStorage that fail

VARIABLES
  runtime,        \* RUNTIME
  installation,   \* INSTALLATION_ID
  model,
  effects,        \* what is left of the effects being handled, with those of nested messages
  channel,        \* what was announced and not taken by rx.for_each
  tasks,          \* futures spawned and not polled yet
  calls,          \* messages to the main thread
  inbox,          \* messages to the worker
  fetches,        \* requests that are out
  storage,        \* localStorage
  ui,             \* what the interface shows of each field
  count,          \* bounds: how many actions, starts and failures there were
  lost            \* history: the slots whose last write failed

workerVars == <<runtime, installation, model, effects, channel, tasks>>
mainVars == <<storage, ui, lost>>
webVars == <<workerVars, mainVars, calls, inbox, fetches, count>>

Fields == {"ctx", "library", "continue_watching_preview"}
SlotNames == {"profile", "library", "notifications"}

NoItem == [state |-> "none", seen |-> FALSE]
Items == [state : {"none", "saved", "removed"}, seen : BOOLEAN]
DefaultProfile == [settings |-> 1, user |-> FALSE]
Profiles == [settings : 1 .. 2, user : BOOLEAN]

\* None stands for a value that is not there.
NoneAssumption == None \notin Profiles \cup Items \cup BOOLEAN

\* The library screen shows what is not removed, the preview what there is news of.
Shelf(m) == m.library.state = "saved"
Preview(m) == m.library.state # "none" /\ m.notifications

\* Model: its slots, what the two screens were last computed to be, and, a history, what
\* nobody has done yet, to save or to tell of, about notifications that a pull changed.
ModelOf(slots) ==
  LET m == [profile |-> IF slots.profile = None THEN DefaultProfile ELSE slots.profile,
            library |-> IF slots.library = None THEN NoItem ELSE slots.library,
            notifications |-> slots.notifications # None /\ slots.notifications, catalog |-> "none",
            shelf |-> FALSE, preview |-> FALSE, pulled |-> {}]
  IN [m EXCEPT !.shelf = Shelf(m), !.preview = Preview(m)]

View(m, field) ==
  CASE field = "ctx" -> <<m.profile, m.notifications>>
    [] field = "library" -> m.shelf
    [] field = "continue_watching_preview" -> m.preview

Msg(name, arg) == [kind |-> "msg", name |-> name, arg |-> arg]
Event == [kind |-> "event"]
Write(slot, value) == [kind |-> "write", slot |-> slot, value |-> value]
Fetch(name) == [kind |-> "fetch", name |-> name]
-----------------------------------------------------------------------------
\* What Ctx makes of a message: the model, the effects in order, and whether it says
\* that it changed.

Quiet(list) == [model |-> model, effects |-> list, changed |-> FALSE]
Changed(next, list) == [model |-> [next EXCEPT !.pulled = @ \ {"tell"}], effects |-> list, changed |-> TRUE]

UpdateSettings(settings) ==
  IF model.profile.settings = settings THEN Quiet(<<Event>>)
  ELSE Changed([model EXCEPT !.profile.settings = settings], <<Event, Msg("ProfileChanged", None)>>)

\* A bucket of notifications is made anew with the time of its making, so that it is
\* never the one that was there; Ctx has changed in any case, for its search history is new.
Logout ==
  LET profile == IF model.profile = DefaultProfile THEN <<>> ELSE <<Msg("ProfileChanged", None)>>
      library == IF model.library = NoItem /\ ~model.profile.user THEN <<>> ELSE <<Msg("LibraryChanged", FALSE)>>
      session == IF model.profile.user THEN <<Fetch("DeleteSession")>> ELSE <<>>
  IN Changed(
       [model EXCEPT !.profile = DefaultProfile, !.library = NoItem, !.notifications = FALSE, !.catalog = "none"],
       <<Event>> \o session \o profile \o library \o <<Msg("NotificationsChanged", None)>>)

AddToLibrary == Quiet(<<Msg("UpdateLibraryItem", [model.library EXCEPT !.state = "saved"]), Event>>)

RemoveFromLibrary ==
  IF model.library.state = "none" THEN Quiet(<<Event>>)
  ELSE Quiet(<<Msg("UpdateLibraryItem", [model.library EXCEPT !.state = "removed"]),
               Msg("DismissNotificationItem", None), Event>>)

UpdateLibraryItem(item) ==
  IF item = model.library THEN Quiet(<<>>)
  ELSE Changed([model EXCEPT !.library = item],
               (IF model.profile.user THEN <<Fetch("PutItems")>> ELSE <<>>)
                 \o <<Write("library", item), Msg("LibraryChanged", TRUE)>>)

DismissNotificationItem ==
  IF ~model.notifications THEN Quiet(<<>>)
  ELSE Changed([model EXCEPT !.notifications = FALSE],
               <<Msg("NotificationsChanged", None)>>
                 \o (IF model.library.state = "none" THEN <<>>
                     ELSE <<Msg("UpdateLibraryItem", [model.library EXCEPT !.seen = TRUE])>>)
                 \o <<Event>>)

\* There may be news of a title that is in the library and was not seen since.
Notifiable == model.library.state = "saved" /\ ~model.library.seen

\* Six hours are over whenever this is asked for (Notifications has the pulls that are
\* not due): the catalog is asked for again, what there is stays if it still may.  That
\* is not saved, for the answers are to come first; but none comes when nothing is asked.
PullNotifications ==
  LET news == model.notifications /\ Notifiable
      next == [model EXCEPT !.notifications = news,
                            !.pulled = IF news = model.notifications THEN @ ELSE {"save", "tell"}]
  IN IF model.library.state = "saved"
     THEN [Quiet(<<Fetch("Notifications")>>) EXCEPT !.model = [next EXCEPT !.catalog = "loading"]]
     ELSE [Quiet(<<>>) EXCEPT !.model = next]

\* The answer of an add-on that is waited for: there is a new video.
ResourceRequestResult ==
  IF model.catalog # "loading" THEN Quiet(<<>>)
  ELSE Changed([model EXCEPT !.notifications = Notifiable, !.catalog = "ready"],
               IF model.notifications = Notifiable THEN <<>> ELSE <<Msg("NotificationsChanged", None)>>)

UpdateCtx(msg) ==
  CASE msg.name = "UpdateSettings" -> UpdateSettings(msg.arg)
    [] msg.name = "Logout" -> Quiet(<<Msg("InternalLogout", None)>>)
    [] msg.name = "InternalLogout" -> Logout
    [] msg.name = "AddToLibrary" -> AddToLibrary
    [] msg.name = "RemoveFromLibrary" -> RemoveFromLibrary
    [] msg.name = "PullNotifications" -> PullNotifications
    [] msg.name = "UpdateLibraryItem" -> UpdateLibraryItem(msg.arg)
    [] msg.name = "DismissNotificationItem" -> DismissNotificationItem
    [] msg.name = "Notifications" -> ResourceRequestResult
    [] msg.name = "ProfileChanged" -> Quiet(<<Write("profile", model.profile)>>)
    [] msg.name = "LibraryChanged" -> Quiet(IF msg.arg THEN <<>> ELSE <<Write("library", model.library)>>)
    [] msg.name = "NotificationsChanged" ->
         [Quiet(<<Write("notifications", model.notifications)>>) EXCEPT !.model.pulled = @ \ {"save"}]
    [] OTHER -> Quiet(<<>>)

\* Changed: the fields other than Ctx are not announced.
UpdateModel_CtxOnly(msg) ==
  LET ctx == UpdateCtx(msg)
      m == ctx.model
      shelf == IF msg.name = "LibraryChanged" THEN Shelf(m) ELSE m.shelf
      preview ==
        IF msg.name = "NotificationsChanged" \/ (msg.name = "LibraryChanged" /\ msg.arg = TRUE)
        THEN Preview(m) ELSE m.preview
  IN [model |-> [m EXCEPT !.shelf = shelf, !.preview = preview],
      effects |-> ctx.effects,
      fields |-> IF ctx.changed THEN {"ctx"} ELSE {}]

\* update of the derived model: Ctx first, then each other field, which is given Ctx as
\* it is now.
UpdateModel(msg) ==
  LET ctx == UpdateCtx(msg)
      m == ctx.model
      shelf == IF msg.name = "LibraryChanged" THEN Shelf(m) ELSE m.shelf
      preview ==
        IF msg.name = "NotificationsChanged" \/ (msg.name = "LibraryChanged" /\ msg.arg = TRUE)
        THEN Preview(m) ELSE m.preview
  IN [model |-> [m EXCEPT !.shelf = shelf, !.preview = preview],
      effects |-> ctx.effects,
      fields |-> (IF ctx.changed THEN {"ctx"} ELSE {})
                   \cup (IF shelf = m.shelf THEN {} ELSE {"library"})
                   \cup (IF preview = m.preview THEN {} ELSE {"continue_watching_preview"})]

\* update_field, for Ctx, which these actions concern.
UpdateField(msg) ==
  LET ctx == UpdateCtx(msg)
  IN [model |-> ctx.model, effects |-> ctx.effects, fields |-> IF ctx.changed THEN {"ctx"} ELSE {}]

NewState(fields) == [kind |-> "state", fields |-> fields]

\* handle_effects: first the fields that changed are announced, then come the effects,
\* ahead of what was left of the message that caused this one.
HandleEffects(update, left) ==
  /\ model' = update.model
  /\ channel' = IF update.fields = {} THEN channel ELSE Append(channel, NewState(update.fields))
  /\ effects' = update.effects \o left
-----------------------------------------------------------------------------
\* One effect: a message is handled at once, a future is spawned with what it writes
\* already in it; events concern nobody here.
HandleEffect ==
  /\ effects # <<>>
  /\ LET effect == Head(effects) IN
     CASE effect.kind = "msg" ->
            HandleEffects(UpdateModel(effect), Tail(effects)) /\ UNCHANGED tasks
       [] effect.kind = "event" ->
            effects' = Tail(effects) /\ UNCHANGED <<model, channel, tasks>>
       [] OTHER ->
            /\ tasks' = Append(tasks, effect) /\ effects' = Tail(effects)
            /\ UNCHANGED <<model, channel>>
  /\ UNCHANGED <<runtime, installation, calls, inbox, fetches, mainVars, count>>

\* Changed: a future runs before those spawned earlier.
PollTask_LastFirst ==
  /\ effects = <<>> /\ tasks # <<>>
  /\ LET task == Last(tasks) IN
     IF task.kind = "fetch"
     THEN fetches' = Append(fetches, task.name) /\ UNCHANGED calls
     ELSE calls' = Append(calls, task) /\ UNCHANGED fetches
  /\ tasks' = Front(tasks)
  /\ UNCHANGED <<runtime, installation, model, effects, channel, inbox, mainVars, count>>

\* The next future is polled: it posts its call, or sends its request.
PollTask ==
  /\ effects = <<>> /\ tasks # <<>>
  /\ LET task == Head(tasks) IN
     IF task.kind = "fetch"
     THEN fetches' = Append(fetches, task.name) /\ UNCHANGED calls
     ELSE calls' = Append(calls, task) /\ UNCHANGED fetches
  /\ tasks' = Tail(tasks)
  /\ UNCHANGED <<runtime, installation, model, effects, channel, inbox, mainVars, count>>

\* rx.for_each: the next announcement is passed on to the interface.
EmitToUi ==
  /\ effects = <<>> /\ channel # <<>>
  /\ calls' = Append(calls, Head(channel))
  /\ channel' = Tail(channel)
  /\ UNCHANGED <<runtime, installation, model, effects, tasks, inbox, fetches, mainVars, count>>

\* The worker takes a message when nothing is left to do for the one before; the main
\* thread, whose steps commute with what the worker does meanwhile, moves then too.
Idle == effects = <<>> /\ tasks = <<>> /\ channel = <<>>

\* initialize_runtime: the migration is over (SchemaMigration), the id is read.
InitializeRuntime ==
  /\ runtime = "NotSet"
  /\ runtime' = "Loading"
  /\ calls' = <<[kind |-> "read_id"]>>
  /\ UNCHANGED <<installation, model, effects, channel, tasks, inbox, fetches, mainVars, count>>

Refuse ==
  /\ runtime' = "Err"
  /\ UNCHANGED <<installation, model, effects, channel, calls>>

\* The id of the installation, made when there is none yet, is written back at each start.
InstallationIdRead(message) ==
  IF ~message.ok THEN Refuse
  ELSE /\ installation' \in IF message.value = None THEN InstallationIds ELSE {message.value}
       /\ calls' = Append(calls, Write("installation_id", installation'))
       /\ UNCHANGED <<runtime, model, effects, channel>>

InstallationIdWritten(message) ==
  IF ~message.ok THEN Refuse
  ELSE /\ calls' = Append(calls, [kind |-> "read_slots"])
       /\ UNCHANGED <<runtime, installation, model, effects, channel>>

\* The interface begins with the state of every field.
SlotsRead(message) ==
  IF ~message.ok THEN Refuse
  ELSE /\ model' = ModelOf(message.value)
       /\ runtime' = "Ready"
       /\ calls' = Append(calls, NewState(Fields))
       /\ UNCHANGED <<installation, effects, channel>>

\* An action that comes before the runtime is there, or when it never will be, is refused.
Dispatch(message) ==
  /\ IF runtime # "Ready" THEN UNCHANGED <<model, effects, channel>>
     ELSE HandleEffects(IF message.field = None THEN UpdateModel(message.action)
                        ELSE UpdateField(message.action), <<>>)
  /\ UNCHANGED <<runtime, installation, calls>>

GetState(message) ==
  /\ calls' =
       IF runtime # "Ready" THEN calls
       ELSE Append(calls, [kind |-> "view", field |-> message.field, value |-> View(model, message.field)])
  /\ UNCHANGED <<runtime, installation, model, effects, channel>>

FetchResult(message) ==
  /\ HandleEffects(UpdateModel(Msg(message.name, None)), <<>>)
  /\ UNCHANGED <<runtime, installation, calls>>

TakeMessage ==
  /\ Idle /\ inbox # <<>>
  /\ LET message == Head(inbox) IN
     CASE message.kind = "id" -> InstallationIdRead(message)
       [] message.kind = "id_written" -> InstallationIdWritten(message)
       [] message.kind = "slots" -> SlotsRead(message)
       [] message.kind = "dispatch" -> Dispatch(message)
       [] message.kind = "get_state" -> GetState(message)
       [] message.kind = "fetched" -> FetchResult(message)
  /\ inbox' = Tail(inbox)
  /\ UNCHANGED <<tasks, fetches, mainVars, count>>
-----------------------------------------------------------------------------
\* The main thread carries out a call, which may fail, and posts the answer.
Outcomes == IF count.failures < MaxFailures THEN BOOLEAN ELSE {TRUE}

Counted(ok) == IF ok THEN count ELSE [count EXCEPT !.failures = @ + 1]

ServeRead(ok) ==
  /\ Head(calls).kind \in {"read_id", "read_slots"}
  /\ inbox' = Append(inbox,
       IF Head(calls).kind = "read_id"
       THEN [kind |-> "id", ok |-> ok, value |-> storage.installation_id]
       ELSE [kind |-> "slots", ok |-> ok, value |-> storage])
  /\ count' = Counted(ok)
  /\ UNCHANGED mainVars

\* The end of a write of the buckets is an event and nothing more.
ServeWrite(ok) ==
  /\ Head(calls).kind = "write"
  /\ LET slot == Head(calls).slot IN
     /\ storage' = IF ok THEN [storage EXCEPT ![slot] = Head(calls).value] ELSE storage
     /\ lost' = IF ok THEN lost \ {slot} ELSE lost \cup {slot}
     /\ inbox' = IF slot = "installation_id" THEN Append(inbox, [kind |-> "id_written", ok |-> ok]) ELSE inbox
  /\ count' = Counted(ok)
  /\ UNCHANGED ui

\* The interface is told of fields, and asks for the state of each.
ServeState ==
  /\ Head(calls).kind = "state"
  /\ inbox' = inbox \o [i \in 1 .. Cardinality(Head(calls).fields) |->
                          [kind |-> "get_state", field |-> SetToSeq(Head(calls).fields)[i]]]
  /\ UNCHANGED <<mainVars, count>>

ServeView ==
  /\ Head(calls).kind = "view"
  /\ ui' = [ui EXCEPT ![Head(calls).field] = Head(calls).value]
  /\ UNCHANGED <<storage, lost, count, inbox>>

Serve ==
  /\ Idle /\ calls # <<>>
  /\ (\E ok \in Outcomes : ServeRead(ok) \/ ServeWrite(ok)) \/ ServeState \/ ServeView
  /\ calls' = Tail(calls)
  /\ UNCHANGED <<workerVars, fetches>>

Actions ==
  {Msg("UpdateSettings", 2)}
    \cup {Msg(name, None) : name \in {"Logout", "AddToLibrary", "RemoveFromLibrary", "PullNotifications"}}

\* The interface dispatches an action, to Ctx alone or to all.
UserActs ==
  /\ Idle /\ runtime \in {"Ready", "Err"} /\ count.actions < MaxActions
  /\ \E action \in Actions, field \in {"ctx", None} :
       inbox' = Append(inbox, [kind |-> "dispatch", action |-> action, field |-> field])
  /\ count' = [count EXCEPT !.actions = @ + 1]
  /\ UNCHANGED <<workerVars, mainVars, calls, fetches>>

FetchAnswered ==
  /\ Idle
  /\ \E i \in DOMAIN fetches :
       /\ inbox' = Append(inbox, [kind |-> "fetched", name |-> fetches[i]])
       /\ fetches' = RemoveAt(fetches, i)
  /\ UNCHANGED <<workerVars, mainVars, calls, count>>

NoModel == ModelOf([profile |-> None, library |-> None, notifications |-> None])

Start ==
  /\ runtime' = "NotSet" /\ installation' = None /\ model' = NoModel
  /\ ui' = [f \in Fields |-> None] /\ lost' = {}
  /\ effects' = <<>> /\ channel' = <<>> /\ tasks' = <<>> /\ calls' = <<>> /\ inbox' = <<>> /\ fetches' = <<>>

\* The page is closed and opened again: what is under way is gone.
Reload ==
  /\ Idle /\ count.starts < MaxStarts
  /\ count' = [count EXCEPT !.starts = @ + 1]
  /\ Start
  /\ UNCHANGED storage

Init ==
  /\ runtime = "NotSet" /\ installation = None /\ model = NoModel
  /\ ui = [f \in Fields |-> None] /\ lost = {}
  /\ effects = <<>> /\ channel = <<>> /\ tasks = <<>> /\ calls = <<>> /\ inbox = <<>> /\ fetches = <<>>
  /\ \/ storage \in [profile : {None, [settings |-> 1, user |-> TRUE]},
                     library : {None, [state |-> "saved", seen |-> FALSE]},
                     notifications : {None}, installation_id : {None}]
     \/ \* the app stopped while an account was left, or a title removed, with news of it
        storage \in [profile : {None}, library : {None, [state |-> "removed", seen |-> FALSE]},
                     notifications : {TRUE}, installation_id : {None}]
  /\ count = [actions |-> 0, starts |-> 1, failures |-> 0]

Next ==
  \/ InitializeRuntime \/ HandleEffect \/ PollTask \/ EmitToUi \/ TakeMessage
  \/ Serve \/ UserActs \/ FetchAnswered \/ Reload

Spec == Init /\ [][Next]_webVars
-----------------------------------------------------------------------------
TypeOK ==
  /\ runtime \in {"NotSet", "Loading", "Err", "Ready"}
  /\ model.profile \in Profiles /\ model.library \in Items /\ model.notifications \in BOOLEAN
  /\ model.shelf \in BOOLEAN /\ model.preview \in BOOLEAN /\ model.pulled \subseteq {"save", "tell"}
  /\ model.catalog \in {"none", "loading", "ready"}
  /\ lost \subseteq SlotNames \cup {"installation_id"}

\* The last value on its way to a slot, of all that are under way, is the one the model
\* holds; without one the slot has it.  Each was put into its future when the effect was
\* made, and nothing but the order of spawning and posting keeps them in order
\* (env.rs:453, runtime.rs:84).  A write that failed is made up for by the next, and
\* notifications that a pull took away may be there again after a restart.
SlotsAreSaved ==
  runtime = "Ready" /\ effects = <<>> =>
    \A slot \in IF "save" \in model.pulled THEN SlotNames \ {"notifications"} ELSE SlotNames :
      LET queue == calls \o tasks
          writes == {i \in DOMAIN queue : queue[i].kind = "write" /\ queue[i].slot = slot}
      IN /\ \A i \in writes : (\A j \in writes : j <= i) => queue[i].value = model[slot]
         /\ writes = {} => ModelOf(storage)[slot] = model[slot] \/ slot \in lost

\* What the interface shows of a field is the field as it is, or it will be told: a
\* NewState naming it, a question or the answer with its present value is under way; but
\* nobody is told of what a pull takes away (update_notifications.rs:116).
UiIsTold ==
  runtime = "Ready" /\ effects = <<>> =>
    \A field \in IF "tell" \in model.pulled THEN Fields \ {"ctx"} ELSE Fields :
      LET Tells(queue) == \E i \in DOMAIN queue : queue[i].kind = "state" /\ field \in queue[i].fields
          views == {i \in DOMAIN calls : calls[i].kind = "view" /\ calls[i].field = field}
      IN \/ Tells(channel) \/ Tells(calls)
         \/ \E i \in DOMAIN inbox : inbox[i].kind = "get_state" /\ inbox[i].field = field
         \/ \E i \in views : (\A j \in views : j <= i) /\ calls[i].value = View(model, field)
         \/ views = {} /\ ui[field] = View(model, field)

\* The screens show what Ctx holds, once a message and its effects are handled, the preview
\* also what a pull has taken away.
ScreensFollow ==
  runtime = "Ready" /\ effects = <<>> =>
    model.shelf = Shelf(model) /\ (model.preview = Preview(model) \/ "save" \in model.pulled)

\* An app that runs has the id of its installation in the storage.
InstallationIsStored == runtime = "Ready" => storage.installation_id = installation

\* The start waits for an answer that will come.
StartIsAnswered == runtime = "Loading" => calls # <<>> \/ inbox # <<>>
=============================================================================
