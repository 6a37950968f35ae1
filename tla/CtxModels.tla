----------------------------- MODULE CtxModels ------------------------------
(***************************************************************************)
(* The parts of Ctx that keep something of their own in the storage, and   *)
(* the web app around it, side by side: notifications, the small buckets,  *)
(* the migration of the schema, the watched bit field of a library item,   *)
(* and the runtime of the web app with what it writes.  A behaviour is one *)
(* of them, told by `part'; they share no state here.                      *)
(***************************************************************************)
EXTENDS Loadables, Sequences

CONSTANTS
  Metas, Videos, Released, Addons, Every, MaxTime, MaxWrites,          \* Notifications
  Users, Events, Searches, Urls, DefaultUrl, MaxJobs,                  \* CtxBuckets
  Broken,                                                              \* SchemaMigration
  Byte, Listed, Undefined,                                             \* WatchedBits
  InstallationIds, MaxActions, MaxStarts, MaxFailures                  \* WebRuntime

VARIABLES
  part,
  now, library, items, last_updated, catalogs, flight, stored, jobs, dismissed,      \* notifications
  uid, buckets, modal, notification, requests, asked, saved, writes, broken,         \* buckets
  schema, storage, at, to, began, torn,                                              \* migration
  video_ids, bitfield, field, seen,                                                  \* watched
  runtime, installation, model, effects, channel, tasks, calls, inbox, fetches,      \* web
  local_storage, ui, count, lost

Notified == INSTANCE Notifications WITH MaxJobs <- MaxWrites
Buckets == INSTANCE CtxBuckets WITH jobs <- writes
Schema == INSTANCE SchemaMigration
Watched == INSTANCE WatchedBits WITH Videos <- Listed
Web == INSTANCE WebRuntime WITH storage <- local_storage

ASSUME NotificationsAssumption ==
  /\ Notified!ReleasedAssumption /\ Notified!BoundsAssumption
  /\ Notified!AddonsAssumption /\ Notified!AnswersAssumption
ASSUME BucketsAssumption == Buckets!EventsAssumption
ASSUME SchemaAssumption == Schema!ProfilesAssumption
ASSUME WatchedAssumption == Watched!ByteAssumption /\ Watched!VideosAssumption
ASSUME WebAssumption == Web!NoneAssumption

Parts == {"notifications", "buckets", "migration", "watched", "web"}

notificationVars == <<now, library, items, last_updated, catalogs, flight, stored, jobs, dismissed>>
bucketVars == <<uid, buckets, modal, notification, requests, asked, saved, writes, broken>>
migrationVars == <<schema, storage, at, to, began, torn>>
watchedVars == <<video_ids, bitfield, field, seen>>
webVars ==
  <<runtime, installation, model, effects, channel, tasks, calls, inbox, fetches,
    local_storage, ui, count, lost>>

ctxVars == <<part, notificationVars, bucketVars, migrationVars, watchedVars, webVars>>

\* The variables of the parts that a behaviour is not of, which no step changes.
NoNotified ==
  /\ now = None /\ library = None /\ items = None /\ last_updated = None /\ catalogs = None
  /\ flight = None /\ stored = None /\ jobs = None /\ dismissed = None
NoBuckets ==
  /\ uid = None /\ buckets = None /\ modal = None /\ notification = None /\ requests = None
  /\ asked = None /\ saved = None /\ writes = None /\ broken = None
NoSchema ==
  /\ schema = None /\ storage = None /\ at = None /\ to = None /\ began = None /\ torn = None
NoWatched ==
  /\ video_ids = None /\ bitfield = None /\ field = None /\ seen = None
NoWeb ==
  /\ runtime = None /\ installation = None /\ model = None /\ effects = None /\ channel = None
  /\ tasks = None /\ calls = None /\ inbox = None /\ fetches = None
  /\ local_storage = None /\ ui = None /\ count = None /\ lost = None

Init ==
  /\ part \in Parts
  /\ IF part = "notifications" THEN Notified!Init ELSE NoNotified
  /\ IF part = "buckets" THEN Buckets!Init ELSE NoBuckets
  /\ IF part = "migration" THEN Schema!Init ELSE NoSchema
  /\ IF part = "watched" THEN Watched!Init ELSE NoWatched
  /\ IF part = "web" THEN Web!Init ELSE NoWeb

Next ==
  /\ UNCHANGED part
  /\ IF part = "notifications" THEN Notified!Next ELSE UNCHANGED notificationVars
  /\ IF part = "buckets" THEN Buckets!Next ELSE UNCHANGED bucketVars
  /\ IF part = "migration" THEN Schema!Next ELSE UNCHANGED migrationVars
  /\ IF part = "watched" THEN Watched!Next ELSE UNCHANGED watchedVars
  /\ IF part = "web" THEN Web!Next ELSE UNCHANGED webVars

Spec == Init /\ [][Next]_ctxVars

\* The watched bit field alone, whose videos go at the front as well.
SpecShift ==
  /\ part = "watched" /\ Init
  /\ [][/\ Watched!Next \/ Watched!Shrink
       /\ UNCHANGED <<part, notificationVars, bucketVars, migrationVars, webVars>>]_ctxVars
-----------------------------------------------------------------------------
TypeOK ==
  /\ part \in Parts
  /\ part = "notifications" => Notified!TypeOK
  /\ part = "buckets" => Buckets!TypeOK
  /\ part = "migration" => Schema!TypeOK
  /\ part = "web" => Web!TypeOK

\* What was dismissed is not shown again, by late answers, older answers that are
\* still there, pulls, or a title's removal and return (update_notifications.rs:362,
\* update_events.rs:72); and nobody is notified of what is not released yet.  In the web
\* app the screens follow Ctx, and the interface is told of each change (effects.rs:20).
ShowsWhatHolds ==
  /\ part = "notifications" => Notified!DismissedStaysDismissed /\ Notified!NotifiedIsReleased
  /\ part = "buckets" => Buckets!DismissedIsNotShown
  /\ part = "web" => Web!UiIsTold /\ Web!ScreensFollow

\* A catalog or an event that is Loading will be answered, and so is a runtime that is.
LoadingIsAnswered ==
  /\ part = "notifications" => Notified!CatalogsAreAnswered
  /\ part = "buckets" => Buckets!EventsAreAnswered
  /\ part = "web" => Web!StartIsAnswered

\* What is stored is kept.  Every change of a bucket reaches its slot, unless the last
\* write of it failed, and the server of the device stays among the urls
\* (server_urls_bucket.rs:16).  The writes of the web app, spawned one by one, leave its
\* slots with what Ctx holds (env.rs:453), and its id is stored once it runs.  A video is
\* watched exactly when it was marked, whatever was written and read in between and
\* however often the list grew at either end (watched_bitfield.rs:131).
StoredIsKept ==
  /\ part = "buckets" => Buckets!BucketsAreSaved
  /\ part = "web" => Web!SlotsAreSaved /\ Web!InstallationIsStored
  /\ part = "watched" => Watched!WatchedSurvives

\* "We can shift the bitmap in any direction, as long as we can find the anchor
\* video" (watched_bitfield.rs:131): also when the videos before the watched ones go.
ShiftKeepsWatched == part = "watched" => Watched!WatchedSurvives

\* A migration that ends leaves a profile the present version can read, the same one
\* however often it was stopped and begun again; unless it was stopped half-way to
\* version 1, 2 or 6, which it cannot go to twice (env.rs:171).
MigrationIsSafe ==
  part = "migration" => Schema!MigratedIsRead /\ Schema!StoppingChangesNothing
=============================================================================
