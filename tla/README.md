# Formal models of stremio-core

stremio-core is the state and logic of the Stremio clients: a library of models that are
updated by messages, with the effects (requests, storage, time) behind an `Env` trait, and
`stremio-core-web`, which runs it in a worker of a browser. This directory holds TLA+
specifications of its core, TLC configurations that check them on small instances, and TLAPS
proofs for instances of any size.

Paths below are relative to the repository.

## 1. The system

### How it works

A `Runtime` (src/runtime/runtime.rs) holds the model behind a lock. `dispatch(action)` runs
`Model::update`, which changes state and returns *effects*: messages to deliver at once, and
futures that end in a message later. Messages returned by a handler are delivered depth first
before anything else touches the model, so a handler with all the messages it emits is one
step: the actions of the specifications include, for example, the `ProfileChanged` that an
install emits and the push to storage that `ProfileChanged` causes. Futures run in
`Env::exec_concurrent` (requests) or `Env::exec_sequential` (storage), and *their* results
interleave with everything the user does meanwhile. That is where the behaviour is hard: an
answer arrives in another session, for another selection, after a later answer, twice, as an
error, or never; and the process may stop between two writes.

### Components

| component | state | operations | talks to |
|---|---|---|---|
| Runtime, effects | the model, an event channel | dispatch, deliver messages, run futures | everything |
| Ctx: session and profile | status, auth, settings | Authenticate, Logout, PullUserFromAPI, DeleteAccount and their results | API; every bucket follows the account |
| Ctx: add-ons | profile.addons, addons_locked | install, upgrade, uninstall, push, pull | API, profile slot |
| Ctx: library | library bucket | edits, sync, pulls, merge | API datastore, two storage slots |
| Ctx: notifications, events, streams, search history, server urls, trakt | a bucket each | pulls, results, dismissals | add-ons, API, a slot each |
| Web runtime and startup | worker, main thread, local storage | migrate the schema, read all slots, build the model, dispatch, announce, answer | storage, interface |
| Resource loading | request and content of each resource | request, cached request, forced request, result | add-ons |
| Add-on transport | none | manifest and resources by path, or by the legacy JSON-RPC | add-ons |
| Player, meta details, catalogs, discover, calendar, local search, library screens | selection and loaded resources | Load, Unload, results, paging; the player writes the library item back | Ctx, add-ons, API |
| Streaming server, account linking, data export | Loadable values | load, results | streaming server, API |
| Analytics | queue of batches, the pending one | emit, send, flush | API |
| Watched bit field | bits against a list of videos | build, resize, read, write | library item |
| Deep links, views for the web, data types | none | links of streams and titles, views of fields, conversions of streams | interface, Ctx |

### What makes each of them correct

* **Library and its slots**: a restart shows what was there before, less what had not been
  written; never another account's items.
* **Synchronisation**: when a sync ends, device and datastore agree on everything nobody wrote
  meanwhile; nothing newer is replaced by something older.
* **Session**: key and user belong together; every bucket has the account of the profile;
  late answers neither sign in nor sign out.
* **Add-ons**: the user's collection in the API is only replaced by one made from it; both sides
  agree when nothing is under way.
* **Startup and migrations**: any prefix of the writes leads to a state that loads.
* **Resources, player, meta details, streaming server, link, export**: what is shown belongs to
  the current selection and account; Loading ends.
* **Catalogs, library screens**: pages follow one another; every list is of the library and the
  add-ons there are now, and of notifications as of the last message it handles.
* **Web runtime**: the interface is told of every change it can see, and the slots end with what
  Ctx holds although writes are spawned one by one.
* **Links, transport**: a link plays what it was shown for; an add-on is asked, in its own
  protocol, for what is meant, and all that can be read of its answer is there.
* **Watched bit field**: a mark survives a list of videos that grows, and being written and read.
* **Analytics**: an event is sent under the account it was recorded for; sending retries in order.

`PROJECT.json` lists the components with their status, and under `hazards`, line by line, what is
hard to test in them together with the property that covers it.

## 2. Modules

### The component modules

| module | models | proofs |
|---|---|---|
| `LibraryBuckets` | operators: types/library/library_bucket.rs | with `LibraryStorage` |
| `LibraryStorage` | update_library.rs and its storage jobs, initialize_runtime | `LibraryStorageProofs` |
| `LibrarySync`, abstract `LibraryReplicas` | SyncLibraryWithAPI, its results, edits on several devices | `LibrarySyncProofs` |
| `CtxSession`, abstract `AccountSession` | ctx.rs, the account part of update_profile.rs and of the buckets | `CtxSessionProofs` |
| `CtxAddons` | the add-on part of update_profile.rs | `CtxAddonsProofs` |
| `Loadables`, `AddonRequests` | operators: loadable.rs, effects.rs; addon/request.rs, addon/manifest.rs | – |
| `AccountLink`, `DataExport`, `AddonDescriptors`, `Analytics` | link.rs, data_export.rs, update_trakt_addon.rs and addon_details.rs, analytics.rs | `AccountProofs` |
| `Notifications`, `CtxBuckets` | update_notifications.rs; update_events.rs, update_search_history.rs, update_streaming_server_urls.rs | `CtxModelsProofs` |
| `SchemaMigration` | runtime/env.rs | `CtxModelsProofs` |
| `WatchedBits` | stremio-watched-bitfield | `CtxModelsProofs` |
| `WebRuntime` | runtime/runtime.rs, stremio-core-web's worker, bridge and environment | `CtxModelsProofs` |
| `WebViews`, `StreamLinks` | model/serialize_*.rs; resource/stream.rs, deep_links | `PlayerProofs` |
| `AddonTransport` | addon_transport, addon/response.rs, resource/meta_item.rs | `PlayerProofs` |
| `PlayerProgress`, `PlayerResources` | player.rs, update_streams.rs, streams_item.rs | `PlayerProofs` |
| `MetaDetails`, `Catalogs`, `LibraryScreens`, `Calendar`, `LocalSearch`, `StreamingServer` | the models of these screens | `ScreenProofs` |

`PROJECT.json`, under `map`, gives the source lines of every definition that translates code.
Definitions whose name continues another one's after an underscore (`MergeItems_Strict`) are
altered forms of it, used to check that the properties can fail; no specification refers to them.

Four modules put components side by side so that one instance checks them all: `AccountModels`
(session, link, export, manifests, analytics), `CtxModels` (notifications, buckets, migration,
watched bits, web runtime), `PlayerModels` (transport, views, links, and the player's progress and
resources) and `ScreenModels` (the six screens). A behaviour is one of them, told by the variable `part`; the
other parts' variables never change. This is a disjoint union and not a product: the parts share no
state, only the questions asked of them, and each property of such a module is the conjunction of
what its parts promise. Real interaction is inside the component modules: the player with the
library it hands its copy to, notifications with the library that dismissal dates, the runtime with
the fields it announces, views with Ctx and the streaming server. `MC...` modules give the
instances for TLC.

### LibraryBuckets

A bucket is `[uid, items]`, `items` a function from ids to items or `Absent`. An item keeps its
`mtime`, a `body` that stands for all that `eq_no_mtime` compares, and, as history, the account
that wrote it. `Recents(items)` is the *set* of answers that sorting by time and taking
`LIBRARY_RECENT_COUNT` items can give, since items of equal time come in the order of a hash map.

### LibraryStorage

`library` and `uid` are the model in memory; `storage` has the slots `library_recent`, `library`
and `profile`; `queue` holds the jobs of the sequential executor, each with its writes and those
still to do. The values written are the ones serialized when the handler ran, as in the code.
`MergeAndPush` is `update_and_push_items_to_storage` with its three shapes of job. `Replace` is the
account change: `ProfileChanged` enqueues the profile, `LibraryChanged(false)` the library, in that
order, each only if the value changed. `WriteFails` is `try_join_all` giving up. `Restart` drops
the queue and starts from the slots as `initialize_runtime` does. The API is present as `versions`,
all versions anybody wrote; an answer is any selection of them.

The code's contract is taken from `Env`: jobs one after the other. `WebEnv::exec_sequential`
spawns each job at once; its writes still reach local storage in the order they were issued, by
messages of one worker. `WebRuntime` models that executor itself (`SlotsAreSaved`).

### LibrarySync

Devices of one account, each with `library` and `session`, share `remote`, the datastore. A request
(`Put`, `Meta`, `Get`) is in a slot of `flight` from sending to the handling of its answer, and
is served at any time in between, in any order; every one can fail. `Meta` carries the snapshot of
the library that the plan compares with the answer; `ServeMeta` computes the plan, in whole
seconds, as the future does before it ends. `Ahead` is the devices whose clock is a tick ahead;
`Unsynced` the contents `should_sync` rejects. `touched[d]`, a history variable, collects the ids
that a device's last sync says nothing of: edited since it began, concerned by a request it
overlapped with, written by another device, or left alone because a request failed.

### CtxSession

`status` is `Ready` or the account asked for; `auth` the key and user of the profile; `uids` the
account of each bucket; `flight` the requests; `owner` and `open` the sessions the API opened and
those still valid. Keys are numbers in the order they were opened, so they are never reused. An
action is one message of ctx.rs with all it emits: `EndSession` is `Internal::Logout`, through
every update function. `UserAPIResult` with error code 1 runs it and sends the `Logout` request for
the key that the profile has by then. The parts of an account the model leaves out (name, email,
password, and the kind of `AuthRequest`) are represented by the account itself; `changed` says
whether a pulled user differs from the profile's in what is left out.

### CtxAddons

`profile` in memory, `toSave` as last serialized, `saved` in the slot: the difference between the
last two is what a stop loses. `basis`, history, is the account whose fetched collection the
add-ons were made from. `ChangeAddons` is the common end of install, upgrade and uninstall: push to
the API if signed in, then `ProfileChanged`. `drifted`, history, records the events after which
profile and API may disagree. Sign-in is one step here; CtxSession takes it apart.

### Link, export, manifests, analytics

Requests under way are slots of a function (`Loadables`), so that late answers of earlier loads
are there to be mistaken for others. A link's create requests carry nothing that tells one from
another, as in the code; its reads carry their code. In `AddonDescriptors` one message about a
manifest reaches both who may wait for it, the Trakt add-on of Ctx and the page of an add-on; a
session may get another user by a token (`UserAPIResult`), and `holders`, history, is the users it
has had since it asked for the Trakt add-on.
Analytics numbers events; a batch is the events of one account; `emitter` and `received` are
history.

### Notifications, buckets, migration

`Notifications` has the throttle with its clock, requests per add-on and their answers in any
order, dismissal with the item it dates in the library, and two slots written by two jobs. A
`PullNotifications` that is not due does nothing and is left out. `CtxBuckets` saves three buckets,
each job a slot, each write may fail. `SchemaMigration` has all 21 migrations as two writes each;
the settings are a function whose names are those that some migration touches.

### WatchedBits

A bit field is its `length` and `values`; text and compression keep the values but not the length.
`Byte` is the number of bits in a byte, 2 in the instance so that lists cross bytes early, and 8
in `watched_shift`, where `SpecShift` of `CtxModels` lets videos go at the front as well.

### WebRuntime, WebViews, StreamLinks, AddonTransport

`WebRuntime`: the worker handles a message with its effects to the end (`effects` is the stack of
what is still to be delivered), then the main thread and the interface move. That the main thread
moves only when the worker is idle loses nothing: the two communicate through queues, and their
steps commute. The interface reads a field when told that it changed; `ui` is what it has read.

`WebViews` and `StreamLinks` translate pure code with a small state around it: the field shown,
Ctx, the server, and what the interface was told. A link is shown in one state and followed in
another. `AddonTransport`: a behaviour is of one add-on, asked for its manifest and then for
resources; an id is a prefix and parts, and urls and encodings keep apart what stays apart.

### The player

`PlayerProgress` takes the messages between player and library one by one (`todo`), since a
delivery emits again: the copy is taken anew while one is on its way. `played` counts the ticks
that really passed. `PlayerResources` has all the player fetches for the video shown, and the
streams bucket; a stream is its video and binge group.

### The screens

Each module has the selection, what is fetched for it, the requests under way, and what is
derived; `MetaDetails` adds the guessed selection, `Catalogs` pages of Discover and of the board, each
a request, a skip and its content,
`LibraryScreens` lists of their own that are recomputed on different messages, `Calendar`
months, `LocalSearch` an index, `StreamingServer` the parts of it that are fetched one by one. In
`LibraryScreens` notifications change in three ways, since each reaches other lists: an add-on's
answer the preview, a dismissal all of them, because it dates the item in the library as well, and a
pull (`PullNotifications`) none. `heard`, history, is the notifications there were at the last
message that the preview, or the continue watching page, handles.

## 3. What is checked

Small bounds are enough where the code has no counting of its own: the arms compare one request,
key or id with another, so two of each and one more to be stale show every outcome of a comparison.

| run | instance | states | bounds |
|---|---|---|---|
| `storage` | `LibraryStorage` | 4.5 million | 2 items, 1 account and nobody, recent slot of 1, 3 times, 2 jobs |
| `sync` | `MCLibrarySync` | 5 million | 2 devices, one ahead, 1 item, 2 contents of which one is not synchronised, a second of 2 ticks, a session each, 2 requests |
| `session` | `CtxSession` | 5.6 million | 2 accounts, 3 requests, 3 keys, no tokens |
| `addons` | `MCCtxAddons` | 2.1 million | 2 accounts, 3 descriptors of one add-on, 2 requests, 2 sessions, tokens, pushes while locked |
| `account` | `AccountModels` | 382 000 | 2 accounts, 2 sessions with tokens, 2 requests, 3 codes, 3 events |
| `ctx` | `MCCtxModels` | 3.1 million | 3 requests; 2 videos, 3 times; 1 event; 5 videos in bytes of 2 bits; 2 actions, 2 starts, 1 failure |
| `player` | `MCPlayerModels` | 2.8 million | 2 videos of 4 ticks, 6 ticks, 2 loads, handed over every 3; 15 streams, 2 servers; 6 screens; 6 add-ons, 9 ids |
| `screens` | `MCScreenModels` | 1.24 million | 2 add-ons, 2 titles, 2 or 3 requests, 2 pages; 3 library items, one of which may be notified of, a preview of 1 |

What each says of the code:

* `storage`: `AccountIsolation`, no mix of slots at a restart shows one account the other's items;
  `DrainedIsRecoverable`, with the queue empty and no slot's last write failed, a restart restores
  exactly the account and the library in memory, although most jobs write one slot;
  `LostOnlyWhatWaits`, the current version of every item is in a slot or in a write that waits.
  The last two exempt a process that itself started from slots one job had written in part
  (`torn`): it may have an item's new version in the recent slot and its old one in the other, and
  the first one-slot write then drops an item from storage. That is a real gap of the code, listed
  as a hazard; the exemption ends with the next job that writes both slots.
* `sync`: `SyncAgrees`, agreement *to the second*, with contents that are not synchronised as the
  one asymmetry; two versions of an item written within a second stay different for good.
  `EditIsKept` is for a device that no other is ahead of: one that pulled a version from the
  future pushes its edit and rejects it locally (`merge_items` compares times). `KeepsLatest` is the
  refinement of `LibraryReplicas`.
* `session`: `KeyMatchesUser`, `BucketsFollowProfile`, `SessionEndsForCause`, and `SignsInAsAsked`,
  the refinement of `AccountSession` with `wanted` the account of `status`.
* `addons`: `Agreement` holds unless `drifted`: of the events that set it only overtaking and
  failing are under the program's control, and nothing in it retries or orders pushes.
  `UnforcedWasFetched`: only a push while locked or after a token replaces a collection with one
  that was not made from it.
* `account`: `ShownIsOwn`, `LoadingIsAnswered`, `TraktIsOwn`, `SentUnderOwnAccount`,
  `DeliveredInOrder`, and the liveness `WaitingEnds`. `TraktIsOwn` is of the users of one session:
  nobody who signs in or out between asking and answer is given another's Trakt add-on, but a
  user whom a token has put in the place of another is.
* `ctx`: `ShowsWhatHolds` (nothing dismissed comes back, nobody is notified of what is not
  released, the interface is told of every change), `StoredIsKept`, `MigrationIsSafe`,
  `LoadingIsAnswered`.
* `player`: `EditsSurvivePlaying`, `WatchedOncePerLoad`, `LossIsBounded`, `PlayerSettles`,
  `ShownIsOfVideo`, and `OffersHold`: an add-on is asked for what it offers, no two things in the same words,
  and all that can be read of its answer is there in its order; a view is announced, shows an answer as
  soon as there is one and lists nothing twice; a link keeps its stream and plays it again.
* `screens`: `DetailsFollow`, `PagesFollow`, `ShownIsCurrent`, `LoadingIsAnswered`. Of the preview and
  the continue watching page `ShownIsCurrent` says that they show the library as it is now, with
  the notifications as of the last message they handle: a pull sends none, and
  `NotificationsChanged` reaches the preview alone. `LoadingIsAnswered` leaves out the statistics of
  the streaming server, which the answer for an engine that was destroyed leaves Loading.

Why the bounds are enough:

* A recent slot of 1 with 2 items is the smallest library that is split, and both ways across the
  boundary happen: an older item is touched, a recent one is overtaken.
* 3 requests in `session`: one of an earlier session, one of the current, one that changes it.
* 2 ticks a second: versions of one item can differ within a second, at both ends of it.
* 3 codes in `account`: one of a link given up, one shown, one that comes late.
* Bytes of 2 bits and 5 videos: a field ends in the middle of a byte, at its end and one beyond.
* 6 ticks of 4 in the player: a video is watched to the end, begun again and left.
* 2 pages: the first differs from those after it and no arm tells apart the later ones.

`SYMMETRY` permutes what no constant names one of: requests' slots, and in `storage`,
`addons` and `sync` accounts, ids, contents and devices with equal clocks. `account`, which checks
liveness, uses none, nor does `session`. Deadlock is checked but in `ctx`, where a migration from a version later than
the code's stops for good, and in `player`, where the clock reaches its bound.

### Fairness

`account` assumes weak fairness, for each request, of what answers it: `ServeAuth` and
`CtxAuthResult` in CtxSession, `Answer` in AccountLink, `Serve` and `BatchSent` in Analytics. A
request ends, with an answer or an error, and the executor polls a future until it ends
(`Runtime::handle_effects` hands every future to it). `SendNextBatch` is fair because the
application sends batches on a timer (`Analytics::send_next_batch`). Nothing is assumed of the
user, nor of requests that `WaitingEnds` does not depend on. Elsewhere `LoadingIsAnswered` says the
same as a state invariant: what is Loading, but for those statistics, has a request under way that
will replace it, so that it ends if the request does.

### Disagreements found

Four runs end in a violation of what a doc or a comment of the repository says; `PROJECT.json` has
the quotations under `findings`.

| run | what happens |
|---|---|
| `session_mixed` | pulling with another account's token joins its user to the key of the session before |
| `addons_push` | PushAddonsToAPI ignores `addons_locked` and replaces the user's collection |
| `player_seek` | a seek, then an arriving resource, then a time report: the distance of the seek counts as watched |
| `watched_shift` | when the list shrinks at the front, the bits that were written are read up to the length of the new list only, and the mark of the anchor itself is forgotten |

Reading and modelling showed more, which no run is needed for. Paths are under src/src, or src for another crate.

* Signing in leaves dismissed events with the uid they had (models/ctx/update_events.rs:20); Logout
  leaves the server urls with that of the account; a token sign-in fills the profile and no bucket.
* A token's answer replaces the user of a session and leaves the library, with its uid, and the Trakt
  add-on that is waited for as they were: when its manifest comes, it is installed for the new user
  (models/ctx/update_profile.rs:379, models/ctx/update_trakt_addon.rs:66).
* The continue watching page does not handle `NotificationsChanged`
  (models/library_with_filters.rs:235), which the preview does: what becomes new shows there only when
  the library changes or the page is loaded again.
* A token sign-in leaves `addons_locked` down (models/ctx/update_profile.rs:386), so the next
  install pushes local add-ons; the run `addons` has it as `forced`.
* Without an account, refreshing gives an add-on the url of the official one of the same id, which
  may make two add-ons of one url (models/ctx/update_profile.rs:95).
* Uninstalling removes streams in memory and emits no StreamsChanged, so nothing saves that.
* `PullNotifications` and a repeated token sign-in may change notifications and report themselves
  unchanged, against the doc of `unchanged` (runtime/effects.rs:37). For a pull this shows: a title
  whose item was removed loses its notifications in memory, and until the next change neither is that saved nor
  is the interface told, nor the preview computed again (models/ctx/update_notifications.rs:119). The history
  `pulled` of `WebRuntime` marks such a model, and `ui`, slot and preview are exempt as long.
* PullNotifications does nothing within 6 hours of the last pull, though that one failed; the doc of
  the action says that it always makes requests (runtime/msg/action.rs:88).
* Two tabs of the web app share local storage, each writing what it holds. A second `initialize`
  after one that failed panics.
* Core events reach analytics after `get_location_hash` ended, with the Ctx there is by then.
* The player always converts with the server url of the settings, also when the server is down,
  and does not convert again; a link of the converted stream has lost what the stream was, and
  keeps `proxyHeaders`, so that reopening proxies once more (the view alone clears them).
* The player's view takes the progress of the selected video from the library item even when that
  is of another video.
* Views are read on the announcement of one field though they are made of Ctx and the server too.
* The legacy transport asks `subtitles.find` and its manifest reads `subtitles.get`; ids of four or
  more parts give a null query; a legacy list fails whole for an element that cannot be read,
  where the other protocol skips it.
* An add-on of a url that does not end in /manifest.json can be installed, and every resource of it
  fails.
* A new bit field has the number of its bytes as its length (stremio-watched-bitfield/src/bitfield8.rs:16),
  below which alone an anchor is looked for: it is one of the first videos, and when that one goes every
  mark goes with it.
* Extra properties that are required and not supported are never required
  (types/addon/manifest.rs, `ManifestExtra::iter`).
* Videos with seasons of a title that is no series come newest first, against the doc
  (types/resource/meta_item.rs:259).
* Devices of the streaming server are not reset when its url changes, and stay as they failed.

## 4. What is proved

Eight modules hold theorems. They are for every value of the constants that satisfies the assumptions
of the modules (finitely many ids, a name for nobody that no account has, requests that are not the
free slot, and so on), hence for any number of devices, accounts, requests, items and sessions.

**`LibraryStorageProofs`**: `TypeCorrect` (`TypeOK`) and `Isolation` (`AccountIsolation`).
`AccountIsolation` is not inductive: a restart reads slots, slots come from jobs, jobs from the
library and from answers. The invariant adds that every bucket in a slot or in a write of a job
holds only items its own uid wrote (`OwnersAgree`), and that versions are well typed. Merging
keeps that because it merges buckets of one uid only; this is lemma material on `MergeItems`,
`Part` and `MergeBucket`, stated for any buckets.

Also in `LibraryStorageProofs`: `RestartRestores` (`DrainedIsRecoverable`) and `NothingLost`
(`LostOnlyWhatWaits`). Most jobs write the recent slot only, so what the other slot has must fit what
is written long after it. `Leaves` says what a slot will hold once the first i jobs are done, as far
as it can be known: not when its last write failed, or the process began from slots that one job had
written in part. Two facts about it are inductive. After any number of jobs the two slots are one
library cut in two (`Chained`), and that gives a restart, wherever it comes, a pair it can merge;
after all of them they are the library in memory (`LibraryFollows`), and that lets the next job leave
the slot of the other items alone. Both rest on the recent items being determined: every item is a
version somebody wrote and no two versions have one time (`Known`), which `Fresh` assumes of writes.
Where times may be equal, the order of the hash map decides, and the proof says nothing.

**`LibrarySyncProofs`**: `TypeCorrect` (`TypeOK`), `KeepsTheLatest` (`KeepsLatest`, the
refinement), `EditsAreKept` (`EditIsKept`) and `SyncsAgree` (`SyncAgrees`). `SyncInv` follows
versions: each in a library, in the datastore, in a request or an answer was written by somebody,
and none is later than the latest clock. Merging takes the later of two, so a library only moves on;
and what was pulled cannot be later than an edit of the device that is ahead of all. `SyncAgrees`
needs what becomes of an item between the four times a sync looks at the two sides: `AgreeInv` says
that every item not in `touched` is either settled, device and datastore agreeing on it, or awaited by
the one request under way that concerns it, whose contents are exactly what will settle it.

**`CtxSessionProofs`**: `TypeCorrect`, `KeyAndUser` (`KeyMatchesUser`), `BucketsFollow`
(`BucketsFollowProfile`), `EndsForCause` (`SessionEndsForCause`) and `SignsIn` (`SignsInAsAsked`, the refinement), each for
`TokenPulls = FALSE`: with tokens two of them are false, as `session_mixed` shows. The invariant adds
that every answered request is `Genuine`: an answer to `Auth` has a key that the API opened for the
account asked for, and an answer to `GetUser` the owner of the key it was sent with. From that, an
answer the profile accepts because the keys are equal can only bring the user it has. That a session
ends for a cause needs one thing more of answers: those that end it say that their key is not valid, and
since keys are opened once that stays true until they arrive (`OverInv`).

**`CtxAddonsProofs`**: `PushesOwn` (`UnforcedWasFetched`) and `Agrees` (`Agreement`), with tokens and
pushes while locked. An answer is accepted for its key, so `Keyed` says that one key has one account
wherever it is, in memory, in the slot or in a request; `Based` that an account whose add-ons are
neither locked nor of a token has its own. `Agreeing` says, while nothing drifted, that at most one
request is under way and what it will make of the two sides. `CollectionsAreUnique` (`TypeOK`), if
`OfficialUrls`: no collection ever has two add-ons of one url. Installing and upgrading replace what has the
url; bringing add-ons up to date puts the official version, with its url, in the place of
the one with its id, and gives two of one url if another add-on has that already. So the invariant (`Collected`)
says of every collection, of requests and of the API too, that each add-on has an id and a url that
belong together (`Known`), and the hypothesis that an official add-on's new version keeps its url.

**`AccountProofs`**, about the composition `AccountModels`: `AccountTypes` (`TypeOK`), `ShowsOwn`,
`AnswersLoading`, `InstallsOwnTrakt`, `SendsOwnEvents` and `Delivered` (both halves of
`DeliveredInOrder`). Each part has an inductive invariant of its own (`SessionInv`, `LinkInv`,
`ExportInv`, `DescriptorInv`), and a step of another part leaves its variables alone. For
`InstallsOwnTrakt` it says that the manifest waited for is of one of the `holders`. The session's is
with tokens too, unlike the theorems of `CtxSessionProofs`: what it says of requests (`Sound`) is only
that their answers are typed. That events arrive in order needs how the batches under way, pending
and queued relate to what has arrived (`DeliveryInv`): they continue one another, without a gap but
for events that were flushed or refused.

**`PlayerProofs`**, about `PlayerModels`: `PlayerTypes` (`TypeOK`), `OffersAreKept`
(`OffersHold`), `CountsOnce` (`WatchedOncePerLoad`), `ShowsOfVideo` (`ShownIsOfVideo`), and, while no clock is ahead (`NoneAhead`),
`EditsSurvive` (`EditsSurvivePlaying`), `LosesLittle` (`LossIsBounded`) and `Settles`
(`PlayerSettles`). With a clock ahead the latter three are false, and TLC shows it at once: the copy
that is handed over is rejected as older than what is in the library. A video's progress is in up to
four copies at once, in the player, in the library, and in messages either way. `CountedInv` says
which of them may be counted as watched again, and `EditInv` that the latest has what the user set;
`RoundsInv` bounds the messages that a delivery can still emit; `LossInv` relates the ticks played to
the position last pushed. For the resources, `ResourceInv` joins what the player waits for with the
requests under way (`WaitInv`), the next video with the one selected (`NextInv`), and the delay of the
subtitles with the stream it was set for (`DelayInv`).

`OffersAreKept` is about the other three parts, whose properties are of what pure code computes in states
that a few actions reach. So their invariants (`TransportInv`, `ViewsInv`, `LinksInv`) are short, and
the work is in lemmas about the computations.

* Transport: `TransportInv` says that what is asked and shown is told by what the add-on is and what it
  answered. That sorting with `Earlier` puts the seasons in order needs that this is an order (`EarlierIs`)
  and that a finite set in an order has one sequence (`RankedIs`, by counting what is before an element). That two things are
  never asked for alike (`TransportTells`) goes through the fields of a query one by one: ids of three
  prefixes, with and without a video, and the type and the file beside them, never give one query.
* Views: `ViewsInv` says that the field has a resource for each add-on, in the order of the collection, as
  what changes the profile plans it, and a row for each catalog (`PlannedIs`, `PlannedRowsAre`); and that the interface will
  be told (`ViewsAreTold`, which is inductive with that). What the views list is by `UniqueSeq`, `FlatIs`,
  `TakeIs` and `KeptSeq` what the pages, rows and resources have, without repetition.
* Links: `LinksInv` says of a link which stream it was shown for, and of the player what it converted. The core is
  `AgainIsTheSame`: what is converted is converted again to something played from the same url, whichever
  server there is by then, since a converted url is neither ftp nor magnet (`Settled`).

Assumed of the constants there: no add-on is twice in a collection nor a catalog on the board; ids differ in their
parts; a number is written in one way (with zeros in front `TellsApart` is false: `tt1:01:2` and
`tt1:1:2` are asked for alike); what a legacy add-on takes ids by is the first
part of such an id and the name of no other field of a query; numbers and dates of videos are numbers; and the
marks for none, Loading and failed are none of the values they stand beside.

**`CtxModelsProofs`**, about the composition `CtxModels`: five theorems from one invariant of each part.

* `MigratesSafely` (`MigrationIsSafe`). `ProfileInv` says which settings the profile has while the
  slot of the version says v and the data of v or v + 1 are written. `CleanInv` compares with a run
  that was never stopped: the slots are that run's at v or at v + 1. Its core is that every migration
  but three, done twice, is done once (`MigratedTwice`). What the uninterrupted run leaves is
  recursive in the version; that it is defined for each is shown by a least counterexample.
* `WhatIsStoredIsKept` (`StoredIsKept`) has three parts. `BucketsInv`: the last write of a slot in the
  queue, or the slot if none is there, has what Ctx holds (`QueueInv`), unless its last write failed.
  `WebInv` (`SlotInv`) follows a change of Ctx on its way through the message that will have it written,
  the write among effects, the task, the call to the main thread, and local storage; whichever
  stage is the last that has one has the present value. That needs `WritesFirst`: a
  write is delivered before the messages emitted with it. `WatchedInv` gives every list and every field
  its place in the sequence of all videos: the list shown is the part from the a-th to the b-th, the
  one written for is within it, and the anchor is at the same place of the sequence in both. From this
  the offset `construct_with_videos` computes is the number of videos that came in front, for bytes of
  any size. That the mark of a bit is found again needs every video to be listed once
  (`VideosAssumption`), and it is about lists that grow: `watched_shift` shows the other case.
* `WhatLoadsIsAnswered` (`LoadingIsAnswered`). Two catalogs of notifications may wait for the same
  answer, and an answer goes to the first of them. `AskedInv` assigns each that is Loading a request of
  its own, and when another takes the answer of that request, the two swap theirs.
* `CtxTypes` (`TypeOK`).
* `WhatHoldsIsShown` (`ShowsWhatHolds`) has three parts as well. For notifications, `ShownInv` says that
  what is shown of a title was released after it was dismissed, and that the library item was last
  watched no earlier than that. After a restart this must hold of two slots written by two jobs:
  `WrittenInv` says of either what the queue will leave in it (`Leaves`), and of the writes of the library
  from which value to which they take it (`Carries`), since an answer that comes late is compared with
  the library by then. Of events, what is dismissed is remembered with the bucket that every answer is
  compared with. For the runtime, `FieldInv`: a field the interface has not read is announced in an event
  queued, in a task, or by the effects in delivery. The library screen and the preview are computed by
  messages that are among the effects (`ShelfInv`, `PreviewInv`).

The constants' assumptions the proofs of `CtxModels` use are that an add-on's answer is never the mark for
Loading, that profiles, items and events are never the marks for none, and that settings' values
are not the broken profile; the program has them as different variants of an enumeration.

**`ScreenProofs`**, about the composition `ScreenModels`: five theorems, from one invariant of each part.

* `ScreensAreTyped` (`TypeOK`) and `WhatIsShownIsCurrent` (`ShownIsCurrent`): what a screen derives it
  computes anew in the very message that changes what it is derived from, but for notifications, of which
  the preview and the continue watching page have those at the last message they handle (`heard`). For
  the library that is `LibraryInv`, for the calendar `MonthInv`, for the server `ServerInv`, where each of the fields fetched
  belongs to the url, and the statistics to the torrent, that are chosen by then.
* `DetailsFollowAlways` (`DetailsFollow`). `ResourcesInv`: the resources are exactly those of the title and
  video selected and of the add-ons installed, in their order; streams, the library item and the rating
  follow (`DerivedIsCurrent`, `RatingInv`). The video guessed is that of the first add-on in the profile
  that knows one, in whatever order they answer. This is inductive once it also says that nothing is guessed
  while an add-on still loads, and that where none loads and nothing was guessed there is nothing to guess
  (`GuessInv`). It does not speak of a selection during which the profile changed (`stale`).
* `PagesAlwaysFollow` (`PagesFollow`). For catalogs: a page begins where the items of the one before end
  (`PagesOK`). An answer is put into the pages whose request and skip it has, so the proof
  needs that no two pages of a catalog have the same skip: since only a page that is not empty is followed
  by another, skips grow (`SkipsGrow`). For the board, rows differ in their first page. For the rows of the
  library (`RowsInv`): there is one for each type in the library, and it is the beginning of the sorted items
  of its type cut into pages, the last of which may be the empty one after its end. Two things carry it. The sorted items
  are determined by the items, since the keys they are sorted by order them all (`KeysDiffer`, `EarlierOrders`,
  `PlacesAreTaken`), so the page that is read next and the pages that a change of the library makes anew are of
  the same list; and a row is cut anew to full pages of what it showed (`ChunksAre`), so that what the next page
  skips is a multiple of the page's size, or the row has ended (`RowItems`, `NextRowPageIs`).
* `WhatLoadsIsUnderWay` (`LoadingIsAnswered`, so of all but statistics): `AnswersInv`, `FlightInv` and the requests of the other
  parts. A reload, an unload or another profile replaces what is Loading and leaves the old requests under
  way; the invariant says that for each that is Loading now there is one as well. Its one hypothesis is
  `RequestsAreNotFree`: no request of a catalog is the mark of a slot without one.

Assumed of the constants of `ScreenModels` is that a profile has an add-on once and a plan a request
once, that the marks for none, Loading, failed and a free slot are none of the values they stand beside,
that a page's number of items, if it has any, is positive, and of the items of the library that each
has its place in the map, a type, and numbers where it is sorted by numbers.

Only model-checked:

* The liveness `WaitingEnds`, which is beyond the prover.
* The disagreements of section 3, which are false.

## 5. Not modelled

* Views of add-ons, calendar, events, local search, export and streaming server, which hand out
  their field alone; links of screens, which format a request, and the escaping of names.
* Urls, encodings, JSON and compression, except where two things that differ could become one.
* Records whose fields only pass through; settings but for those migrations touch.
* Trakt's, seek-log and analytics events of the player, which no state of the player depends on,
  `LogoutTrakt` and `PushUserToAPI`, which change the user's data only.
* The order of an add-on collection; the marks within a library item in `LibraryStorage` (they
  are in `WatchedBits`, `PlayerProgress` and `MetaDetails`).
* In `LibraryStorage`, a user pulled with a token (models/ctx/update_profile.rs:374), which changes
  the profile's uid and leaves the library's: there the two differ until the next sign-in or
  sign-out, and `AccountIsolation` and `DrainedIsRecoverable`, which compare them, are for the rest.
  `CtxSession`, `CtxAddons` and `AddonDescriptors` have that answer.
* Lists of add-ons ("addon_catalog", types/addon/manifest.rs:115); newsgroup posts that name no
  server, whose conversion is an error as that of an archive without urls (types/resource/stream.rs:448).
* Two tabs of the web app over one local storage; small buckets that startup takes without
  comparing their uid to the profile's.

## 6. What would come next

1. The views and links left out: those of screens, whose links format a request that the screen reads again.
2. A product rather than a union where components do share state beyond what their modules have:
   `CtxSession` with `CtxBuckets` over one storage, for the uids of the small buckets.
