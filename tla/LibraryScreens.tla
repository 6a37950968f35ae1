---------------------------- MODULE LibraryScreens ----------------------------
(***************************************************************************)
(* The screens that list items of the library: the library and the         *)
(* continue watching page with filters                                     *)
(* (src/models/library_with_filters.rs), the rows by type                  *)
(* (src/models/library_by_type.rs), the continue watching preview          *)
(* (src/models/continue_watching_preview.rs) and the installed add-ons     *)
(* (src/models/installed_addons_with_filters.rs).                          *)
(*                                                                         *)
(* Each keeps a list of its own, and recomputes it from Ctx on the         *)
(* messages it handles.  The profile, the library and the notifications    *)
(* change in Ctx first; the messages about it follow in the same step.     *)
(***************************************************************************)
EXTENDS Integers, FiniteSets, Sequences, SequencesExt

CONSTANTS
  None,         \* Option::None
  Ids,          \* items of the library, in the order of their names
  Versions,     \* bound: what an item of each id may look like
  TypeOrder,    \* the types, in the order of compare_with_priorities
  Releases,     \* bound: release dates of the videos that notifications are about
  Sorts,        \* bound: the sorts that are chosen
  Chosen,       \* bound: the types that are chosen, None for all
  PageSize,     \* CATALOG_PAGE_SIZE
  PreviewSize,  \* CATALOG_PREVIEW_SIZE
  Profiles      \* bound: the add-on collections, each the types of its add-ons

PageSizeAssumption == PageSize \in Nat \ {0} /\ PreviewSize \in Nat

Screens == {"library", "continue_watching"}
Position(id) == CHOOSE i \in DOMAIN Ids : Ids[i] = id
Id == ToSet(Ids)

ItemsAssumption ==
  /\ Ids \in Seq(Id) /\ IsInjective(Ids)
  /\ TypeOrder \in Seq(ToSet(TypeOrder)) /\ IsInjective(TypeOrder)
  /\ \A id \in Id : \A item \in Versions[id] :
       /\ item # None /\ item.type \in ToSet(TypeOrder)
       /\ {item.last_watched, item.times_watched, item.ctime} \subseteq Int
SortsAssumption ==
  /\ Sorts \subseteq {"LastWatched", "TimesWatched", "Watched", "NotWatched", "Name", "NameReverse"}
  /\ None \notin Sorts

VARIABLES
  library,         \* ctx.library.items: by id, None without
  notifications,   \* ctx.notifications.items: the release dates, by id
  addons,          \* ctx.profile.addons: the types of each
  screens,         \* LibraryWithFilters: selected request, next page, catalog
  sort, catalogs,  \* LibraryByType
  preview,         \* ContinueWatchingPreview
  type, installed, \* InstalledAddonsWithFilters; type is "none" while it is unloaded
  heard            \* history: by list, the notifications there were at the last message it handles

screenVars == <<library, notifications, addons, screens, sort, catalogs, preview, type, installed, heard>>
ctx == <<library, notifications, addons>>
byType == <<sort, catalogs>>
installedAddons == <<type, installed>>
-----------------------------------------------------------------------------
InLibrary(items) == {id \in Id : items[id] # None}

\* LibraryItem::is_in_continue_watching
IsInContinueWatching(item) == item.type # "other" /\ (~item.removed \/ item.temp) /\ item.time_offset > 0

\* LibraryFilter::predicate of NotRemovedFilter and of ContinueWatchingFilter.
Predicate(screen, items, notified, id) ==
  IF screen = "library" THEN ~items[id].removed
  ELSE IsInContinueWatching(items[id]) \/ notified[id] # {}

\* The elements of a set one after the other: each has its place by how many are before.
Ranked(set, Before(_, _)) ==
  [n \in 1 .. Cardinality(set) |->
     CHOOSE e \in set : Cardinality({d \in set : Before(d, e)}) = n - 1]

Earlier(p, q) ==
  \E i \in DOMAIN p : p[i] < q[i] /\ \A j \in 1 .. i - 1 : p[j] = q[j]

\* Sort::sort_items, as a key; items that compare equal keep the order of the map,
\* which the order of the ids stands for.
SortKey(by, id, item) ==
  CASE by = "LastWatched"  -> <<-item.last_watched, Position(id)>>
    [] by = "TimesWatched" -> <<-item.times_watched, Position(id)>>
    [] by = "Watched"    -> <<IF item.times_watched > 0 THEN 0 ELSE 1, -item.last_watched, -item.ctime, Position(id)>>
    [] by = "NotWatched" -> <<IF item.times_watched > 0 THEN 1 ELSE 0, item.last_watched, item.ctime, Position(id)>>
    [] by = "Name"        -> <<Position(id)>>
    [] by = "NameReverse" -> <<-Position(id)>>

Sorted(by, items, ids) ==
  Ranked(ids, LAMBDA a, b : Earlier(SortKey(by, a, items[a]), SortKey(by, b, items[b])))

Take(s, n) == SubSeq(s, 1, IF n < Len(s) THEN n ELSE Len(s))
-----------------------------------------------------------------------------
\* The items of a request, of any type when it has none.
Selection(screen, request, items, notified) ==
  {id \in InLibrary(items) :
     Predicate(screen, items, notified, id) /\ request.type \in {None, items[id].type}}

\* The types of the items that pass the filter.
TypesOf(screen, items, notified) ==
  {items[id].type : id \in {i \in InLibrary(items) : Predicate(screen, items, notified, i)}}

\* compare_with_priorities
Above(t, u) == \E i, j \in DOMAIN TypeOrder : i < j /\ TypeOrder[i] = t /\ TypeOrder[j] = u
InOrder(types) == Ranked(types, Above)

\* selectable_update and catalog_update: the next page exists when an item is after
\* the pages shown, and the catalog holds all of them.
Updated(screen, request, items, notified) ==
  LET ids == IF request = None THEN {} ELSE Selection(screen, request, items, notified)
  IN [selected |-> request,
      types |-> InOrder(TypesOf(screen, items, notified)),
      next_page |-> IF request # None /\ Cardinality(ids) > request.page * PageSize
                      THEN [request EXCEPT !.page = @ + 1] ELSE None,
      catalog |-> IF request = None THEN <<>>
                  ELSE Take(Sorted(request.sort, items, ids), request.page * PageSize)]

\* The pages that so many items make, and those of a list, all but the last full.
Pages(n) == (n + PageSize - 1) \div PageSize
PageAt(s, j) == SubSeq(s, (j - 1) * PageSize + 1, IF j * PageSize < Len(s) THEN j * PageSize ELSE Len(s))
Chunks(s) == [j \in 1 .. Pages(Len(s)) |-> PageAt(s, j)]

\* How many items a row shows.
Items(row) ==
  LET sum[n \in 0 .. Len(row)] == IF n = 0 THEN 0 ELSE sum[n - 1] + Len(row[n])
  IN sum[Len(row)]

OfType(items, t) == {id \in InLibrary(items) : Predicate("library", items, <<>>, id) /\ items[id].type = t}

\* What the row of a type shows, by its first item, as it was before.
ShownOf(rows, items, t) ==
  LET row == {i \in DOMAIN rows : items[rows[i][1][1]].type = t} IN
  IF row = {} THEN 0 ELSE Items(rows[CHOOSE i \in row : TRUE])

\* catalogs_update: as many pages of each type as are shown.
Rows(rows, by, before, items) ==
  LET types == InOrder(TypesOf("library", items, <<>>)) IN
  [i \in DOMAIN types |->
     LET shown == ShownOf(rows, before, types[i])
         pages == IF shown = 0 THEN 1 ELSE Pages(shown)
     IN Chunks(Take(Sorted(by, items, OfType(items, types[i])), pages * PageSize))]

\* library_items_update of the preview, cut to its size: the newest release that was notified counts,
\* else the time the item changed.
PreviewTime(items, notified, id) ==
  IF notified[id] = {} THEN items[id].mtime
  ELSE CHOOSE released \in notified[id] : \A other \in notified[id] : other <= released

PreviewItems(items, notified) ==
  Take(Ranked({id \in InLibrary(items) : Predicate("continue_watching", items, notified, id)},
         LAMBDA a, b : Earlier(<<-PreviewTime(items, notified, a), Position(a)>>,
                               <<-PreviewTime(items, notified, b), Position(b)>>)),
       PreviewSize)

\* Internal::LibraryChanged
ScreensChanged == screens' = [s \in Screens |-> Updated(s, screens[s].selected, library', notifications')]

LibraryChanged ==
  /\ ScreensChanged
  /\ catalogs' = IF sort = None THEN <<>> ELSE Rows(catalogs, sort, library, library')
  /\ UNCHANGED <<sort, installedAddons>>

\* Internal::NotificationsChanged, and LibraryChanged(true): for the preview only.
PreviewChanged == preview' = PreviewItems(library', notifications')

\* The lists whose items depend on notifications, and those that a message reaches.
Lists == {"preview", "continue_watching"}
Reaches(lists) == heard' = [l \in Lists |-> IF l \in lists THEN notifications' ELSE heard[l]]

\* LibraryItem::should_pull_notifications and update_notification_items: what the
\* notifications may be when they are computed anew from library and catalogs, or
\* from those there were.
ShouldPullNotifications(item) ==
  item # None /\ item.type \notin {"other", "movie"} /\ ~item.removed /\ ~item.temp

NotificationItems ==
  {notified \in [Id -> SUBSET Releases] : \A id \in Id : \A released \in notified[id] :
     ShouldPullNotifications(library[id]) /\ library[id].last_watched < released}
-----------------------------------------------------------------------------
\* An item changes or comes from the API: Internal::LibraryChanged(true).
UpdateLibraryItem(id, item) ==
  /\ library' = [library EXCEPT ![id] = item]
  /\ UNCHANGED <<notifications, addons>>
  /\ LibraryChanged /\ PreviewChanged /\ Reaches(Lists)

\* Internal::Logout and Internal::CtxAuthResult: the library is replaced, which is
\* LibraryChanged(false); the notifications are always new, for their date is.
Replaced(items) ==
  /\ library' = items /\ notifications' = [id \in Id |-> {}]
  /\ UNCHANGED addons
  /\ LibraryChanged /\ PreviewChanged /\ Reaches(Lists)

\* Internal::ResourceRequestResult for the catalogs of new videos: NotificationsChanged
\* reaches the preview, and no LibraryWithFilters.
ResourceRequestResult(notified) ==
  /\ notifications' = notified
  /\ UNCHANGED <<library, addons, screens, byType, installedAddons>>
  /\ PreviewChanged /\ Reaches({"preview"})

\* Internal::PullNotifications computes them anew as well, and tells nobody.
PullNotifications(notified) ==
  /\ notifications' = notified
  /\ UNCHANGED <<library, addons, screens, byType, preview, installedAddons>>
  /\ Reaches({})

\* Internal::DismissNotificationItem: the item was last watched now, after the releases.
DismissNotificationItem(id, item) ==
  /\ notifications[id] # {} /\ library[id] # None
  /\ item = [library[id] EXCEPT !.last_watched = item.last_watched, !.mtime = item.mtime]
  /\ \A released \in notifications[id] : released <= item.last_watched
  /\ notifications' = [notifications EXCEPT ![id] = {}]
  /\ library' = [library EXCEPT ![id] = item]
  /\ UNCHANGED addons
  /\ LibraryChanged /\ PreviewChanged /\ Reaches(Lists)

\* ActionLoad::LibraryWithFilters and Action::Unload
LoadScreen(screen, request) ==
  /\ screens' = [screens EXCEPT ![screen] = Updated(screen, request, library, notifications)]
  /\ UNCHANGED <<ctx, byType, preview, installedAddons>>
  /\ Reaches({screen})

\* ActionLibraryWithFilters::LoadNextPage
NextScreenPage(screen) ==
  /\ screens[screen].next_page # None
  /\ LoadScreen(screen, screens[screen].next_page)

\* ActionLoad::LibraryByType: the pages that are shown already count.
LoadByType(by) ==
  /\ sort' = by /\ catalogs' = Rows(catalogs, by, library, library)
  /\ UNCHANGED <<ctx, screens, preview, installedAddons, heard>>

UnloadByType ==
  /\ sort' = None /\ catalogs' = <<>>
  /\ UNCHANGED <<ctx, screens, preview, installedAddons, heard>>

\* ActionLibraryByType::LoadNextPage: after a full page, also when it was the last.
NextRowPage(index) ==
  /\ index \in DOMAIN catalogs /\ Len(Last(catalogs[index])) = PageSize
  /\ LET ids == OfType(library, library[catalogs[index][1][1]].type)
         skip == Items(catalogs[index])
     IN catalogs' = [catalogs EXCEPT ![index] =
          Append(@, Take(SubSeq(Sorted(sort, library, ids), skip + 1, Cardinality(ids)), PageSize))]
  /\ UNCHANGED <<ctx, screens, sort, preview, installedAddons, heard>>

\* InstalledAddonsWithFilters: selectable types and the add-ons that have the type.
Installed(t, collection) ==
  [types |-> SelectSeq(TypeOrder, LAMBDA u : \E i \in DOMAIN collection : u \in collection[i]),
   catalog |-> IF t = "none" THEN <<>> ELSE SelectSeq(collection, LAMBDA ts : t = None \/ t \in ts)]

\* ActionLoad::InstalledAddonsWithFilters and Action::Unload
LoadInstalled(t) ==
  /\ type' = t /\ installed' = Installed(t, addons)
  /\ UNCHANGED <<ctx, screens, byType, preview, heard>>

\* Internal::ProfileChanged
ProfileChanged(collection) ==
  /\ addons' = collection /\ installed' = Installed(type, collection)
  /\ UNCHANGED <<library, notifications, screens, byType, preview, type, heard>>
-----------------------------------------------------------------------------
Empty == [id \in Id |-> None]

Init ==
  /\ library = Empty /\ notifications = [id \in Id |-> {}] /\ addons \in Profiles
  /\ screens = [s \in Screens |-> Updated(s, None, library, notifications)]
  /\ sort = None /\ catalogs = <<>>
  /\ preview = PreviewItems(library, notifications)
  /\ type = "none" /\ installed = Installed("none", addons)
  /\ heard = [l \in Lists |-> notifications]

Requests == [type : Chosen, sort : Sorts, page : {1}]

Next ==
  \/ \E id \in Id : \E item \in Versions[id] : UpdateLibraryItem(id, item)
  \/ \E items \in {Empty} \cup {[Empty EXCEPT ![id] = item] : id \in Id, item \in UNION {Versions[id] : id \in Id}} :
       (\A id \in Id : items[id] \in Versions[id] \cup {None}) /\ Replaced(items)
  \/ \E notified \in NotificationItems : ResourceRequestResult(notified) \/ PullNotifications(notified)
  \/ \E id \in Id : \E item \in Versions[id] : DismissNotificationItem(id, item)
  \/ \E screen \in Screens : \E request \in Requests \cup {None} : LoadScreen(screen, request)
  \/ \E screen \in Screens : NextScreenPage(screen)
  \/ \E by \in Sorts : LoadByType(by)
  \/ UnloadByType
  \/ \E index \in DOMAIN catalogs : NextRowPage(index)
  \/ \E t \in Chosen \cup {"none"} : LoadInstalled(t)
  \/ \E collection \in Profiles \ {addons} : ProfileChanged(collection)

Spec == Init /\ [][Next]_screenVars
-----------------------------------------------------------------------------
\* The library page and the installed add-ons show what Ctx has now.  The preview and
\* the continue watching page show the library as it is now, the preview although it
\* ignores LibraryChanged(false) (continue_watching_preview.rs:46); their notifications
\* are those at the last message they handle, and nothing older.  A pull that changes
\* notifications sends none (update_notifications.rs:117), and NotificationsChanged
\* does not reach the page (library_with_filters.rs:235): until the next message both
\* may list what is notified no more, or lack what is.
ScreensAreCurrent ==
  /\ screens["library"] = Updated("library", screens["library"].selected, library, notifications)
  /\ installed = Installed(type, addons)
  /\ preview = PreviewItems(library, heard["preview"])
  /\ screens["continue_watching"] =
       Updated("continue_watching", screens["continue_watching"].selected, library, heard["continue_watching"])

\* There is a row for each type in the library, in their order, and its pages are those
\* of the items of the type from the first on, sorted and without a gap, all but the last
\* full; no row begins with an empty page (library_by_type.rs:93 and :148 would stop the
\* program).
RowsArePaged ==
  LET types == IF sort = None THEN <<>> ELSE InOrder(TypesOf("library", library, <<>>)) IN
  /\ Len(catalogs) = Len(types)
  /\ \A i \in DOMAIN catalogs :
       LET row == catalogs[i]
           sorted == Sorted(sort, library, OfType(library, types[i]))
       IN /\ row # <<>> /\ row[1] # <<>>
          /\ \A j \in DOMAIN row : row[j] = PageAt(sorted, j)
          /\ \A j \in 1 .. Len(row) - 1 : Len(row[j]) = PageSize
=============================================================================
