------------------------------- MODULE Catalogs -------------------------------
(***************************************************************************)
(* The catalogs of add-ons, page by page: Discover, one catalog with its   *)
(* filters (src/models/catalog_with_filters.rs), and the board and the     *)
(* search, the first catalogs of all add-ons                               *)
(* (src/models/catalogs_with_extra.rs).                                    *)
(*                                                                         *)
(* A page is [request, skip, content]: how many items it skips is kept     *)
(* apart from the other extra values of its request, and the content that  *)
(* is Ready is the number of its items, never 0: an empty page is an       *)
(* error.  An answer goes to both models, whichever of them asked.         *)
(***************************************************************************)
EXTENDS Loadables, AddonRequests

CONSTANTS
  Profiles,     \* bound: the add-on collections there may be
  TypeOrder,    \* the types, in the order of compare_with_priorities
  Boards,       \* bound: the [extra, types] that a board or a search is opened with
  PageSizes,    \* bound: how many items a page may have
  MaxPages      \* bound: pages of one catalog

PagesAssumption == PageSizes \subseteq Nat \ {0} /\ PageSizes \cap {None, Loading, Failed} = {}

VARIABLES
  profile,                 \* ctx.profile.addons
  selected, selectable, catalog,   \* CatalogWithFilters
  board, catalogs,                 \* CatalogsWithExtra: selected, catalogs
  pages                    \* requests under way

catalogVars == <<profile, selected, selectable, catalog, board, catalogs, pages>>
discover == <<selected, selectable, catalog>>
rows == <<board, catalogs>>

\* A request and the value of skip among its extra values, 0 without.
From(request, skip) == [request |-> request, skip |-> skip]

Page(at, content) == [request |-> at.request, skip |-> at.skip, content |-> content]
NewPage(at) == Page(at, Loading)

IsOf(page, at) == From(page.request, page.skip) = at

Ready(page) == page.content \in PageSizes

\* The items of some pages together.
Items(shown) ==
  LET sum[n \in 0 .. Len(shown)] == IF n = 0 THEN 0 ELSE sum[n - 1] + shown[n].content
  IN sum[Len(shown)]

AddonOf(addons, request) == First(addons, LAMBDA addon : addon.url = request.base)

ManifestCatalogOf(addons, request) ==
  FlatMap(AddonOf(addons, request), LAMBDA addon :
    First(addon.catalogs, LAMBDA c : c.id = request.id /\ c.type = request.type))

HasSkip(addons, request) ==
  \E c \in ToSet(ManifestCatalogOf(addons, request)) : "skip" \in Names(c.extra)
-----------------------------------------------------------------------------
\* The catalogs there are to select from, each with the extra values it needs.
AllSelectable(addons) ==
  FlatMap(addons, LAMBDA addon :
    FlatMap(addon.catalogs, LAMBDA c :
      IF DefaultRequiredExtra(c) = {} THEN <<>>
      ELSE <<Request(addon.url, "catalog", c.type, c.id, CHOOSE e \in DefaultRequiredExtra(c) : TRUE)>>))

\* The first catalog of every type.
SelectableTypes(all) ==
  FlatMap(TypeOrder, LAMBDA type : First(all, LAMBDA request : request.type = type))

\* The filters of the selected catalog: each option with the request it leads to.
SelectableExtra(chosen, c) ==
  FlatMap(c.extra, LAMBDA prop :
    IF prop.name = "skip" \/ prop.options = <<>> THEN <<>>
    ELSE <<[name |-> prop.name,
            options |->
              {[chosen EXCEPT !.extra = ExtendOne(chosen.extra, prop, prop.options[i])] : i \in DOMAIN prop.options}
              \cup (IF prop.required THEN {} ELSE {[chosen EXCEPT !.extra = ExtendNone(chosen.extra, prop)]})]>>)

\* The page after the ones that are all there.
NextPage(chosen, shown, addons) ==
  IF HasSkip(addons, chosen) /\ \A i \in DOMAIN shown : Ready(shown[i])
    THEN From(chosen, Items(shown))
    ELSE None

\* selectable_update for catalogs of meta items.
Selectable(chosen, shown, addons) ==
  LET all == AllSelectable(addons)
      own == IF chosen = None THEN <<>> ELSE ManifestCatalogOf(addons, chosen)
  IN [types |-> SelectableTypes(all),
      catalogs |-> SelectSeq(all, LAMBDA request : chosen = None \/ request.type = chosen.type),
      extra |-> FlatMap(own, LAMBDA c : SelectableExtra(chosen, c)),
      next_page |-> IF own = <<>> THEN None ELSE NextPage(chosen, shown, addons)]

SelectableUpdate == selectable' = Selectable(selected', catalog', profile')
-----------------------------------------------------------------------------
\* ActionLoad::CatalogWithFilters: the default is the first selectable type's.  Without
\* any the pages stay.
LoadDiscover(request) ==
  /\ selected' = IF request # None THEN [request EXCEPT !.extra = RemoveAll(@, "skip")]
                 ELSE IF selectable.types = <<>> THEN None ELSE selectable.types[1]
  /\ IF selected' = None THEN UNCHANGED <<catalog, pages>>
     ELSE catalog' = <<NewPage(From(selected', 0))>> /\ pages' \in Sent(pages, From(selected', 0))
  /\ UNCHANGED <<profile, rows>>
  /\ SelectableUpdate

\* Changed: what is selectable is not recomputed.
NextDiscoverPage_StaysSelectable ==
  /\ selectable.next_page # None /\ Len(catalog) < MaxPages
  /\ catalog' = Append(catalog, NewPage(selectable.next_page))
  /\ pages' \in Sent(pages, selectable.next_page)
  /\ UNCHANGED <<profile, selected, rows, selectable>>

\* ActionCatalogWithFilters::LoadNextPage
NextDiscoverPage ==
  /\ selectable.next_page # None /\ Len(catalog) < MaxPages
  /\ catalog' = Append(catalog, NewPage(selectable.next_page))
  /\ pages' \in Sent(pages, selectable.next_page)
  /\ UNCHANGED <<profile, selected, rows>>
  /\ SelectableUpdate

\* Action::Unload
UnloadDiscover ==
  /\ selected' = None /\ catalog' = <<>>
  /\ UNCHANGED <<profile, pages, rows>>
  /\ SelectableUpdate
-----------------------------------------------------------------------------
\* The first pages of the catalogs that have the extra values (and the type).
Plan(addons, e) == PlanAllCatalogs(addons, e.extra, e.types)

\* selected_update of CatalogsWithExtra
Opened(e) == [e EXCEPT !.extra = RemoveAll(@, "skip")]

\* An add-on is in a profile once, and a catalog in its manifest.
PlansAssumption ==
  /\ \A addons \in Profiles, e \in Boards :
       LET plan == Plan(addons, Opened(e)) IN IsInjective(plan) /\ DOMAIN plan = 1 .. Len(plan)
  /\ None \notin {Opened(e) : e \in Boards}

\* catalogs_update, the catalogs in a range of the plan being asked for: a catalog
\* whose first page was asked for already stays as it is, with all its pages.
\* No two catalogs have the same first page.
Updated(addons, e, known, range) ==
  LET plan == Plan(addons, e) IN
  [i \in DOMAIN plan |->
     LET old == {c \in ToSet(known) : c[1].request = plan[i] /\ c[1].content # None} IN
     IF old # {} THEN CHOOSE c \in old : TRUE
     ELSE <<Page(From(plan[i], 0), IF i - 1 \in range THEN Loading ELSE None)>>]

\* The requests that are new when the catalogs become these.
Asked(known, next) ==
  {From(next[i][1].request, 0) : i \in {j \in DOMAIN next :
      next[j][1].content = Loading /\ next[j] \notin ToSet(known)}}

\* ActionLoad::CatalogsWithExtra
LoadBoard(e) ==
  /\ board' = Opened(e)
  /\ catalogs' = Updated(profile, board', catalogs, {})
  /\ UNCHANGED <<profile, discover, pages>>

\* ActionCatalogsWithExtra::LoadRange: the end of the range is loaded too.
LoadRange(start, end) ==
  /\ board # None
  /\ catalogs' = Updated(profile, board, catalogs, start .. end)
  /\ pages' \in SentAll(pages, Asked(catalogs, catalogs'))
  /\ UNCHANGED <<profile, discover, board>>

\* ActionCatalogsWithExtra::LoadNextPage
NextBoardPage(index) ==
  /\ index \in DOMAIN catalogs /\ Len(catalogs[index]) < MaxPages
  /\ LET last == Last(catalogs[index])
         request == From(last.request, last.skip + last.content)
     IN /\ Ready(last) /\ HasSkip(profile, last.request)
        /\ catalogs' = [catalogs EXCEPT ![index] = Append(@, NewPage(request))]
        /\ pages' \in Sent(pages, request)
  /\ UNCHANGED <<profile, discover, board>>

\* Action::Unload
UnloadBoard ==
  /\ board' = None /\ catalogs' = <<>>
  /\ UNCHANGED <<profile, discover, pages>>
-----------------------------------------------------------------------------
\* resource_update_with_vector_content of one page: taken while it is loading.
Taken(page, at, result) == IF page = NewPage(at) THEN Page(at, result) ELSE page

\* The index of the first element that passes a test, if there is one.
FirstIndex(s, Test(_)) == {i \in DOMAIN s : Test(s[i]) /\ \A j \in DOMAIN s : j < i => ~Test(s[j])}

\* Internal::ResourceRequestResult: to the first page of Discover with the request and
\* to the first catalog of the board whose last page has it.
ResourceRequestResult(s, result) ==
  /\ pages[s] # Free
  /\ LET page == FirstIndex(catalog, LAMBDA p : IsOf(p, pages[s]))
         row == FirstIndex(catalogs, LAMBDA c : IsOf(Last(c), pages[s]))
     IN /\ catalog' = [i \in DOMAIN catalog |->
                         IF i \in page THEN Taken(catalog[i], pages[s], result) ELSE catalog[i]]
        /\ catalogs' = [i \in DOMAIN catalogs |->
                         IF i \in row THEN [catalogs[i] EXCEPT ![Len(catalogs[i])] = Taken(@, pages[s], result)]
                                      ELSE catalogs[i]]
  /\ pages' = Ended(pages, s)
  /\ UNCHANGED <<profile, selected, board>>
  /\ SelectableUpdate

\* Changed: the catalogs of the board stay.
ProfileChanged_BoardStays(addons) ==
  /\ profile' = addons
  /\ UNCHANGED <<selected, catalog, rows, pages>>
  /\ SelectableUpdate

\* Internal::ProfileChanged, with another collection of add-ons.
ProfileChanged(addons) ==
  /\ profile' = addons
  /\ catalogs' = IF board = None THEN <<>> ELSE Updated(addons, board, catalogs, {})
  /\ UNCHANGED <<selected, catalog, board, pages>>
  /\ SelectableUpdate
-----------------------------------------------------------------------------
Init ==
  /\ profile \in Profiles
  /\ selected = None /\ catalog = <<>> /\ selectable = Selectable(None, <<>>, profile)
  /\ board = None /\ catalogs = <<>>
  /\ pages = NoFlight

Next ==
  \/ NextDiscoverPage \/ UnloadDiscover \/ UnloadBoard
  \/ \E request \in ToSet(AllSelectable(profile)) \cup {None} : LoadDiscover(request)
  \/ \E i \in DOMAIN selectable.extra : \E request \in selectable.extra[i].options : LoadDiscover(request)
  \/ \E e \in Boards : LoadBoard(e)
  \/ \E start, end \in DOMAIN catalogs : LoadRange(start - 1, end - 1)
  \/ \E index \in DOMAIN catalogs : NextBoardPage(index)
  \/ \E s \in Slots, result \in PageSizes \cup {Failed} : ResourceRequestResult(s, result)
  \/ \E addons \in Profiles \ {profile} : ProfileChanged(addons)

Spec == Init /\ [][Next]_catalogVars
-----------------------------------------------------------------------------
\* Pages that follow each other: all but the last are there, and each begins where
\* the one before it ends.
Follow(shown) ==
  \A i \in DOMAIN shown :
    /\ shown[i].request = shown[1].request
    /\ IF i = 1 THEN shown[i].skip = 0
       ELSE Ready(shown[i - 1]) /\ shown[i].skip = shown[i - 1].skip + shown[i - 1].content

TypeOK ==
  /\ profile \in Profiles
  /\ board \in Option({Opened(e) : e \in Boards})
  /\ \A i \in DOMAIN catalogs : catalogs[i] # <<>>

\* Discover shows the pages of the selected catalog one after another, without one
\* missing, twice or begun at the wrong item, however often the user asks for the
\* next one, and offers the one that follows (catalog_with_filters.rs:478).
DiscoverPagesFollow ==
  /\ Follow(catalog)
  /\ selected # None => catalog # <<>> /\ catalog[1].request = selected
  /\ selectable.next_page # None =>
       Follow(Append(catalog, NewPage(selectable.next_page)))

\* So does each row of the board, ending at the first page that failed.
BoardPagesFollow == \A i \in DOMAIN catalogs : Follow(catalogs[i])

\* The board has the catalogs of the add-ons installed now, in their order.
BoardIsOfProfile ==
  LET plan == IF board = None THEN <<>> ELSE Plan(profile, board) IN
  DOMAIN catalogs = DOMAIN plan /\ \A i \in DOMAIN plan : catalogs[i][1].request = plan[i]

\* A page that is Loading will be answered.
PagesAreAnswered ==
  /\ \A i \in DOMAIN catalog :
    catalog[i].content = Loading => UnderWay(pages, From(catalog[i].request, catalog[i].skip))
  /\ \A i \in DOMAIN catalogs :
       LET last == Last(catalogs[i]) IN
       last.content = Loading => UnderWay(pages, From(last.request, last.skip))
=============================================================================
