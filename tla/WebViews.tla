------------------------------ MODULE WebViews -------------------------------
(***************************************************************************)
(* What the interface of the web app is given when it asks for a field of  *)
(* the model (get_state, stremio-core-web/src/model/serialize_*.rs): a     *)
(* view made of the field, of Ctx and of the model of the streaming        *)
(* server.  It is told which fields changed and asks again.  A behaviour   *)
(* is of one screen.                                                       *)
(***************************************************************************)
EXTENDS AddonRequests

CONSTANTS
  None, Loading, Failed,
  Screens,     \* screens to look at
  Collections, \* add-ons installed: sequences of transport urls
  Lists,       \* [url -> catalogs in its manifest]
  Rows,        \* catalogs of the board: [base, list]
  Titles, Title, \* titles; the one whose details are shown, or that is played
  Entries,     \* [title -> library items there may be: None or [removed, video, progress]]
  Videos,      \* videos of the title
  Metas,       \* answers for the title: [links, inline], sequences
  Streams,     \* answers for streams: sets
  Pages,       \* pages of a catalog: sequences of titles
  MaxPages,    \* bound: pages asked for
  PreviewSize  \* CATALOG_PREVIEW_SIZE: titles in a row of the board

VARIABLES
  screen, addons, library, streams, base_url,  \* Ctx and the model of the streaming server
  model,                                       \* the field of the screen
  told,                                        \* fields announced since the view was read
  untold                                       \* history: what changed the view without its field

OfLibrary == {"library", "continue_watching_preview"}   \* screens of library items

viewVars == <<screen, addons, library, streams, base_url, model, told, untold>>

\* What views are made of besides the field.
Ctx == [addons |-> addons, library |-> library, streams |-> streams, base_url |-> base_url]

Ready(content) == content \notin {None, Loading, Failed}
Resource(base, content) == [base |-> base, content |-> content]
Installed(ctx, base) == base \in Range(ctx.addons)
OfInstalled(ctx, resources) == Kept(resources, {i \in DOMAIN resources : Installed(ctx, resources[i].base)})

\* Elements in their order, each where it is first.
Unique(s) ==
  LET first == {i \in DOMAIN s : \A j \in 1 .. i - 1 : s[j] # s[i]}
  IN Kept(s, first)
Take(s, n) == SubSeq(s, 1, IF Len(s) < n THEN Len(s) ELSE n)

\* What sequences have, one after the other.
Flat(seqs) ==
  LET places == UNION {{i} \X DOMAIN seqs[i] : i \in DOMAIN seqs}
      before(p, q) == p[1] < q[1] \/ (p[1] = q[1] /\ p[2] < q[2])
      at == Ranked(places, {pair \in places \X places : before(pair[1], pair[2])})
  IN [n \in DOMAIN at |-> seqs[at[n][1]][at[n][2]]]

FirstOf(places) == CHOOSE i \in places : \A j \in places : i <= j

InLibrary(ctx, id) == ctx.library[id] # None /\ ~ctx.library[id].removed
Progress(ctx, v) ==
  LET item == ctx.library[Title] IN IF item # None /\ item.video = v THEN item.progress ELSE None

\* The first answer that is there; the first error once all are; or one awaited.
ChosenMeta(field) ==
  LET ready == {i \in DOMAIN field.items : Ready(field.items[i].content)}
      awaited == {i \in DOMAIN field.items : field.items[i].content = Loading}
      among == IF ready # {} THEN ready ELSE IF awaited # {} THEN awaited ELSE DOMAIN field.items
  IN IF among = {} THEN None ELSE field.items[FirstOf(among)]

\* Of a title, whose add-on is installed: videos with their progress and links.
MetaView(field, ctx) ==
  LET c == ChosenMeta(field) IN
  IF c = None \/ (c # None /\ ~Installed(ctx, c.base)) THEN None
  ELSE IF ~Ready(c.content) THEN c.content
  ELSE [base |-> c.base, in_library |-> InLibrary(ctx, Title), server |-> ctx.base_url,
        videos |-> [v \in Videos |-> Progress(ctx, v)]]

\* The streams that came with the video, or else those of the add-ons for it.
StreamGroups(field) ==
  LET c == ChosenMeta(field) IN
  IF c # None /\ Ready(c.content) /\ c.content.inline # {}
  THEN <<Resource(c.base, c.content.inline)>> ELSE field.groups

\* One that was played of the video in the library item has that one's progress.
StreamView(ctx, s) ==
  [stream |-> s, server |-> ctx.base_url,
   progress |-> IF ctx.library[Title] # None /\ <<s, ctx.library[Title].video>> \in ctx.streams
                THEN ctx.library[Title].progress ELSE None]
StreamsView(field, ctx) ==
  LET groups == OfInstalled(ctx, StreamGroups(field)) IN
  [i \in DOMAIN groups |->
     LET r == groups[i] IN
     Resource(r.base, IF Ready(r.content) THEN {StreamView(ctx, s) : s \in r.content} ELSE r.content)]

ExtensionsView(field, ctx) ==
  LET has(r) == Installed(ctx, r.base) /\ Ready(r.content)
      ready == Kept(field.items, {i \in DOMAIN field.items : has(field.items[i])})
  IN Unique(Flat([i \in DOMAIN ready |-> ready[i].content.links]))

MetaDetailsView(field, ctx) ==
  [meta |-> MetaView(field, ctx), streams |-> StreamsView(field, ctx), extensions |-> ExtensionsView(field, ctx)]

Preview(ctx, id) == [id |-> id, in_library |-> InLibrary(ctx, id), server |-> ctx.base_url]
Previews(ctx, ids) == [i \in DOMAIN ids |-> Preview(ctx, ids[i])]

\* The pages there are, as one list, once the first is; whether or not its add-on is
\* installed, which is told beside it.
DiscoverView(field, ctx) ==
  LET first == field.pages[1]
      ready == Kept(field.pages, {i \in DOMAIN field.pages : Ready(field.pages[i])})
  IN IF field.pages = <<>> THEN None
     ELSE [installed |-> Installed(ctx, field.base),
           content |-> IF Ready(first) THEN Previews(ctx, Unique(Flat(ready))) ELSE first]

\* The first page of each catalog that an add-on installed has in its manifest.
BoardView(field, ctx) ==
  LET has(row) == Installed(ctx, row.base) /\ row.list \in Lists[row.base]
      shown == Kept(field.rows, {i \in DOMAIN field.rows : has(field.rows[i].row)}) IN
  [i \in DOMAIN shown |->
     [row |-> shown[i].row,
      content |-> IF Ready(shown[i].content) THEN Previews(ctx, Take(Unique(shown[i].content), PreviewSize))
                  ELSE shown[i].content]]

\* Subtitles get an id from their add-on and their place in its answer.
SubtitlesView(field, ctx) ==
  LET has(r) == Installed(ctx, r.base) /\ Ready(r.content)
      ready == Kept(field.subtitles, {i \in DOMAIN field.subtitles : has(field.subtitles[i])})
  IN Flat([i \in DOMAIN ready |-> [n \in 1 .. ready[i].content |-> <<ready[i].base, n>>]])

\* The progress of the library item is shown for the video selected, whichever it is of.
PlayerView(field, ctx) ==
  [item |-> IF ~Ready(field.item.content) THEN field.item.content
            ELSE [server |-> ctx.base_url,
                  videos |-> [v \in Videos |-> IF v = field.video /\ ctx.library[Title] # None
                                               THEN ctx.library[Title].progress ELSE None]],
   subtitles |-> SubtitlesView(field, ctx),
   addon |-> IF Installed(ctx, field.item.base) THEN field.item.base ELSE None,
   library_item |-> field.library_item]

\* An item of the library has a link to its stream, if one was played of its video.
LibraryItemView(field, ctx, id) ==
  [id |-> id, item |-> field.catalog[id], server |-> ctx.base_url,
   streams |-> {s \in ctx.streams : s[2] = field.catalog[id].video}]
LibraryView(field, ctx) ==
  {LibraryItemView(field, ctx, id) : id \in {t \in Titles : field.catalog[t] # None}}

\* One to go on with is shown with how far it was watched.
ContinueWatchingItem(field, ctx, id) ==
  LET item == field.catalog[id] IN
  [id |-> id, progress |-> item.progress, video |-> item.video, server |-> ctx.base_url,
   streams |-> {s \in ctx.streams : s[2] = item.video}]
ContinueWatchingView(field, ctx) ==
  {ContinueWatchingItem(field, ctx, id) : id \in {t \in Titles : field.catalog[t] # None}}

\* What the two screens hold of the library.
InProgress(entry) == entry # None /\ ~entry.removed /\ entry.progress > 0
CatalogOf(entries) ==
  [id \in Titles |->
     IF IF screen = "library" THEN entries[id] # None /\ ~entries[id].removed ELSE InProgress(entries[id])
     THEN entries[id] ELSE None]

View(field, ctx) ==
  CASE screen = "meta_details" -> MetaDetailsView(field, ctx)
    [] screen = "discover" -> DiscoverView(field, ctx)
    [] screen = "board" -> BoardView(field, ctx)
    [] screen = "player" -> PlayerView(field, ctx)
    [] screen = "library" -> LibraryView(field, ctx)
    [] screen = "continue_watching_preview" -> ContinueWatchingView(field, ctx)
-----------------------------------------------------------------------------
Announce(cause, fields) ==
  /\ UNCHANGED screen
  /\ told' = told \cup fields
  /\ untold' = IF screen \in fields \/ View(model', Ctx') = View(model, Ctx) THEN untold
                ELSE untold \cup {cause}

\* What is asked for again: what was asked before is not.
Planned(resources) ==
  [i \in DOMAIN addons' |->
     LET known == {k \in DOMAIN resources : resources[k].base = addons'[i]}
     IN IF known = {} THEN Resource(addons'[i], Loading) ELSE resources[FirstOf(known)]]
PlannedRows ==
  LET rows == Kept(Rows, {i \in DOMAIN Rows : Rows[i].base \in Range(addons')})
      known(row) == {k \in DOMAIN model.rows : model.rows[k].row = row}
  IN [i \in DOMAIN rows |->
        IF known(rows[i]) = {} THEN [row |-> rows[i], content |-> Loading]
        ELSE model.rows[FirstOf(known(rows[i]))]]

\* An add-on is installed or uninstalled: the details and the board are asked for
\* anew, as far as they have to be; the other screens keep what they have.
ProfileChanged ==
  /\ \E next \in Collections \ {addons} : addons' = next
  /\ model' = CASE screen = "meta_details" ->
                     [items |-> Planned(model.items), groups |-> Planned(model.groups)]
                [] screen = "board" -> [rows |-> PlannedRows]
                [] screen \in {"discover", "player"} \cup OfLibrary -> model
  /\ UNCHANGED <<library, streams, base_url>>
  /\ Announce("profile", {"ctx"} \cup IF model' # model THEN {screen} ELSE {})

\* Discover and the board are announced at each change of the library, which they do
\* not hold; the others if what they hold of it changes.
FollowLibrary ==
  /\ model' = CASE screen \in OfLibrary -> [catalog |-> CatalogOf(library')]
                [] screen = "player" -> [model EXCEPT !.library_item = library'[Title]]
                [] screen \in {"meta_details", "discover", "board"} -> model
  /\ UNCHANGED <<addons, streams, base_url>>
  /\ Announce("library",
       {"ctx"} \cup
       CASE screen \in {"discover", "board"} -> {screen}
         [] screen \in OfLibrary \cup {"player"} -> IF model' # model THEN {screen} ELSE {}
         [] screen = "meta_details" -> IF library'[Title] # library[Title] THEN {screen} ELSE {})

LibraryChanged ==
  /\ \E id \in Titles : \E entry \in Entries[id] \ {library[id]} :
       library' = [library EXCEPT ![id] = entry]
  /\ FollowLibrary

\* The player counts in its own copy of the item, ...
TimeChanged ==
  /\ screen = "player"
  /\ \E entry \in Entries[Title] \ {None} :
       entry.video = model.video /\ model' = [model EXCEPT !.library_item = entry]
  /\ UNCHANGED <<addons, library, streams, base_url>>
  /\ Announce("played", {screen})

\* ... which it hands to the library from time to time.
PushToLibrary ==
  /\ screen = "player" /\ model.library_item \notin {None, library[Title]}
  /\ library' = [library EXCEPT ![Title] = model.library_item]
  /\ FollowLibrary

PlayVideo ==
  /\ screen = "player"
  /\ \E v \in Videos \ {model.video} : model' = [model EXCEPT !.video = v]
  /\ UNCHANGED <<addons, library, streams, base_url>>
  /\ Announce("played", {screen})

\* A stream of a video was played, which the views of the other screens are not given.
StreamLoaded ==
  /\ screen \in OfLibrary \cup {"meta_details"}
  /\ \E s \in UNION Streams, v \in Videos : streams' = streams \cup {<<s, v>>}
  /\ streams' # streams
  /\ UNCHANGED <<addons, library, base_url, model>>
  /\ Announce("streams", {"ctx"})

ServerChanged ==
  /\ base_url' = ~base_url
  /\ UNCHANGED <<addons, library, streams, model>>
  /\ Announce("server", {"streaming_server"})

\* An add-on answers: one of the resources that are Loading.
Answered ==
  /\ model' \in
       CASE screen = "meta_details" ->
              {[model EXCEPT !.items[i].content = c] :
                 i \in {j \in DOMAIN model.items : model.items[j].content = Loading}, c \in Metas \cup {Failed}} \cup
              {[model EXCEPT !.groups[i].content = c] :
                 i \in {j \in DOMAIN model.groups : model.groups[j].content = Loading}, c \in Streams \cup {Failed}}
         [] screen = "discover" ->
              {[model EXCEPT !.pages[i] = c] :
                 i \in {j \in DOMAIN model.pages : model.pages[j] = Loading}, c \in Pages \cup {Failed}}
         [] screen = "board" ->
              {[model EXCEPT !.rows[i].content = c] :
                 i \in {j \in DOMAIN model.rows : model.rows[j].content = Loading}, c \in Pages \cup {Failed}}
         [] screen = "player" ->
              {[model EXCEPT !.item.content = c] :
                 c \in IF model.item.content = Loading THEN Metas \cup {Failed} ELSE {}} \cup
              {[model EXCEPT !.subtitles[i].content = c] :
                 i \in {j \in DOMAIN model.subtitles : model.subtitles[j].content = Loading}, c \in {Failed, 2}}
         [] screen \in OfLibrary -> {}
  /\ UNCHANGED <<addons, library, streams, base_url>>
  /\ Announce("answer", {screen})

LoadNextPage ==
  /\ screen = "discover" /\ Len(model.pages) < MaxPages /\ Ready(Last(model.pages))
  /\ model' = [model EXCEPT !.pages = Append(@, Loading)]
  /\ UNCHANGED <<addons, library, streams, base_url>>
  /\ Announce("page", {screen})

\* The interface asks again.
GetState ==
  /\ told # {}
  /\ told' = {} /\ untold' = {}
  /\ UNCHANGED <<screen, addons, library, streams, base_url, model>>

Init ==
  /\ screen \in Screens /\ addons \in Collections /\ base_url \in BOOLEAN
  /\ library = [id \in Titles |-> None] /\ streams = {}
  /\ model = CASE screen = "meta_details" ->
                    LET all == [i \in DOMAIN addons |-> Resource(addons[i], Loading)]
                    IN [items |-> all, groups |-> all]
               [] screen = "discover" -> [base |-> addons[1], pages |-> <<Loading>>]
               [] screen = "board" ->
                    LET rows == Kept(Rows, {i \in DOMAIN Rows : Installed(Ctx, Rows[i].base)})
                    IN [rows |-> [i \in DOMAIN rows |-> [row |-> rows[i], content |-> Loading]]]
               [] screen = "player" ->
                    [video |-> CHOOSE v \in Videos : TRUE, item |-> Resource(addons[1], Loading),
                     subtitles |-> [i \in DOMAIN addons |-> Resource(addons[i], Loading)],
                     library_item |-> None]
               [] screen \in OfLibrary -> [catalog |-> CatalogOf(library)]
  /\ told = {} /\ untold = {}

Next ==
  \/ ProfileChanged \/ LibraryChanged \/ TimeChanged \/ PushToLibrary \/ PlayVideo
  \/ StreamLoaded \/ ServerChanged \/ Answered \/ LoadNextPage \/ GetState

Spec == Init /\ [][Next]_viewVars
-----------------------------------------------------------------------------
\* No add-on is twice in a collection, nor a catalog on the board; what is there
\* is none of the marks, and no view of it is.
Bases == UNION {Range(collection) : collection \in Collections}
CollectionsAssumption ==
  /\ Screens \subseteq {"meta_details", "discover", "board", "player"} \cup OfLibrary
  /\ \A collection \in Collections : collection \in Seq(Bases) /\ IsInjective(collection)
  /\ Rows \in Seq(Range(Rows)) /\ IsInjective(Rows) /\ PreviewSize \in Nat
  /\ Title \in Titles /\ \A id \in Titles : None \in Entries[id]
AnswersAssumption ==
  /\ \A answer \in Metas : Ready(answer) /\ answer.links \in Seq(Range(answer.links))
  /\ \A page \in Pages : Ready(page) /\ page \in Seq(Range(page))
  /\ \A base \in Bases : \A content \in Metas \cup {Loading, Failed} : Resource(base, content) # None
  /\ LET progress == {None} \cup {entry.progress : entry \in Entries[Title] \ {None}}
     IN \A mark \in {None, Loading, Failed} :
          mark \notin [base : Bases, in_library : BOOLEAN, server : BOOLEAN, videos : [Videos -> progress]]

TypeOK ==
  /\ screen \in Screens /\ addons \in Collections /\ base_url \in BOOLEAN
  /\ \A id \in Titles : library[id] \in Entries[id]
  /\ told \subseteq Screens \cup {"ctx", "streaming_server"}

\* An interface that asks again when it is told of the screen, of Ctx or of the
\* streaming server shows what is; and one that listens to the screen alone follows
\* the library, which discover and the board do not hold (catalog_with_filters.rs:236).
ViewsAreTold ==
  /\ untold # {} => told \cap {screen, "ctx", "streaming_server"} # {}
  /\ "library" \in untold => screen = "player"

\* As long as an add-on may answer about a title or one has, no error is shown for it,
\* and an answer is not hidden because its add-on was uninstalled (serialize_meta_details.rs:115).
AnswerIsShown ==
  screen = "meta_details" =>
    LET contents == {model.items[i].content : i \in DOMAIN model.items}
        meta == MetaView(model, Ctx)
    IN /\ (\E c \in contents : Ready(c)) => Ready(meta)
       /\ meta = Failed <=> contents = {Failed}
       /\ Len(StreamsView(model, Ctx)) = Len(StreamGroups(model))

\* No title is twice in a list, though pages overlap, and none is missing
\* (serialize_discover.rs:225); a row of the board has as many as there is room for
\* (serialize_catalogs_with_extra.rs:119).
Ids(previews) == [i \in DOMAIN previews |-> previews[i].id]
ListedOnce ==
  /\ screen = "discover" =>
       LET content == DiscoverView(model, Ctx).content IN
       Ready(content) =>
         /\ IsInjective(Ids(content))
         /\ Range(Ids(content)) = UNION {Range(page) : page \in {p \in Range(model.pages) : Ready(p)}}
  /\ screen = "board" =>
       LET rows == BoardView(model, Ctx) IN
       \A i \in DOMAIN rows, r \in Range(model.rows) :
         rows[i].row = r.row /\ Ready(r.content) =>
           LET ids == Ids(rows[i].content) IN
           /\ IsInjective(ids) /\ Len(ids) <= PreviewSize
           /\ Len(ids) = PreviewSize \/ Range(ids) = Range(r.content)
  /\ screen = "meta_details" => IsInjective(ExtensionsView(model, Ctx))
  /\ screen = "player" => IsInjective(SubtitlesView(model, Ctx))
=============================================================================
