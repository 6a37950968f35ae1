---------------------------- MODULE ScreenModels ----------------------------
(***************************************************************************)
(* The models behind the screens, side by side: meta details, discover and *)
(* board, the library's screens, the calendar, local search, and the       *)
(* streaming server.  A behaviour is one of them, told by `part'; they     *)
(* share no state here, only the questions asked of them.                  *)
(***************************************************************************)
EXTENDS Naturals, FiniteSets, Sequences

CONSTANTS
  None, Loading, Failed, Free,                                               \* Loadables
  Slots, FewSlots,                                                           \* bounds: requests under way
  Titles, Loads, Savable, Rateable, Bases, Collections, Users, Contents, LastUsed,           \* MetaDetails
  Profiles, TypeOrder, Boards, PageSizes, MaxPages,                          \* Catalogs
  Ids, Versions, Releases, Sorts, Chosen, PageSize, PreviewSize, AddonTypes, \* LibraryScreens
  Months, Dates, Plans, Answers,                                             \* Calendar
  Feeds, Nameless, Queries, Feed,                                            \* LocalSearch
  Urls, Infos, Torrents, Keys, MaxCalls                                      \* StreamingServer

VARIABLES
  part,
  addons, auth, library, selected, meta_items, meta_streams, streams, last_used_stream,
  library_item, rating_info, calls, stale, guessed,                                \* details
  profile, discover, selectable, catalog, board, catalogs, pages,                  \* catalogs
  items, notifications, installs, screens, sort, rows, preview, type, installed, heard,   \* library
  now, month, months, month_info, days, calendar_items, asked,                     \* calendar
  current_records, latest_records, searcher, search_results, feeds,                \* search
  key, url, watched, settings, base_url, remote_url, playback_devices, torrent,
  statistics, info, probes                                                         \* server

Details == INSTANCE MetaDetails
Catalog == INSTANCE Catalogs WITH selected <- discover, Slots <- FewSlots
Library == INSTANCE LibraryScreens
  WITH library <- items, addons <- installs, catalogs <- rows, Profiles <- AddonTypes
Month == INSTANCE Calendar
  WITH selected <- month, selectable <- months, items <- days, meta_items <- calendar_items
Search == INSTANCE LocalSearch
Server == INSTANCE StreamingServer WITH calls <- probes

ASSUME MarksAssumption == Details!LoadableAssumption /\ Catalog!LoadableAssumption
ASSUME DetailsAssumption ==
  Details!ProfilesAssumption /\ Details!SelectionsAssumption /\ Details!MarksAssumption
ASSUME CatalogAssumption == Catalog!PagesAssumption /\ Catalog!PlansAssumption
ASSUME LibraryAssumption ==
  Library!PageSizeAssumption /\ Library!ItemsAssumption /\ Library!SortsAssumption
ASSUME MonthAssumption == Month!PlansAssumption /\ Month!AnswersAssumption
ASSUME SearchAssumption == Search!FeedsAssumption
ASSUME ServerAssumption ==
  Server!UrlsAssumption /\ Server!InfosAssumption /\ Server!MarksAssumption

Parts == {"details", "catalogs", "library", "calendar", "search", "server"}

detailsVars ==
  <<addons, auth, library, selected, meta_items, meta_streams, streams, last_used_stream,
    library_item, rating_info, calls, stale, guessed>>
catalogVars == <<profile, discover, selectable, catalog, board, catalogs, pages>>
libraryVars == <<items, notifications, installs, screens, sort, rows, preview, type, installed, heard>>
calendarVars == <<now, month, months, month_info, days, calendar_items, asked>>
searchVars == <<current_records, latest_records, searcher, search_results, feeds>>
serverVars ==
  <<key, url, watched, settings, base_url, remote_url, playback_devices, torrent, statistics, info, probes>>

modelVars == <<part, detailsVars, catalogVars, libraryVars, calendarVars, searchVars, serverVars>>

\* The variables of the parts that a behaviour is not of, which no step changes.
NoDetails ==
  /\ addons = None /\ auth = None /\ library = None /\ selected = None /\ meta_items = None
  /\ meta_streams = None /\ streams = None /\ last_used_stream = None /\ library_item = None
  /\ rating_info = None /\ calls = None /\ stale = None /\ guessed = None
NoCatalog ==
  /\ profile = None /\ discover = None /\ selectable = None /\ catalog = None /\ board = None
  /\ catalogs = None /\ pages = None
NoLibrary ==
  /\ items = None /\ notifications = None /\ installs = None /\ screens = None /\ sort = None
  /\ rows = None /\ preview = None /\ type = None /\ installed = None /\ heard = None
NoMonth ==
  /\ now = None /\ month = None /\ months = None /\ month_info = None /\ days = None
  /\ calendar_items = None /\ asked = None
NoSearch ==
  /\ current_records = None /\ latest_records = None /\ searcher = None /\ search_results = None
  /\ feeds = None
NoServer ==
  /\ key = None /\ url = None /\ watched = None /\ settings = None /\ base_url = None
  /\ remote_url = None /\ playback_devices = None /\ torrent = None /\ statistics = None
  /\ info = None /\ probes = None

Init ==
  /\ part \in Parts
  /\ IF part = "details" THEN Details!Init ELSE NoDetails
  /\ IF part = "catalogs" THEN Catalog!Init ELSE NoCatalog
  /\ IF part = "library" THEN Library!Init ELSE NoLibrary
  /\ IF part = "calendar" THEN Month!Init ELSE NoMonth
  /\ IF part = "search" THEN Search!Init ELSE NoSearch
  /\ IF part = "server" THEN Server!Init ELSE NoServer

Next ==
  /\ UNCHANGED part
  /\ IF part = "details" THEN Details!Next ELSE UNCHANGED detailsVars
  /\ IF part = "catalogs" THEN Catalog!Next ELSE UNCHANGED catalogVars
  /\ IF part = "library" THEN Library!Next ELSE UNCHANGED libraryVars
  /\ IF part = "calendar" THEN Month!Next ELSE UNCHANGED calendarVars
  /\ IF part = "search" THEN Search!Next ELSE UNCHANGED searchVars
  /\ IF part = "server" THEN Server!Next ELSE UNCHANGED serverVars

Spec == Init /\ [][Next]_modelVars
-----------------------------------------------------------------------------
TypeOK ==
  /\ part \in Parts
  /\ part = "details" => Details!TypeOK
  /\ part = "catalogs" => Catalog!TypeOK
  /\ part = "server" => Server!TypeOK

\* The page of a title shows the streams of the video selected or guessed, the stream
\* last used and the library item as they follow from the other parts, and the rating
\* of the title; and the video guessed is that of the first add-on that knows it, in
\* the order of the profile and not in that of the answers (meta_details.rs:384).
DetailsFollow ==
  part = "details" =>
    /\ Details!StreamsOfVideo /\ Details!DerivedIsCurrent
    /\ Details!RatingOfTitle /\ Details!GuessIsOfFirst

\* The pages of discover, of each row of the board and of the library follow one
\* another, without one missing, twice or begun at the wrong item, however often the
\* next one is asked for and fails (catalog_with_filters.rs:478,
\* catalogs_with_extra.rs:70, library_by_type.rs:198).
PagesFollow ==
  /\ part = "catalogs" => Catalog!DiscoverPagesFollow /\ Catalog!BoardPagesFollow
  /\ part = "library" => Library!RowsArePaged

\* What a screen shows is of what Ctx holds and of what is selected now: the board of
\* the add-ons installed, the library's screens of the library, with the notifications
\* they were last told of, the calendar of the month, local search of the last good
\* answer, the streaming server of its url.
ShownIsCurrent ==
  /\ part = "catalogs" => Catalog!BoardIsOfProfile
  /\ part = "library" => Library!ScreensAreCurrent
  /\ part = "calendar" => Month!CalendarIsOfMonth
  /\ part = "search" => Search!SearchIsOfRecords
  /\ part = "server" => Server!ShownIsOfServer /\ Server!OfflineTogether

\* Whatever is Loading has a request under way that will replace it, but for the
\* statistics of the streaming server.
LoadingIsAnswered ==
  CASE part = "details" -> Details!DetailsAreAnswered
    [] part = "catalogs" -> Catalog!PagesAreAnswered
    [] part = "library" -> TRUE
    [] part = "calendar" -> Month!CalendarIsAnswered
    [] part = "search" -> Search!RecordsAreAnswered
    [] part = "server" -> Server!ServerIsAnswered
=============================================================================
