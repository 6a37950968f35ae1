CONSTANTS
  None = None
  Loading = Loading
  Failed = Failed
  Free = Free
  Slots = {s1, s2, s3}
  FewSlots = {q1, q2}
  Titles = {"t", "u"}
  Loads <- MCLoads
  Savable = {"t"}
  Rateable = {"t"}
  Bases = {"a1", "a2"}
  Collections <- MCCollections
  Users = {"n"}
  Contents <- MCContents
  LastUsed <- MCLastUsed
  Profiles <- MCProfiles
  TypeOrder <- MCTypeOrder
  Boards <- MCBoards
  PageSizes = {1, 2}
  MaxPages = 2
  Ids <- MCIds
  Versions <- MCVersions
  Releases = {2}
  Sorts = {"LastWatched"}
  Chosen = {"series", None}
  PageSize = 1
  PreviewSize = 1
  AddonTypes <- MCAddonTypes
  Months <- MCMonths
  Dates <- MCDates
  Plans <- MCPlans
  Answers <- MCAnswers
  Feeds <- MCFeeds
  Nameless = {"n"}
  Queries <- MCQueries
  Feed = "feed"
  Urls = {"x", "y"}
  Infos = {"network"}
  Torrents = {"t"}
  Keys = {"k"}
  MaxCalls = 4
SPECIFICATION Spec
SYMMETRY Symmetry
INVARIANTS
  TypeOK
  DetailsFollow
  PagesFollow
  ShownIsCurrent
  LoadingIsAnswered
