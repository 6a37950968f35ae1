CONSTANTS
  None = None
  Loading = Loading
  Failed = Failed
  Free = Free
  Slots = {s1, s2}
  Changed = Changed
  Episodes <- MCEpisodes
  Duration = 4
  PushEvery = 3
  Others = {FALSE}
  SeekTo = {1, 3}
  MaxTime = 6
  MaxLoads = 2
  Titles = {"s"}
  Videos <- MCVideos
  Library = {"s"}
  Groups = {"g"}
  Keys = {"k"}
  Params = {"p"}
  Lookback = 1
  States <- MCStates
  Servers = {"x", "y"}
  Sources <- MCSources
  Playable <- MCPlayable
  Openable <- MCOpenable
  ExternalPlayers = {"vlc"}
  MaxHops = 2
  Screens = {"meta_details", "discover", "board", "player", "library", "continue_watching_preview"}
  Collections <- MCCollections
  Lists <- MCLists
  Rows <- MCRows
  ShownTitles = {"t", "u"}
  Title = "t"
  Entries <- MCEntries
  ShownVideos = {"v", "w"}
  MetaAnswers <- MCMetaAnswers
  Streams = {{"s"}}
  Pages <- MCPages
  MaxPages = 2
  PreviewSize = 2
  Descriptors <- MCDescriptors
  Paths <- MCPaths
  Numerals <- MCNumerals
  Bodies <- MCBodies
  Replies <- MCReplies
  MaxPaths = 2
SPECIFICATION Spec
SYMMETRY Symmetry
CHECK_DEADLOCK FALSE
INVARIANTS
  TypeOK
  OffersHold
  EditsSurvivePlaying
  WatchedOncePerLoad
  LossIsBounded
  PlayerSettles
PROPERTIES
  ShownIsOfVideo
