CONSTANTS
  None = None
  Loading = Loading
  Failed = Failed
  Free = Free
  Slots = {s1, s2, s3}
  Metas = {m}
  Videos = {"v1", "v2"}
  Released <- MCReleased
  Addons <- MCAddons
  Every = 2
  MaxTime = 3
  MaxWrites = 2
  Users = {"u"}
  Events = {"e"}
  Searches = {"q"}
  Urls = {}
  DefaultUrl = "d"
  MaxJobs = 2
  Broken = Broken
  Byte = 8
  Listed <- MCListed
  Undefined = "undefined"
  InstallationIds = {"i"}
  MaxActions = 2
  MaxStarts = 2
  MaxFailures = 1
SPECIFICATION SpecShift
CHECK_DEADLOCK FALSE
INVARIANTS
  ShiftKeepsWatched
