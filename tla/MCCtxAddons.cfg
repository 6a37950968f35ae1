CONSTANTS
  Users = {u1, u2}
  NoUser = NoUser
  Addons <- MCAddons
  Official <- MCOfficial
  Stored <- MCStored
  Slots = {s1, s2}
  Free = Free
  MaxKeys = 2
  PushWhileLocked = TRUE
  TokenPulls = TRUE
SPECIFICATION Spec
SYMMETRY Symmetry
INVARIANTS
  TypeOK
  Agreement
  UnforcedWasFetched
