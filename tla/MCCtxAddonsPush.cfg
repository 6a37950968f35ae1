CONSTANTS
  Users = {u1}
  NoUser = NoUser
  Addons <- FewAddons
  Official <- FewOfficial
  Stored <- FewStored
  Slots = {s1, s2}
  Free = Free
  MaxKeys = 1
  PushWhileLocked = TRUE
  TokenPulls = FALSE
SPECIFICATION Spec
INVARIANTS
  PushedWasFetched
