CONSTANTS
  Users = {u1, u2}
  NoUser = NoUser
  Slots = {s1, s2}
  Free = Free
  Ready = Ready
  MaxKeys = 2
  TokenPulls = TRUE
SPECIFICATION Spec
INVARIANTS
  KeyMatchesUser
