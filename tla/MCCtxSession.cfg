CONSTANTS
  Users = {u1, u2}
  NoUser = NoUser
  Slots = {s1, s2, s3}
  Free = Free
  Ready = Ready
  MaxKeys = 3
  TokenPulls = FALSE
SPECIFICATION Spec
INVARIANTS
  TypeOK
  KeyMatchesUser
  BucketsFollowProfile
PROPERTIES
  SessionEndsForCause
  SignsInAsAsked
