CONSTANTS
  None = None
  Loading = Loading
  Failed = Failed
  Free = Free
  Slots = {s1, s2}
  Users = {u1, u2}
  NoUser = NoUser
  SessionReady = Ready
  MaxKeys = 2
  TokenPulls = TRUE
  Codes = {c1, c2, c3}
  Keys = {k1, k2}
  OtherUrls = {x}
  MaxEvents = 3
SPECIFICATION Spec
INVARIANTS
  TypeOK
  ShownIsOwn
  LoadingIsAnswered
  SentUnderOwnAccount
PROPERTIES
  TraktIsOwn
  DeliveredInOrder
  WaitingEnds
