CONSTANTS
  Ids = {a}
  Users = {u1}
  NoUser = NoUser
  Bodies = {x, y}
  Absent = Absent
  LIBRARY_RECENT_COUNT = 1
  Devices = {d1, d2}
  Ahead = {d1}
  Unsynced = {y}
  SECOND = 2
  MaxClock = 1
  MaxSessions = 1
  Slots = {s1, s2}
  Free = Free
SPECIFICATION Spec
SYMMETRY Symmetry
INVARIANTS
  TypeOK
  SyncAgrees
PROPERTIES
  EditIsKept
  KeepsLatest
