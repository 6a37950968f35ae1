CONSTANTS
  Ids = {a, b}
  Users = {u1}
  NoUser = NoUser
  Bodies = {x, y}
  LIBRARY_RECENT_COUNT = 1
  Missing = Missing
  Absent = Absent
  MaxStamp = 3
  MaxJobs = 2
SPECIFICATION Spec
SYMMETRY Symmetry
INVARIANTS
  TypeOK
  AccountIsolation
  DrainedIsRecoverable
  LostOnlyWhatWaits
