CONSTANTS
  Threads = {t1, t2}
  NoThread = nobody
  Files = {d1, f1}
  NoFile = nofile
  Cwd = cwd
  NFds = 4
  MaxFiles = 2
  MaxCalls = 2
  Dirs = {d1}
  MaxSize = 3
  MaxRoom = 1
  Lens = {1, 2}
  MaxHypercalls = 1
SYMMETRY Symmetry
SPECIFICATION Spec
INVARIANTS
  AllTypesOK
  HandlesResolve
  RequestsReachTheirSlot
  DescriptorsAreAccounted
  OnlyStrangersReachCwd
  ReadGapsNeedGrowth
  WriteGapsNeedRoom
  LockIsHeldByItsUsers
CHECK_DEADLOCK FALSE
