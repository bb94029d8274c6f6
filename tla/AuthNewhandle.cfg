CONSTANTS
  Threads = {t1}
  Root = root
  Ids = {root}
  Kinds <- FourKinds
  FirstCap = 1
  NCells = 3
  NNames = 3
  MaxIds = 2
  MaxCalls = 1
SPECIFICATION Spec
INVARIANTS NewhandleIsAHandle
CHECK_DEADLOCK FALSE
