CONSTANTS
  Threads = {t1, t2}
  Root = root
  Ids = {root}
  Kinds <- TwoKinds
  FirstCap = 1
  NCells = 3
  NNames = 3
  MaxIds = 2
  MaxCalls = 1
SYMMETRY Symmetry
SPECIFICATION Spec
INVARIANTS TypeOK HandlesAreOwned VectorsAreWhole
CHECK_DEADLOCK FALSE
