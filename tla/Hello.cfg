CONSTANTS
  Main = main
  Others = {c1, c2}
  Len0 = 2
  Below = 1
  MaxOffset = 3
  QLimit = 1
  MaxCalls = 1
SPECIFICATION Spec
INVARIANTS TypeOK RepliesMatchCalls OneRequestPerCall
PROPERTIES TestCompletes
CHECK_DEADLOCK FALSE
