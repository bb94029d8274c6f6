CONSTANTS
  Main = main
  Others = {}
  Len0 = 2
  Below = 1
  MaxOffset = 3
  QLimit = 1
  MaxCalls = 0
SPECIFICATION Spec
PROPERTIES MainExits
CHECK_DEADLOCK FALSE
