CONSTANTS
  N = 5
  MaxPolls = 2
SPECIFICATION Spec
INVARIANTS TypeOK CleanStartIsComplete
PROPERTIES BootstrapEnds
CHECK_DEADLOCK FALSE
