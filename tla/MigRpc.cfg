SPECIFICATION Spec
CONSTANTS
  Word = 64
  Clients = {c1, c2}
  MaxCalls = 2
  Demux <- HurdDemux
  CallersOf <- HurdCallers
  Menus <- MCMenus
  Lengths = {1, 17}
  Pids = {1, 2}
  Tasks = {t1, t2}
  ServerTask = t1
INVARIANTS
  TypeOK
  ErrorsAreTrue
  ArgumentsArrive
  ResultsArrive
  MessagesAreReleased
PROPERTIES
  AtMostOnce
  CallsReturn
CHECK_DEADLOCK FALSE
