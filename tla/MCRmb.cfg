SPECIFICATION Spec
CONSTANTS
  t1 = t1
  a = a
  b = b
  h = h
  Terminals = {t1}
  Servers = {s1, s2}
  Scripts <- OneUser
  Others = {b}
  Header = Header
  Occurs <- Overlapping
  NULL = NULL
  M = 1
  UDP_NUM_TRIES = 2
  MaxStops = 1
  MaxChanges = 2
INVARIANTS
  TypeOK
  AnswersFromServer
  SuccessMeansReceived
PROPERTY CommandsEnd
CHECK_DEADLOCK FALSE
