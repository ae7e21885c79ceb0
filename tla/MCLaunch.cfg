SPECIFICATION LaunchSpec
CONSTANTS
  s1 = s1
  s2 = s2
  s3 = s3
  Servers = {s1, s2, s3}
  tpt <- OwnPorts
  Texts = {a, b, c}
  Blank = Blank
  Conns = {1, 2, 3}
  NULL = NULL
  M = 6
  MaxStarts = 3
  MaxStops = 1
  MaxLapses = 0
  MaxEvents = 2
  MaxPairEvents = 3
CHECK_DEADLOCK FALSE
INVARIANTS
  TypeOK
  JoinersHear
PROPERTIES
  RequestsEnd
  ConnectsToEveryOther
