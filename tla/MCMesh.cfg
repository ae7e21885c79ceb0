SPECIFICATION MeshSpec
CONSTANTS
  s1 = s1
  s2 = s2
  s3 = s3
  Servers = {s1, s2, s3}
  tpt <- OwnPorts
  Texts = {a, b}
  Clocks = {1, 2, 3, 4}
  Blank = Blank
  Conns = {1, 2, 3}
  NULL = NULL
  M = 2
  MaxStarts = 3
  MaxStops = 1
  MaxLapses = 0
INVARIANTS
  PublishersHeard
PROPERTIES
  RefinesBroadcast
  BroadcastIsFair
CHECK_DEADLOCK FALSE
