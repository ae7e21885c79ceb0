SPECIFICATION PairSpec
CONSTANTS
  s1 = s1
  s2 = s2
  s3 = s3
  Servers = {s1, s2}
  tpt <- OwnPorts
  Texts = {a, b, c}
  Blank = Blank
  Conns = {1}
  NULL = NULL
  M = 4
  MaxStarts = 2
  MaxStops = 0
  MaxLapses = 0
CHECK_DEADLOCK FALSE
INVARIANT ListsAllInOrder
