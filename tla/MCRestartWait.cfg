SPECIFICATION Spec
CONSTANTS
  s1 = s1
  s2 = s2
  s3 = s3
  Servers = {s1, s2}
  tpt <- OwnPorts
  Texts = {a}
  Blank = Blank
  Conns = {1, 2}
  NULL = NULL
  M = 2
  MaxStarts = 3
  MaxStops = 1
  MaxLapses = 0
CHECK_DEADLOCK FALSE
PROPERTY RequestsEnd
