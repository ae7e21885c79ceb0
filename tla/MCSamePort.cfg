SPECIFICATION Spec
CONSTANTS
  s1 = s1
  s2 = s2
  s3 = s3
  Servers = {s1, s2}
  tpt <- SamePort
  Texts = {a}
  Blank = Blank
  Conns = {1}
  NULL = NULL
  M = 2
  MaxStarts = 2
  MaxStops = 0
  MaxLapses = 0
CHECK_DEADLOCK FALSE
PROPERTY ConnectsToEveryOther
