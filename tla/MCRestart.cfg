SPECIFICATION Spec
CONSTANTS
  s1 = s1
  s2 = s2
  s3 = s3
  Servers = {s1, s2}
  tpt <- OwnPorts
  Texts = {a, b, c}
  Blank = Blank
  Conns = {1, 2, 3}
  NULL = NULL
  M = 6
  MaxStarts = 3
  MaxStops = 1
  MaxLapses = 1
ACTION_CONSTRAINTS
  TextsInOrder
  OwnStepsFirst
CHECK_DEADLOCK FALSE
INVARIANTS
  ClockCoversBoard
  DistributesThePublished
  SessionsOwned
  

  
