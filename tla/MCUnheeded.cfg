SPECIFICATION Spec
CONSTANTS
  t1 = t1
  a = a
  b = b
  h = h
  Terminals = {t1}
  Servers = {s1, s2}
  Scripts <- LooksFirst
  Others = {b}
  Header = Header
  Occurs <- Distinct
  NULL = NULL
  M = 1
  UDP_NUM_TRIES = 2
  MaxStops = 1
  MaxChanges = 2
INVARIANT ReceivedOrInformed
CHECK_DEADLOCK FALSE
