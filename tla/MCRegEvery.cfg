SPECIFICATION Spec
CONSTANTS
  K = 2
  R = 2
  Tries = 2
  MaxFlying = 1
INVARIANTS
  RegEveryR
CHECK_DEADLOCK FALSE
