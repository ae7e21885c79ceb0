SPECIFICATION Spec
CONSTANTS
  K = 3
  R = 3
  Tries = 2
  MaxFlying = 2
INVARIANTS
  TypeOK
  TimerNotNegative
  RegEveryRIfInterruptedOnce
  FreshUnlessLate
PROPERTIES
  LookupEnds
\* the user may end the server
CHECK_DEADLOCK FALSE
