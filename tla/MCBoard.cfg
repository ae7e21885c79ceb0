SPECIFICATION SpecEither
CONSTANTS
  M = 4
  Texts = {a, b}
  Strings = {a, b}
  MaxPublishes = 9
  MaxClock = 3
INVARIANTS
  TypeOK
  ListedByClock
  ScansAgree
PROPERTIES
  RefinesLatestMessages
  EvictsOnlyAnOldest
