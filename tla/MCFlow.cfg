SPECIFICATION SpecLaunched
CONSTANTS
  s1 = s1
  s2 = s2
  s3 = s3
  Servers = {s1, s2, s3}
  Cap = 4
INVARIANTS
  TypeOK
  NoPairWaits
  NoTripleWaits
