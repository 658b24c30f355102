SPECIFICATION FairSpec
CONSTANTS
  c1 = c1
  c2 = c2
  peer = peer
  Mixes <- MCMixes
  None = None
  Conns = {c1, c2}
  Peers = {peer}
  Names <- MCNames
  Errors <- MCErrors
  IncludeFailed = TRUE
  InitialDelay = 10
  MaxDelay = 35
  Floor = 30
  MaxMishaps = 2
INVARIANTS
  TypeOK
  OnlyFinal
  NothingMissed
PROPERTIES
  EventuallyShown
CHECK_DEADLOCK FALSE
