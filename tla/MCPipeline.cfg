\* Two controllers or one, queues of one, failures of every goroutine.
SPECIFICATION FairSpec
CONSTANTS
  i1 = i1
  i2 = i2
  w = w
  x = x
  y = y
  d = d
  e = e
  NoDomain = NoDomain
  Instances <- MCInstances
  Hosts <- MCHosts
  Domains <- MCDomains
  Project <- MCProject
  CandidateQueue = 1
  WriteQueue = 1
  MayFail <- AllFail
  Configurations <- MCConfigurations
INVARIANTS
  TypeOK
  NoSendOnClosed
  Drained
  ErrorReported
PROPERTIES
  EventuallyReturns
  EventuallySaved
