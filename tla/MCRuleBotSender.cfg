SPECIFICATION Spec
CONSTANTS
  a = a
  b = b
  c = c
  d = d
  k1 = k1
  k2 = k2
  NoKey = NoKey
  NoState = NoState
  Hosts <- MCHosts
  Keys <- MCKeys
  KeyOf <- MCKeyOf
  ExclusionLists <- NoExclusions
  SendExisting = TRUE
  MaxPending = 2
  InitialDelay = 1
  MaxDelay = 2
  AuthFloor = 2
  Day = 3
  RetryAfters <- OnlyNow
  MaxOutput = 3
  MaxFaults = 3
INVARIANTS TypeOK StateAccepted AtLeastOnce Alternation
PROPERTIES DeadlinesHonoured NoResend ImplementsForwarding
CHECK_DEADLOCK FALSE
