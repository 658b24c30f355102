SPECIFICATION Spec
CONSTANTS
  a = a
  b = b
  c = c
  d = d
  k1 = k1
  k2 = k2
  NoKey = NoKey
  NoState = NoState
  Hosts <- MCHosts
  Keys <- MCKeys
  KeyOf <- MCKeyOf
  ExclusionLists <- FixedExclusion
  SendExisting = TRUE
  MaxPending = 1
  InitialDelay = 1
  MaxDelay = 1
  AuthFloor = 1
  Day = 1
  RetryAfters <- OnlyNow
  MaxOutput = 2
  MaxFaults = 1
INVARIANTS AtLeastOnce
CHECK_DEADLOCK FALSE
