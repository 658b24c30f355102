SPECIFICATION FairSpec
CONSTANTS
  a = a
  b = b
  c = c
  d = d
  k1 = k1
  k2 = k2
  NoKey = NoKey
  NoState = NoState
  Hosts <- MCHosts
  Keys <- MCKeys
  KeyOf <- MCKeyOf
  ExclusionLists <- EditedExclusions
  SendExisting = FALSE
  MaxPending = 1
  InitialDelay = 4
  MaxDelay = 6
  AuthFloor = 5
  Day = 7
  RetryAfters <- MCRetryAfters
  MaxOutput = 2
  MaxFaults = 2
INVARIANTS NoLoss
PROPERTIES EventuallyDelivered
CHECK_DEADLOCK FALSE
