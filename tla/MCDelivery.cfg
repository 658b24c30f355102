SPECIFICATION Spec
CONSTANTS
  a = a
  b = b
  k1 = k1
  k2 = k2
  Invalid = Invalid
  NoTail = NoTail
  NoKey = NoKey
  NoState = NoState
  Hosts <- MCHosts
  Capturable <- MCCapturable
  Torn <- TornUnreadable
  WriteQueue = 1
  BufferLines = 1
  CrashKinds <- KillAndPower
  MaxLines = 2
  MaxCrashes = 2
  Keys <- MCKeys
  KeyOf <- MCKeyOf
  ExclusionLists <- NoExclusions
  SendExisting = TRUE
  MaxPending = 1
  InitialDelay = 1
  MaxDelay = 1
  AuthFloor = 1
  Day = 1
  RetryAfters <- OnlyNow
  MaxFaults = 3
INVARIANTS DeliveryTypeOK SeenIsAccounted NoDuplicates NothingSkipped
CHECK_DEADLOCK FALSE
