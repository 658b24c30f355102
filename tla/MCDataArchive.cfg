SPECIFICATION FairSpec
CONSTANTS
  None = None
  SendExisting = FALSE
  MaxLines = 2
  MaxRequests = 3
  MaxMishaps = 2
INVARIANTS
  TypeOK
  CheckpointCovers
PROPERTIES
  EventuallyBack
CHECK_DEADLOCK FALSE
