SPECIFICATION FairSpec
CONSTANTS
  a = a
  b = b
  Sources = {a, b}
  Token = token
  Secrets = {"s1", "s2"}
  None = None
  Requests <- MCRequests
  Installed <- MCInstalled
  MaxRequests = 2
  MaxMishaps = 2
INVARIANTS
  TypeOK
  NoInheritedSecret
PROPERTIES
  ImplementsTransaction
  EventuallyServed
CHECK_DEADLOCK FALSE
