\* Every hash function into four values, every order of additions.
SPECIFICATION Spec
CONSTANTS
  k1 = k1
  k2 = k2
  k3 = k3
  k4 = k4
  k5 = k5
  k6 = k6
  Free = Free
  Fingerprints <- MCFingerprints
  Hashes <- MCHashes
  MemoryLimit = 4
  InitialSlots = 8
INVARIANTS
  TypeOK
  NeverFull
PROPERTIES
  AnswersExact
SYMMETRY FingerprintSymmetry
CHECK_DEADLOCK FALSE
