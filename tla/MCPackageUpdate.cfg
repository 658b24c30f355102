SPECIFICATION FairSpec
CONSTANTS
  w1 = w1
  w2 = w2
  arm = arm
  mips = mips
  None = None
  Workers = {w1, w2}
  Archs = {arm, mips}
  Devices <- MCDevices
  Format = "ipk"
  Manifest <- MCManifest
  MaxVersion = 2
  MaxMishaps = 2
INVARIANTS
  TypeOK
  OneInstaller
  StatusTruthful
PROPERTIES
  EventuallyUpdated
CHECK_DEADLOCK FALSE
