SPECIFICATION FairSpec
CONSTANTS
  NULL = NULL
  OEMCODEPAGE = "OEMCODEPAGE"
  Sizes <- MCSizes
  Settings <- MCSettings
  Levels <- MCLevels
  Names <- MCNames
  Lengths <- MCLengths
  Contents <- MCContents
  Sums <- MCSums
  SumMod = 2
  Signature <- MCSignature
  Minimum = 3
  AttrSize = 2
  SHORT = 2
  LONG = 4
  DATE = 3
  TRP = 4
  LastDay = 0
  SizeMod = 256
  MayRunOut = TRUE
INVARIANTS
  AttributesAsRead
  LittleLeftUndecoded
  DumpInBuffer
PROPERTIES
  Terminates
  StepsBounded
CHECK_DEADLOCK FALSE
