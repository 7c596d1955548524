SPECIFICATION FairSpec
CONSTANTS
  Lens <- MCLens
  Word = 256
  SizeMod = 4096
  MayRunOut = TRUE
  Counts <- MCCounts
  Lengths <- MCLengths
  Units <- MCUnits
  Limits <- MCLimits
  PtrSize = 8
  AttrSize = 48
  GuidSize = 16
  VarLenSize = 16
  ValueSize = 32
INVARIANTS
  TypeOK
  ReadsInBuffer
  Utf8Fits
  SlotsFilled
  WorkBounded
PROPERTIES
  Terminates
  StepsBounded
CHECK_DEADLOCK FALSE
