SPECIFICATION FairSpec
CONSTANTS
  Byte = {0, 1, 2}
  Zero = 0
  Preset <- MCPreset
  N = 5
  MinRun = 2
  MaxRun = 4
  Tokens = 2
  Header = 4
  Value <- MCValue
  AllocLimit = 7
INVARIANTS
  TypeOK
  InBounds
  DictIsWindow
  ReferenceBehind
PROPERTIES
  Decompresses
  Terminates
  StepsBounded
CHECK_DEADLOCK FALSE
