SPECIFICATION FairSpec
CONSTANTS
  NULL = NULL
  Hole = Hole
  Torn = Torn
  p1 = p1
  p2 = p2
  Proc <- MCProc
  Path <- MCPath
  Base <- MCBase
  Block <- MCBlock
  Data <- MCData
  Options <- MCOptions
  Jobs <- MCJobs
  Existing <- MCExisting
  Unwritable <- MCUnwritable
  Numbered <- MCNumbered
  MaxNumber <- MCNumbers
  Old <- MCOld
  DefaultPath = DefaultPath
INVARIANTS
  IntactUnlessContended
PROPERTIES
  OldFilesKept
  EveryRunEnds
  NoRunThrownBack
  LoneRunIsAtomic
CHECK_DEADLOCK FALSE
