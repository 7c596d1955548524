SPECIFICATION Spec
CONSTANTS
  NULL = NULL
  mcNull = NULL
  Char <- MCChar
  Slash = "/"
  Backslash <- MCBackslash
  Percent = "%"
  Control = {"bel"}
  Unsanitary <- MCUnsanitary
  NonAscii = {"e9"}
  Unsavory = {" "}
  Hi <- MCHi
  Lo <- MCLo
  Slop = 1
  Names <- MCNames
  Directories <- MCDirectories
  DefaultName <- MCDefault
  AllocLimit = 12
INVARIANTS
  BufferFits
  Sanitary
  BeginsWithDirectory
  NamedUnlessEmpty
  Reversible
CHECK_DEADLOCK FALSE
