SPECIFICATION Spec
CONSTANTS
  NULL = NULL
  mcNull = NULL
  Word <- MCSizes
  MaxWords = 1
  Path = {"a", "b", "message"}
  Dash <- MCDash
  Message = "message"
  Char <- MCChar
  ToLower <- MCToLower
  IntMod = 8
  SizeMod = 64
INVARIANTS
  NegativeSizeIgnored
CHECK_DEADLOCK FALSE
