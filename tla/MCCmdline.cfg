SPECIFICATION Spec
CONSTANTS
  NULL = NULL
  mcNull = NULL
  Word <- MCWords
  MaxWords = 3
  Path = {"a", "b", "message"}
  Dash <- MCDash
  Message = "message"
  Char <- MCChar
  ToLower <- MCToLower
  IntMod = 8
  SizeMod = 64
INVARIANTS
  SettingsAsAsked
  PrefUsable
  AnswersApart
CHECK_DEADLOCK FALSE
