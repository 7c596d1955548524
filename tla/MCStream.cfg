SPECIFICATION FairSpec
CONSTANTS
  NULL = NULL
  mcNull = NULL
  mcHole = Hole
  mcMalformed = Malformed
  mcUndecodable = Undecodable
  Hole = Hole
  Malformed = Malformed
  Undecodable = Undecodable
  Old = Old
  Torn = Torn
  Path <- MCPath
  Base <- MCBase
  Name <- MCName
  Data <- MCData
  Date <- MCDate
  BadDates <- MCBadDates
  Tag <- MCTag
  Munge <- MCMunge
  Numbered <- MCNumbered
  MaxNumber <- MCNumbers
  SafeNumber = 2
  DefaultPath <- MCDefault
  Empty = ""
  Unwritable <- MCUnwritable
  RtfDecode <- MCRtfDecode
  BodyName <- MCBodyName
  BodyMime <- MCBodyMime
  AttrSize = 3
  FileSize = 5
  Attr <- StreamAttrs
  MaxAttrs = 4
  Options <- StreamOptions
  Existing <- NoFiles
  MayFill = FALSE
INVARIANTS
  AttachmentsInOrder
  BodiesFollowPreference
PROPERTIES
  Terminates
  OnlyForward
CHECK_DEADLOCK FALSE
