SPECIFICATION RefreshingSpec
CONSTANTS
  plain = plain
  other = other
  sealed = sealed
  broken = broken
  moved = moved
  s1 = s1
  NoSecret = NoSecret
  Nothing = Nothing
  First = plain
  Attr <- Documents
  Texts = {plain, other, sealed}
  Versions = {1, 2}
  Faults = FALSE
  SyncFails = FALSE
  Kills = FALSE
  MaxGeneration = 2
  MaxEdits = 1
  MaxCrashes = 2
INVARIANTS
  AlwaysRecoverable
  AckedIsDurable
PROPERTIES
  Settles
CHECK_DEADLOCK FALSE
