SPECIFICATION Spec
CONSTANTS
  plain = plain
  other = other
  sealed = sealed
  broken = broken
  moved = moved
  s1 = s1
  NoSecret = NoSecret
  Nothing = Nothing
  First = plain
  Texts = {plain, other}
  Attr <- Documents
  Versions = {1}
  Faults = FALSE
  SyncFails = FALSE
  Kills = TRUE
  MaxGeneration = 2
  MaxEdits = 1
  MaxCrashes = 2
INVARIANTS
  AlwaysRecoverable
CHECK_DEADLOCK FALSE
