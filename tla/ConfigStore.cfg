SPECIFICATION Spec
CONSTANTS
  plain = plain
  other = other
  sealed = sealed
  broken = broken
  moved = moved
  s1 = s1
  NoSecret = NoSecret
  Nothing = Nothing
  First = plain
  Attr <- Documents
  Texts = {plain, broken, moved}
  Versions = {1, 2}
  Faults = TRUE
  SyncFails = TRUE
  Kills = TRUE
  MaxGeneration = 2
  MaxEdits = 1
  MaxCrashes = 1
INVARIANTS
  ServedIsComplete
PROPERTIES
  ReplacesWhatWasRead
CHECK_DEADLOCK FALSE
