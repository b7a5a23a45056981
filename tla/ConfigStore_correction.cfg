SPECIFICATION FairSpec
CONSTANTS
  plain = plain
  other = other
  sealed = sealed
  broken = broken
  moved = moved
  s1 = s1
  NoSecret = NoSecret
  Nothing = Nothing
  First = plain
  Texts = {plain, broken}
  Attr <- Documents
  Versions = {1}
  Faults = FALSE
  SyncFails = FALSE
  Kills = FALSE
  MaxGeneration = 1
  MaxEdits = 2
  MaxCrashes = 0
PROPERTIES
  CorrectionClears
CHECK_DEADLOCK FALSE
