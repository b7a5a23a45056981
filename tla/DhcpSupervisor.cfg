SPECIFICATION FairSpec
CONSTANTS
  Settings <- Edits
  Runtimes = {r1, r2}
  None = None
  Faults = TRUE
INVARIANTS
  ExclusiveOwner
  VisibleIsApplied
PROPERTIES
  Converges
  Released
CHECK_DEADLOCK FALSE
