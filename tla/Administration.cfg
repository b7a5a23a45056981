SPECIFICATION MCSpec
CONSTANTS
  Widths <- SmallWidths
  Retentions <- SmallRetentions
  Capacity = 1
  MaxBatch = 2
  ExpireLimit = 1
  MaxDelay = 1
  MaxTime = 4
  MaxEvents = 2
  MaxBoots = 2
  r1 = r1
  r2 = r2
  r3 = r3
  NoRule = NoRule
  Rules <- BlockingRules
  Slot <- RuleSlot
  QueueLimit = 1
  SweepLimit = 1
  MaxObserved = 4
  PageLimit = 2
  MaxCutoff = 3
  MaxRows = 4
  Plans <- NamePlans
  Addresses = {1}
  Answers = {"pc"}
  HostRank = 2
  Life = 1
  NameLife = 2
  Retention = 2
  NameLimit = 1
  NameTime = 3
  NameBoots = 1
  Logins = {"l", "m"}
  Changes = {"c"}
  Hashes = {"p", "q"}
  NoHash = NoHash
  MaxAttempts = 1
  MaxSessions = 1
  SessionTTL = 1
  MaxVersions = 3
  MaxWindows = 1
  MaxIds = 2
  Tokens = {"t", "u", "w"}
  NoFile = NoFile
  MaxTokens = 2
  MaxCrashes = 2
INVARIANTS
  CompleteIsExact
  PagesExact
  ShownIsKnown
  CredentialsCurrent
PROPERTIES
  ExplanationStays
  SweepLeavesNothing
  NeverOlder
CHECK_DEADLOCK FALSE
