SPECIFICATION FairSpec
CONSTANTS
  e1 = e1
  e2 = e2
  Exchanges = {x1, x2}
  Primary <- TwoPrimary
  Fallback <- NoFallback
  Adaptive = TRUE
  NoEndpoint = NoEndpoint
  MaxOutstanding = 2
  MaxAttempts = 2
  FailureThreshold = 2
  OpenInterval = 1
  MaxBackoff = 2
INVARIANTS
  ProbeHasOwner
  CircuitConsistent
PROPERTIES
  OnlyProbeCloses
  Recovers
