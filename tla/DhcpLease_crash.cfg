SPECIFICATION Spec
CONSTANTS
  c1 = c1
  c2 = c2
  Ids = {c1, c2}
  Addrs <- MCAddrs
  Subnet <- MCAddrs1
  XIDs = {x1}
  Hints = {NoAddr}
  Settings <- Shortening
  ProbeTime = 1
  OfferTime = 1
  QuarantineTime = 1
  QueueCap = 1
  BatchCap = 1
  NoAddr = NoAddr
  NoXid = NoXid
  NoEntry = NoEntry
  NoRow = NoRow
  NoMut = NoMut
  MaxTime = 2
  MaxSeq = 5
  MaxRestarts = 1
  Forward = 1
  Back = 1
SYMMETRY Clients
INVARIANTS
  NoDoubleGrant
  DurableFirst
PROPERTIES
  NakOnlyIneligible
CHECK_DEADLOCK FALSE
