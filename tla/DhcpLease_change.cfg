SPECIFICATION FairSpec
CONSTANTS
  c1 = c1
  c2 = c2
  Ids = {c1, c2}
  Addrs <- MCAddrs
  Subnet <- MCAddrs
  XIDs = {x1}
  Hints = {NoAddr, 2}
  Settings <- Moving
  ProbeTime = 1
  OfferTime = 1
  QuarantineTime = 2
  QueueCap = 2
  BatchCap = 2
  NoAddr = NoAddr
  NoXid = NoXid
  NoEntry = NoEntry
  NoRow = NoRow
  NoMut = NoMut
  MaxTime = 2
  MaxSeq = 4
  MaxRestarts = 0
  Forward = 0
  Back = 0
INVARIANTS
  WritesApply
PROPERTIES
  WritesSettle
  ApplyAnswered
CHECK_DEADLOCK FALSE
