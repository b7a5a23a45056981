SPECIFICATION MCSpec
CONSTANTS
  Clients = {c1, c2, c3}
  Keys = {k1, k2}
  Works = {f1, f2, f3}
  NoWork = NoWork
  MaxFlights = 2
  MaxWaiters = 2
  MaxRefresh = 1
  Slots <- OneOfEach
  Workers = {w}
  Connections = {c}
  MaxConnections = 1
  MaxJobs = 2
  None = None
INVARIANTS
  BudgetExact
  JoinableIsLive
  ResourcesOutliveUsers
PROPERTIES
  CloseCompletes
  StopCompletes
CHECK_DEADLOCK FALSE
