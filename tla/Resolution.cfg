SPECIFICATION MCSpec
CONSTANTS
  Names <- PipelineNames
  Hash <- PipelineHash
  Devices = {"tv", "pc"}
  Questions <- PipelineQuestions
  Config <- PipelineConfig
  Replies <- PipelineReplies
  Private <- PipelinePrivate
  MaxLinks = 2
  MaxAsked = 1
  Keys <- CacheKeys
  Buckets = 2
  Ways = 2
  Bucket <- CacheBucket
  Blocks = 4
  Sizes = {1, 3}
  Lifetimes = {1}
  MaxStale = 1
  MaxTime = 2
  MaxVersion = 4
  Readers = {"p", "q"}
  Settings <- LeaseSettings
  Rows <- LeaseRows
  Addresses = {1, 2}
  MaxViews = 3
  Exchanges = {"x", "y"}
  Snapshots <- RouteSnapshots
  MaxRoutes = 2
  MaxClients = 5
  NoClient = NoClient
  MaxSockets = 2
  MaxPuts = 2
INVARIANTS
  AnswersAreOwn
  EffectiveMatchesDocument
  ArenaExact
  CapturedNames
  TransportsAccounted
PROPERTIES
  PreviewIsComplete
  ImplementsAnswerCache
CHECK_DEADLOCK FALSE
