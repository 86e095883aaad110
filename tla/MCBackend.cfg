CONSTANTS
  Chain <- Life
  Null = Null
  MaxFault = 1
  Sol = Sol
  Token = Token
  Other = Other
  None = None
  BatchSize = 2
  MaxLog = 2
  Requests = {r1, r2}
  Dirs = {d1}
  TTL = 2
  Cpus = 2
  Word = 64
  MaxTime = 3
SYMMETRY BackendSymmetry
SPECIFICATION MCSpec
INVARIANTS
  StageFollowsLog DetailNotTorn ImageShownUnlessEarly NothingMissedOnceInRedis
  OnlyPostedPoison ResolversAgree LiveRowMatchesStored RowsTellTheChain TicksTellTheChain
  FreshWithinTTL CpuWithinHost
PROPERTY FailsOnlyWithoutMetadata
CHECK_DEADLOCK FALSE
