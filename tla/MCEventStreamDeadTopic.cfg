CONSTANTS
  Conns = {1}
  Ingesters = {js}
  Stats = {}
  Buffer = 1
  OutCap = 2
  BatchSize = 2
  MaxLog = 3
  MaxStat = 0
  Token = token
  None = None
SPECIFICATION Spec
INVARIANT NoDeadTopic
CHECK_DEADLOCK FALSE
