CONSTANTS
  Conns = {1}
  Ingesters = {js}
  Stats = {stat}
  Buffer = 1
  OutCap = 2
  BatchSize = 2
  MaxLog = 3
  MaxStat = 1
  Token = token
  None = None
SPECIFICATION FairSpec
PROPERTY Delivered
CHECK_DEADLOCK FALSE
