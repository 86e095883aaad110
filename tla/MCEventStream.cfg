CONSTANTS
  Conns = {1, 2}
  Ingesters = {js}
  Stats = {}
  Buffer = 1
  OutCap = 2
  BatchSize = 2
  MaxLog = 4
  MaxStat = 0
  Token = token
  None = None
SPECIFICATION Spec
INVARIANTS TypeOK NoHole
PROPERTY LiveInOrder
CHECK_DEADLOCK FALSE
