CONSTANTS
  Chain <- Life
  Null = Null
  Ingesters = {js, http}
  BatchSize = 2
  MaxLog = 6
  MaxCrash = 1
SPECIFICATION Spec
INVARIANT NoSkippedRow
CHECK_DEADLOCK FALSE
