CONSTANTS
  Chain <- Life
  Null = Null
  Ingesters = {js}
  BatchSize = 2
  MaxLog = 6
  MaxCrash = 1
SPECIFICATION FairSpec
INVARIANTS TypeOK NoSkippedRow TokenMatchesLog MigrationSticks
PROPERTY ImplementsReadModel
CHECK_DEADLOCK FALSE
