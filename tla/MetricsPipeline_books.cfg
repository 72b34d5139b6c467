SPECIFICATION FairSpec
CONSTANTS
  Capacity = 2
  BatchSize = 2
  PruneEvery = 2
  Retention = 1
  MaxRecords = 5
  MaxDays = 2
INVARIANT TypeOK
INVARIANT Conserved
PROPERTY KeepsLog
PROPERTY EveryRecordSettles
CHECK_DEADLOCK FALSE
