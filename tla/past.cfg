SPECIFICATION FairSpec
CONSTANTS
  NumPortals = 3
  NumRecords <- ThreePortals
  RecordsCap = 2
  MaxSessionParallel = 1
  MaxSessionFailures = 3
CHECK_DEADLOCK FALSE
INVARIANT RecordKeptOnce
PROPERTY EveryRunReturns
