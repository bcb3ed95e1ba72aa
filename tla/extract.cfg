SPECIFICATION FairSpec
CONSTANTS
  NumRows = 4
  Blank <- SecondBlank
  MaxWorkers = 2
  JobsPerWorker = 1
  ResultsPerWorker = 1
  MaxSessionParallel = 1
  WorkerAttempts = 2
  SessionRetries = 2
  MaxPanics = 1
  MaxWriteErrors = 1
CHECK_DEADLOCK FALSE
INVARIANTS
  TypeOK
  CounterExact
PROPERTIES EveryRunReturns RefinesLedger
