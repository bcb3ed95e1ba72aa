SPECIFICATION Spec
CONSTANTS
  NumRows = 2
  Blank <- NoneBlank
  MaxWorkers = 1
  JobsPerWorker = 1
  ResultsPerWorker = 1
  MaxSessionParallel = 1
  WorkerAttempts = 1
  SessionRetries = 1
  MaxPanics = 0
  MaxWriteErrors = 0
CHECK_DEADLOCK FALSE
INVARIANT CancelMeansDone
