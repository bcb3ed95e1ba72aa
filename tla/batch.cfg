SPECIFICATION FairBatchSpec
CONSTANTS
  Tenders = {t1, t2, t3, t4}
  NoTender = NoTender
  MaxDownloadWorkers = 2
  Attempts = 3
  MaxBatches = 3
CHECK_DEADLOCK FALSE
INVARIANT BatchExact
PROPERTY EveryCallReturns
