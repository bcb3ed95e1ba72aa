SPECIFICATION FairSpec
CONSTANTS
  NumUrls = 3
  MaxSessionParallel = 2
  MaxRetries = 2
  MaxPolls = 3
  BatchSize = 2
  TableRows = 4
  ValidRows <- McValidRows
  EarlierRun <- McEarlierRun
  MaxSaveFaults = 2
CHECK_DEADLOCK FALSE
INVARIANTS
  FileExact
  ReturnExact
PROPERTY EveryCrawlEnds
