SPECIFICATION FairSpec
CONSTANTS
  Jobs = {j1, j2}
  Workers = {w1, w2}
  NoJob = NoJob
  MaxAttempts = 2
  BatchLimit = 1
  MaxRestarts = 1
  MaxFaults = 1
  FaultKinds <- AllFaults
CHECK_DEADLOCK FALSE
INVARIANTS
  TypeOK
  ClaimExclusive
  HandOffOnce
  HandOffRecorded
  NoLostJob
PROPERTIES
  RefinesLifecycle
  EveryJobSettles
