SPECIFICATION PromptSpec
CONSTANTS
  Jobs = {j1}
  Workers = {w1}
  NoJob = NoJob
  MaxAttempts = 2
  BatchLimit = 1
  MaxRestarts = 1
  MaxFaults = 1
  FaultKinds <- TxFaults
CHECK_DEADLOCK FALSE
PROPERTY NoStuckRun
