SPECIFICATION FairSpec
CONSTANTS
  Runs = {r1, r2}
  NoRun = NoRun
  Base = {n1, n2}
  Corr = {c1}
  Large = {n2}
  MaxParallel = 2
  MaxCrashes = 1
  MaxStalls = 2
CHECK_DEADLOCK FALSE
INVARIANTS
  TypeOK
  NoPartialObject
  SuccessIsComplete
PROPERTY EveryRunEnds
