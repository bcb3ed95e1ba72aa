SPECIFICATION FairSpec
CONSTANTS
  Days <- FewDays
  ChunkSizes <- FewSizes
  Portals = {p1}
  Pages = 2
  MaxWorkers = 2
  MaxSessionParallel = 1
  RowsCap = 1
  FailsCap = 1
CHECK_DEADLOCK FALSE
INVARIANTS
  TypeOK
  EveryDayOnce
  SlotsExact
  DaySearchedOnce
  
PROPERTY EveryPortalEnds
