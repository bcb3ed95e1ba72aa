SPECIFICATION FairSpec
CONSTANTS
  Messages = {m1, m2, m3, m4}
  Workers = {w1, w2, w3}
  NoMessage = NoMessage
  Prefetch = 3
  MaxNacks = 2
CHECK_DEADLOCK FALSE
INVARIANTS
  HeldOnce
  MessageAccounted
PROPERTIES
  EveryMessageDone
  EveryConsumerEnds
