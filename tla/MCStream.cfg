CONSTANTS
  Capacity = 2
  MaxCnt = 1
  MaxAsks = 3
  Senders = {s1, s2}
  NoSender = none
SPECIFICATION FairSpec
INVARIANTS OneThreadOneHandle
PROPERTIES ClientGivesUp StopTakesEffect
CHECK_DEADLOCK FALSE
