CONSTANTS
  Inodes = {1}
  Capacity = 2
  MaxStarts = 2
  MaxSends = 2
SPECIFICATION FairSpec
INVARIANTS EventsInOrder Connected NoThreadAfterDeinit
PROPERTIES WokenDeinitReturns EventsDelivered
CHECK_DEADLOCK FALSE
