CONSTANTS
  Inodes = {1}
  Capacity = 2
  MaxStarts = 1
  MaxSends = 1
SPECIFICATION FairSpec
PROPERTIES CreatorRemovesQueue
CHECK_DEADLOCK FALSE
