CONSTANTS
  Inodes = {1, 2}
  MaxStarts = 1
  PromptHolders = TRUE
SPECIFICATION Spec
PROPERTIES SetvalInitialises
CHECK_DEADLOCK FALSE
