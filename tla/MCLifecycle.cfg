CONSTANTS
  Inodes = {1, 2}
  MaxStarts = 2
  PromptHolders = TRUE
SPECIFICATION Spec
INVARIANTS SameChannel OnePermit PeersUndisturbed
PROPERTIES DrainedBeforeRemoval
CHECK_DEADLOCK FALSE
