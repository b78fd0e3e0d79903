CONSTANTS
  Senders = {s1, s2}
  Receiver = r
  Frames = {f1, f2}
  NoFrame = none
  Torn = torn
  Parts = {w1, w2}
  StateWord = stateWord
  Class <- ImpatientAudio
  PromptHolders = TRUE
  ProgramOrder = FALSE
  SenderFaults = 0
  ReceiverFaults = 1
SPECIFICATION Spec
INVARIANTS MutualExclusion DuplicatesOnlyAfterRestart
PROPERTIES ImplementsMailbox
SYMMETRY Symmetry
