CONSTANTS
  Senders = {s1}
  Receiver = r
  Frames = {f1, f2}
  NoFrame = none
  Torn = torn
  Parts = {w1, w2}
  StateWord = stateWord
  Class <- VideoClass
  PromptHolders = FALSE
  ProgramOrder = TRUE
  SenderFaults = 1
  ReceiverFaults = 2
SPECIFICATION Spec
INVARIANTS PermitsAccounted NoTornFrame
SYMMETRY Symmetry
