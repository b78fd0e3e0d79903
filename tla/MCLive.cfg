CONSTANTS
  Senders = {s1, s2}
  Receiver = r
  Frames = {f1}
  NoFrame = none
  Torn = torn
  Parts = {w1}
  StateWord = stateWord
  Class <- ImpatientTalk
  PromptHolders = TRUE
  ProgramOrder = TRUE
  SenderFaults = 1
  ReceiverFaults = 1
SPECIFICATION FairSpec
PROPERTIES SendReturns FrameConsumed
