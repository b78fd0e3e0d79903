CONSTANTS
  Callers = {c1, c2}
  Programs = {"gbSvr", "hi3556"}
  MaxMsgs = 3
SPECIFICATION FairSpec
INVARIANTS NoWorkerUnwanted NothingUnasked
PROPERTIES OthersKept TalkFallsSilent
CHECK_DEADLOCK FALSE
