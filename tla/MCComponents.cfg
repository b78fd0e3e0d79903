CONSTANTS
  MaxMoves = 3
  MaxEdits = 2
  MaxFaults = 2
  Default = "default"
  Edited = "edited"
  Cut = "cut"
  Modulus = 16
  Room = 3
  MaxData = 2
  MaxOpens = 2
  MaxFd = 3
  MaxCalls = 5
  Chunk = 2
  MaxUnits = 3
  Devices = {d1, d2}
SPECIFICATION Spec
INVARIANTS MixedOneWay ParametersTrue WrongUses WholeOrCut SharedSocket DescriptorsKept AcceptsExact RepliesBehind
PROPERTIES PositionArrives ComesUp NobodyStuck SearchFinds ThreadEnds
CHECK_DEADLOCK FALSE
