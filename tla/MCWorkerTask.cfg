CONSTANTS
  Controllers = {c1, c2}
  StopsAlone = TRUE
  MaxWorkers = 3
SPECIFICATION FairSpec
INVARIANTS WorkersSound
PROPERTIES QuietAfterStop NoStaleClear ControllersReturn
