SPECIFICATION SessionSpec
CONSTANTS
  Jobs = {j1, j2}
  Health = {h1}
  Evictors = {e1}
  Bench = bench
  Cases = 2
  Nobody = Nobody
  NoTask = NoTask
  Depth = 1
  Patience = 1
  MaxProgress = 1
  MaxNoise = 1
  Flood = FALSE
  Faults = {"error", "hang", "noise"}
INVARIANT ResultsAreOwn
PROPERTIES CallsReturn WorkerComesBack
CHECK_DEADLOCK FALSE
