SPECIFICATION Spec
CONSTANTS
  j1 = j1
  j2 = j2
  w1 = w1
  w2 = w2
  w3 = w3
  r1 = r1
  r2 = r2
  WorkerJob <- JobOfWorker
  ReaderJob <- JobOfReader
  Jobs = {j1}
  Workers = {w1}
  Watched = {}
  Deletable = {}
  Readers = {r1}
  MaxIters = 2
  MaxFaults = 1
  MaxCrashes = 0
  MaxDrops = 0
CHECK_DEADLOCK FALSE
INVARIANTS ReturnsTerminal ToldMeansDrained
