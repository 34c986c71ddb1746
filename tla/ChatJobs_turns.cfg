SPECIFICATION FairSpec
CONSTANTS
  j1 = j1
  j2 = j2
  w1 = w1
  w2 = w2
  w3 = w3
  r1 = r1
  r2 = r2
  WorkerJob <- JobOfWorker
  ReaderJob <- JobOfReader
  Jobs = {j1}
  Workers = {w1, w2}
  Watched = {j1}
  Deletable = {j1}
  Readers = {r1}
  MaxIters = 2
  MaxFaults = 1
  MaxCrashes = 1
  MaxDrops = 1
CHECK_DEADLOCK FALSE
INVARIANTS RunsOnce
PROPERTIES LogSealed LifecycleRefined CancelHonoured JobSettles ReaderTold
