SPECIFICATION FairSpec
CONSTANTS
  N = 2
  Watcher = {w1, w2}
  MaxBatch = 1
  MaxRetries = 1
  MaxStops = 2
  None = None
INVARIANTS TypeOK
PROPERTIES RecordedNotRunAgain EventSettles
