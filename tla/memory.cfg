SPECIFICATION FairSpec
CONSTANTS
  Event = {e1, e2, x1}
  Syncable = {e1, x1}
  Result = {x1}
  Worker = {w1, w2}
  Command = {c1}
  None = None
  MaxRetries = 2
  BatchSize = 2
  FileCap = 1
  MaxRotations = 1
INVARIANTS TypeOK 
PROPERTIES SettledNotRewritten QueueSpec QueuedIsTried
