SPECIFICATION FairWatchSpec
CONSTANTS
  Item <- MCItem
  Backlog <- MCBacklog
  Project <- MCProject
  Filter = {"mention", "task_delegated"}
  IncludeSelf = FALSE
  FileCap = 1
  MaxBackups = 1
  MaxStarts = 2
  MaxFaults = 1
  Greeting = Greeting
  Nil = Nil
PROPERTIES CommandSettles
INVARIANTS OldestLostFirst 

CHECK_DEADLOCK FALSE
