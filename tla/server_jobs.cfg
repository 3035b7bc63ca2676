\* One task, one handoff, two passes at a time, one job per behaviour.
SPECIFICATION FairSpec
CONSTANTS
  Task = {t1}
  Handoff = {h1}
  Day = d1
  Job = {j1, j2}
  Focus <- MCFocus
  MaxResult = 1
  MaxMessage = 2
  BusyMaxAttempts = 2
  None = None
INVARIANTS MarkedIsReadable DrainedAtShutdown NoticeThrottled
  
