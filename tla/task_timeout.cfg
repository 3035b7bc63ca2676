SPECIFICATION FairSpec
CONSTANTS
  Task = {t1}
  Agent = {a1}
  Run = {r1}
  Handoff = {}
  Proc = {p1, p2}
  Job = {j1, j2}
  None = None
  Reviewer = None
  MaxAttempts = 1
  AttemptBound = 0
  Ops = {"create", "delegate", "start", "resume", "heartbeat", "submit", "report", "cancel", "archive", "watchdog"}
  ParentInputs <- NoParent
  DepInputs <- NoDeps
INVARIANTS BlockedIsResumable
PROPERTIES  StaleTaskIsBlocked
CHECK_DEADLOCK FALSE
