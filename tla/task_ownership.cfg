SPECIFICATION Spec
CONSTANTS
  Task = {t1, t2}
  Agent = {a1, a2}
  Run = {r1, r2}
  Handoff = {h1}
  Proc = {p1, p2}
  Job = {j1}
  None = None
  Reviewer = None
  MaxAttempts = 2
  AttemptBound = 2
  Ops = {"create", "delegate", "start", "resume", "handoff", "fail"}
  ParentInputs <- NoParent
  DepInputs <- NoDeps
SYMMETRY Symm
INVARIANTS TypeOK ActiveRunOwnedByAssignee StatusAgreesWithRun FailedIsExhausted HandoffConsumedByItsAgent
PROPERTIES AssignmentSpec
CHECK_DEADLOCK FALSE
