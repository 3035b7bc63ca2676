SPECIFICATION Spec
CONSTANTS
  Task = {t1, t2, t3}
  Agent = {a1}
  Run = {r1}
  Handoff = {}
  Proc = {p1, p2}
  Job = {j1}
  None = None
  Reviewer = a1
  MaxAttempts = 1
  AttemptBound = 0
  Ops = {"create", "start", "submit", "review"}
  ParentInputs <- AnyParent
  DepInputs <- OneDep
SYMMETRY Symm
INVARIANTS  NoDependencyCycle
CHECK_DEADLOCK FALSE
