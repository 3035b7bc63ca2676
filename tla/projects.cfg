SPECIFICATION Spec
CONSTANTS
  p1 = p1
  t1 = t1
  t2 = t2
  Project <- OneProject
  Task <- Tasks
  Root <- Roots
  Agent = {a1}
  Required = {t1}
  Request = {r1, r2}
  Patchable = {"blocked", "review"}
  MaxFaults = 1
  None = None
 
PROPERTIES ArchiveSticks
