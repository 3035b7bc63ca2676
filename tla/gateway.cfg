SPECIFICATION Spec
CONSTANTS
  c1 = c1
  c2 = c2
  None = None
  Command = {c1, c2}
  Workload <- MCWorkload
  Scopes <- MCScopes
  Capacity = 2
  Cost = 2
  Ttl = 5
  Times <- MCTimes
  MaxFaults = 1
  MaxChanges = 1
INVARIANTS AdmittedWithinRefill  
