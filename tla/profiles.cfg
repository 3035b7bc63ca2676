SPECIFICATION Spec
CONSTANTS
  Proc = {p1, p2}
  Profile = {default, work}
  Default = default
  Token = {t1, t2}
  LegacyToken = old
  Legacy = legacy
  None = None
  Empty = Empty
  MaxCommands = 3
  MaxFaults = 1
SYMMETRY Symm
INVARIANTS RegistryIntact LegacyKept
 
CHECK_DEADLOCK FALSE
