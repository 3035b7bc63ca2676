SPECIFICATION FairSpec
CONSTANTS
  Conn = {c1, c2}
  FaultBound = 1
PROPERTIES  LiveComesBack
CHECK_DEADLOCK FALSE
