SPECIFICATION FairSpec
CONSTANTS
  Conn = {c1, c2}
  Leaver = {c1}
  Msg = {m1}
  TaskMsg = {m1}
  JobMsg = {m1}
  Cap = 1
  None = None
INVARIANTS FeedInOrder DeliveredOrFull
PROPERTIES LostClientIsUnsubscribed
CHECK_DEADLOCK FALSE
