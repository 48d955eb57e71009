CONSTANTS
  t1 = t1
  t2 = t2
  a1 = a1
  a2 = a2
  s1 = s1
  s2 = s2
  None = None
  Threads = {t1, t2}
  Actors <- TwoActors
  Slots = {s1}
  MaxDepth = 2
  MaxCalls = 2
  Hosted = FALSE
  Calls <- Upward
  BorrowReceiver = TRUE
SPECIFICATION FairSpec
PROPERTIES
  DroppedIsReclaimed
  EveryCallReturns
CHECK_DEADLOCK FALSE
