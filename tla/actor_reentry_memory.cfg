CONSTANTS
  t1 = t1
  t2 = t2
  a1 = a1
  a2 = a2
  s1 = s1
  s2 = s2
  None = None
  Threads = {t1, t2}
  Actors <- OneActor
  Slots = {s1, s2}
  MaxDepth = 2
  MaxCalls = 3
  Hosted = TRUE
  Calls <- SelfCall
  BorrowReceiver = TRUE
SPECIFICATION Spec
SYMMETRY Symmetric
INVARIANTS
  NoUseAfterFree
  AllReclaimed
CHECK_DEADLOCK FALSE
