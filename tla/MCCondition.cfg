SPECIFICATION ConditionSpec
CONSTANTS
  t1 = t1
  t2 = t2
  t3 = t3
  nil = nil
  Thread <- MCThread
  MaxDepth = 2
  MaxItems = 2
INVARIANTS
  LockExact
  WaitersExact
  NoLostNotify
CHECK_DEADLOCK FALSE
