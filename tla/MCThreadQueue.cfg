SPECIFICATION Spec
CONSTANTS
  t1 = t1
  t2 = t2
  t3 = t3
  Thread <- MCThread
  MaxSizes <- MCMaxSizes
  MaxTasks = 3
INVARIANTS
  SleepersQueued
  NoLostItem
  NoLostSlot
  JoinersHaveWork
  ShutdownWakesAll
PROPERTIES
  ImplementsTaskQueue
  BlockedCallsReturn
  JoinReturns
