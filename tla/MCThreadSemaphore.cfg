SPECIFICATION SemaphoreSpec
CONSTANTS
  t1 = t1
  t2 = t2
  t3 = t3
  Thread <- MCThread
  Initials <- MCInitials
  MaxN = 2
  MaxValue = 3
INVARIANTS
  SleepersQueued
  NoLostWakeup
PROPERTIES
  ImplementsSemaphore
  RefusedOnlyIfClaimed
  PermitReachesSleeper
  TimedAcquireReturns
CHECK_DEADLOCK FALSE
