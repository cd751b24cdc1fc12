SPECIFICATION Spec
CONSTANTS
  main = main
  a = a
  b = b
  o1 = o1
  o2 = o2
  nil = nil
  Main = main
  Task <- MCTask
  Op = {}
  Programs <- LockPrograms
  Submitted = {}
  Cancellable <- MCTask
  Permits = 1
  QueueSize = 1
  MaxItems = 2
INVARIANTS
  FreeLockWakesWaiter
CHECK_DEADLOCK FALSE
