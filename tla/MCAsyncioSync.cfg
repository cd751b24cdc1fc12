SPECIFICATION Spec
CONSTANTS
  main = main
  a = a
  b = b
  o1 = o1
  o2 = o2
  nil = nil
  Main = main
  Task <- MCTask
  Op = {}
  Programs <- SyncPrograms
  Submitted = {}
  Cancellable <- MCTask
  Permits = 2
  QueueSize = 1
  MaxItems = 3
INVARIANTS
  LockHandover
  PermitsAccounted
  QueueWaitsJust
CHECK_DEADLOCK FALSE
