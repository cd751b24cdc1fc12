SPECIFICATION Spec
CONSTANTS
  main = main
  a = a
  b = b
  o1 = o1
  o2 = o2
  nil = nil
  Main = main
  Task = {main, a}
  Op <- MCOp
  Programs <- LoopPrograms
  Submitted = {a}
  Cancellable = {a}
  Permits = 1
  QueueSize = 1
  MaxItems = 2
INVARIANTS
  NoLostCallback
  NoPrematureStop
  CancelReachesTask
PROPERTIES
  ResultDelivered
CHECK_DEADLOCK FALSE
