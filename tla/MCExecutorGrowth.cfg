SPECIFICATION Spec
CONSTANTS
  f1 = f1
  f2 = f2
  f3 = f3
  c1 = c1
  Fut <- MCFut
  Callback <- MCCallback
  Registrations <- MCRegistrations
  MaxWorkers = 2
  nil = nil
PROPERTIES
  FreshItemGetsAWorker
CHECK_DEADLOCK FALSE
