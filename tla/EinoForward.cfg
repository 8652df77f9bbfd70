SPECIFICATION ForwardSpec
CONSTANTS
  Items = {i1, i2, panic}
  PanicErr = panic
  Cap = 1
  Closers = {c1, c2}
  AutoClose = TRUE
  MaxSends = 3
CHECK_DEADLOCK FALSE
INVARIANTS LateSendRejected NoDoubleClose EOFIsComplete StopsWithReceiver
PROPERTY NobodyHangs
