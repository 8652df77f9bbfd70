SPECIFICATION PoolsSpec
CONSTANTS
  NumTasks = 3
  Limit = 2
CHECK_DEADLOCK FALSE
INVARIANTS LimitRespected AllRunOnce FirstErrorIsCause ResultsInOrder CallbacksInOrder
PROPERTY PoolTerminates
