SPECIFICATION SafetySpec
CONSTANTS
  v1 = v1
  v2 = v2
  Merges <- Streams1To2
  MaxSelect = 5
  Items = {v1}
  MaxItems = 1
CHECK_DEADLOCK FALSE
INVARIANT RecvNeverPanics
