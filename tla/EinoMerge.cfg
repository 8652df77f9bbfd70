SPECIFICATION Spec
CONSTANTS
  v1 = v1
  v2 = v2
  Merges <- MCMerges
  MaxSelect = 2
  Items = {v1}
  MaxItems = 2
CHECK_DEADLOCK FALSE
INVARIANTS EndsAfterLastItem
PROPERTY RecvEnds
