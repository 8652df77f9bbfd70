SPECIFICATION Spec
CONSTANTS
  Children = {c1, c2, c3}
  Chunks = {v1, v2}
  EOF = EOF
  Zero = Zero
  MaxItems = 2
CHECK_DEADLOCK FALSE
INVARIANTS OneSourceUser ClosedUnlessPanic
PROPERTIES ImplementsBroadcast RecvReturns
