SPECIFICATION Spec
CONSTANTS
  Preserve = 1
  Procs = {p1, p2}
  MaxRotated = 1
  RotateLen = 2
  Openings <- TwoOpenings
  MaxStarts = 3
  MaxCommands = 2
  MaxSaid = 5
  MaxTicks = 1
SYMMETRY ProcSymmetry
CHECK_DEADLOCK FALSE
INVARIANTS ConversationWhole LatestIsCurrent ClearKeepsBackup
