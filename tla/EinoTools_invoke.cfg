SPECIFICATION Spec
CONSTANTS
  NumCalls = 3
  MaxRuns = 2
  ToolLists <- OnePlainList
  Modes = {"invoke"}
  Handovers = {TRUE}
CHECK_DEADLOCK FALSE
INVARIANT SavedToolsNotRunAgain
