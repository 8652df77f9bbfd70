SPECIFICATION Spec
CONSTANTS
  NumCalls = 3
  MaxRuns = 3
  ToolLists <- TwoLists
  Modes = {"invoke", "stream"}
  Handovers = {TRUE, FALSE}
CHECK_DEADLOCK FALSE
INVARIANTS ResumeKeepsResults InterruptAccountsForAll ResumeReachesTool
PROPERTY ReturnsWhenAllDone
