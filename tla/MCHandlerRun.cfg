SPECIFICATION FairSpec
CONSTANTS
  N = 5
  Bundle = {4}
  Here = here
  here = here
  broken = broken
  padded = padded
  Dirs = {here, broken, padded}
  Lines <- MCLines
  Trim <- MCTrim
  Handler <- MCHandler
  Events = {"session_start", "prompt", "stop", "tool_call"}
  FlushEvents = {"session_start", "prompt", "stop"}
  MaxTimeout = 2
  Budget <- MCBudget
  AgentTimeout = 1
  MaxClock = 3
CHECK_DEADLOCK FALSE
INVARIANTS RunInv BudgetKept
PROPERTIES OwnExitOnly InTimeHeard AdmitsOnPass RunEnds
