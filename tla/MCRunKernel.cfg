SPECIFICATION RoomsSpec
CONSTANTS
  Agents = {"w1"}
  MaxTurns = 3
  MaxTokens = 9
  Budget = 5
  History <- TwoTurns
  Memories = 1
  Resources = 1
  Results <- ThreeKinds
  MaxCalls = 2
  MaxCost = 1
  SuspendingEmits = TRUE
  Faults = TRUE
CHECK_DEADLOCK FALSE
INVARIANTS
  OperationsAccountedFor
  PromptsWellFormed
  KernelEndsInTruth
