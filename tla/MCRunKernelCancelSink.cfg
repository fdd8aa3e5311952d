SPECIFICATION FairSpec
CONSTANTS
  Agents = {"a1"}
  FailCallers = {}
  SuspendingJournal = FALSE
  HasSink = TRUE
  MaxDecisions = 1
  MaxAgentEvents = 1
  Actions = {"fail", "complete", "assign", "wait"}
  Aborts = {"token_budget_exhausted"}
  AgentErrors = FALSE
  WatchdogFires = FALSE
  Cancels = TRUE
  EarlyCalls = FALSE
  StoreFaults = {}
  RivalCommits = TRUE
CHECK_DEADLOCK FALSE
PROPERTIES
  CancelReturns
