SPECIFICATION LiveSpec
CONSTANTS
  Agents = {"a1", "a2"}
  FailCallers = {}
  SuspendingJournal = FALSE
  HasSink = FALSE
  MaxDecisions = 1
  MaxAgentEvents = 1
  Actions = {"fail", "complete", "assign", "wait"}
  Aborts = {"token_budget_exhausted"}
  AgentErrors = FALSE
  WatchdogFires = TRUE
  Cancels = TRUE
  EarlyCalls = FALSE
  StoreFaults = {}
  RivalCommits = TRUE
CHECK_DEADLOCK FALSE
INVARIANTS
  EndsInTruth
  EndingsEarned
PROPERTIES
  ResultArrives
  CallersDecided
  ImplementsOutcome
