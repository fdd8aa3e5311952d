SPECIFICATION TurnsSpec
CONSTANTS
  g1 = g1
  g2 = g2
  g3 = g3
  Senders = {"s1", "s2", "s3", "s4"}
  MessageOf <- MCFour
  Direct = {}
  Runs <- MCRuns
  Collaborative = FALSE
  Cancels = FALSE
  Connects = TRUE
  Closes = FALSE
  Crashes = FALSE
  Faults = FALSE
CHECK_DEADLOCK FALSE
INVARIANTS
  OneRunShown
  InputsServedOnce
