SPECIFICATION LiveSpec
CONSTANTS
  g1 = g1
  g2 = g2
  g3 = g3
  Senders = {"s1", "s2"}
  MessageOf <- MCDistinct
  Direct = {}
  Runs <- MCRuns
  Collaborative = FALSE
  Cancels = TRUE
  Connects = FALSE
  Closes = TRUE
  Crashes = FALSE
  Faults = FALSE
CHECK_DEADLOCK FALSE
INVARIANTS
  AtMostOnce
PROPERTIES
  NobodyWaits
