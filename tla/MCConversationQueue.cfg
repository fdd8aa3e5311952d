SPECIFICATION FairSpec
CONSTANTS
  g1 = g1
  g2 = g2
  g3 = g3
  Senders = {"s1", "s2", "s3"}
  MessageOf <- MCDistinct
  Direct = {}
  Runs <- MCRuns
  Collaborative = FALSE
  Cancels = FALSE
  Connects = FALSE
  Closes = FALSE
  Crashes = FALSE
  Faults = FALSE
CHECK_DEADLOCK FALSE
PROPERTIES
  QueuedInputStarts
