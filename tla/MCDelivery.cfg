SPECIFICATION DeliverySpec
CONSTANTS
  N = 3
  PageSize = 1
  Crashes = 0
  Drops = 2
  TxFails = 0
  PageFails = 1
  Writes = 1
  Sockets = {"a", "b"}
  Emitters = {"projector", "request"}
  Events = 2
CHECK_DEADLOCK FALSE
INVARIANTS
  UnwrittenRecordIsTrue
  ShownInOrder
  OnceAndInOrder
PROPERTIES
  FairProjectionConverges
  FairCaughtUp
