SPECIFICATION WorkflowSpec
CONSTANTS
  Nodes <- MCNodes
  Canvases <- MCCanvases
  Branches <- MCBranches
  MaxSaves = 1
  Graphs <- MCGraphs
  MaxSteps = 6
INVARIANTS
  RunTellsTruth
  WalkFollowsGraph
PROPERTY WorkflowsEnd
CHECK_DEADLOCK FALSE
