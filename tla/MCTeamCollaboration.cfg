SPECIFICATION RoomsSpec
CONSTANTS
  Team <- MCTwo
  Mentioned = {}
  Summary = "b"
  Users = {"u"}
  Invalid = {}
  MaxMessages = 2
  MaxTurns = 3
  MaxThreads = 1
  Calls = 1
  Stops = {}
  Faults = FALSE
INVARIANTS
  InboxMirrorsJournal
  BudgetsHeld
  NothingLeftBehind
PROPERTIES
  StatusMovesOn
  FairRunEnds
