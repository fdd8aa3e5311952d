SPECIFICATION AdaptersSpec
CONSTANTS
  r1 = r1
  r2 = r2
  r3 = r3
  s1 = s1
  s2 = s2
  Runs <- MCRuns
  Scopes <- MCScopes
  ScopeOf <- MCScopeOf
  EventIds = {e1, e2, e3, e4}
  MaxSequence = 3
  Subscribed <- MCNone
  SqlAdapter = TRUE
  Callers = {c1, c2}
  OneAtATime = TRUE
SYMMETRY AdapterSymmetry
CONSTRAINT DesktopBound
CHECK_DEADLOCK FALSE
INVARIANTS
  LogInv
  ContextInv
  SqliteOutboxFollowsTerminal
PROPERTIES
  OnlyForward
  ImplementsScopeHistory
