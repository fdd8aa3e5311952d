SPECIFICATION DaysSpec
CONSTANTS
  Runs = {r1, r2}
  ScopeOf <- MCScopeOf
  Users = {u1, u2}
  Contents = {c1, c2}
  MaxMemories = 2
  MaxRevision = 3
  MaxSources = 1
  None = None
SYMMETRY Alike
CHECK_DEADLOCK FALSE
INVARIANTS
  CandidatesAwaited
  IndexIsCurrent
PROPERTIES
  ForgottenForGood
  NoLostEdit
  OnlyCurrentSent
