SPECIFICATION HostSpec
CONSTANTS
  Procs = {p1, p2, p3}
  Sessions = {s1, s2}
  Runs = {r1}
  MaxVersion = 1
  None = None
  Agents = {"w1", "w2"}
  MaxTurns = 3
  MaxTokens = 3
  Budget = 99
  History <- NoHistory
  Memories = 0
  Resources = 0
  Results <- OneKind
  MaxCalls = 1
  MaxCost = 2
  SuspendingEmits = FALSE
  Faults = TRUE
SYMMETRY Alike
INVARIANT SessionsApart
INVARIANT LiveRunsKept
INVARIANT NoMoveUnderRun
INVARIANT TokensAccounted
PROPERTY MigrationAlone
