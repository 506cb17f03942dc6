SPECIFICATION GuardianSpec
CONSTANTS
  EscalateAt = 2
  ModerateAt = 2
  MinimalAt = 3
  RejectAt = 4
  Sessions = {s1}
  NoSession = NoSession
  Calls = {c1, c2, c3}
  Verdicts <- MCVerdicts
  Serialized = FALSE
  StoreFaults = FALSE
INVARIANTS
  ThreeViolationsEscalate
CHECK_DEADLOCK FALSE
