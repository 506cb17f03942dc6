SPECIFICATION GuardianSpec
CONSTANTS
  EscalateAt = 2
  ModerateAt = 2
  MinimalAt = 3
  RejectAt = 4
  Sessions = {s1}
  NoSession = NoSession
  Calls = {c1, c2, c3}
  Verdicts <- MCVerdicts
  Serialized = TRUE
  StoreFaults = TRUE
INVARIANTS
  CountersExact
  ThreeViolationsEscalate
PROPERTIES
  EscalationKept
  SubsequentTurnsRejected
  ImplementsLedger
CHECK_DEADLOCK FALSE
