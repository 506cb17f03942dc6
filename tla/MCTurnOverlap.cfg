SPECIFICATION TurnSpec
CONSTANTS
  EscalateAt = 2
  ModerateAt = 2
  MinimalAt = 2
  RejectAt = 2
  Sessions = {s1}
  NoSession = NoSession
  Calls = {t1, t2}
  Verdicts = {"DIRECT_SOLUTION", "ANSWER_FARMING"}
  Serialized = FALSE
  StoreFaults = TRUE
  MaxRetries = 1
SYMMETRY TurnSymmetry
INVARIANTS
  NeverOvercounts
  EscalationEarned
  AuditComplete
  AnswersExplained
  RefusalsEarned
  TurnsRecordedInOrder
PROPERTIES
  ClosedSessionsFrozen
CHECK_DEADLOCK FALSE
