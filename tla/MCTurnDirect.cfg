SPECIFICATION TurnSpec
CONSTANTS
  EscalateAt = 2
  ModerateAt = 2
  MinimalAt = 3
  RejectAt = 4
  Sessions = {s1}
  NoSession = NoSession
  Calls = {t1, t2}
  Verdicts <- MCVerdicts
  Serialized = TRUE
  StoreFaults = FALSE
  MaxRetries = 1
INVARIANTS
  DirectSolutionRefused
CHECK_DEADLOCK FALSE
