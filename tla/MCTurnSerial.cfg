SPECIFICATION TurnSpec
CONSTANTS
  EscalateAt = 2
  ModerateAt = 2
  MinimalAt = 2
  RejectAt = 2
  Sessions = {s1}
  NoSession = NoSession
  Calls = {t1, t2}
  Verdicts = {"DIRECT_SOLUTION", "ANSWER_FARMING"}
  Serialized = TRUE
  StoreFaults = TRUE
  MaxRetries = 1
INVARIANTS
  HistoryMatchesLedger
  RejectionsObeyed
PROPERTIES
  EveryTurnAnswered
CHECK_DEADLOCK FALSE
