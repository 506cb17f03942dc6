SPECIFICATION BoundedSpec
CONSTANTS
  EscalateAt = 3
  ModerateAt = 12
  MinimalAt = 14
  RejectAt = 16
  Sessions = {s1}
  MaxQuestions = 17
INVARIANTS
  EscalatedExactlyAtThreshold
PROPERTIES
  GuidanceNeverRelaxes
CHECK_DEADLOCK FALSE
