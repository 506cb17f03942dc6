SPECIFICATION Spec
CONSTANTS
  Sessions = {s1, s2}
  NoSession = NoSession
  Chats = {c1}
  NoChat = NoChat
  TTL = 1
  MaxTurns = 2
  MaxRestarts = 1
INVARIANTS
  EndedAtMostOnce
  RegisteredRowsActive
  OpenRowsExplained
PROPERTIES
  AskedSessionsKept
  LeftSessionsEvicted
CHECK_DEADLOCK FALSE
