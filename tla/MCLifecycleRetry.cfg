SPECIFICATION Spec
CONSTANTS
  Sessions = {s1, s2}
  NoSession = NoSession
  Chats = {c1}
  NoChat = NoChat
  TTL = 1
  MaxTurns = 2
  MaxRestarts = 0
INVARIANTS
  TryAgainPossible
CHECK_DEADLOCK FALSE
