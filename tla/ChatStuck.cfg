SPECIFICATION Spec
CONSTANTS
  MaxMessages = 6
  MaxHistory = 3
  MaxTurns = 8
INVARIANTS RetryIsAConversation
