SPECIFICATION Spec
CONSTANTS
  MaxTurns = 2
  MaxSessions = 2
  MaxRewrites = 1
  PerMinute = 1
  Budget = 1
INVARIANTS OverdraftBounded CachedIsStored
PROPERTIES TurnEnds Conversation
CHECK_DEADLOCK FALSE
