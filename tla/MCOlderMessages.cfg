SPECIFICATION Spec
CONSTANTS
  MaxTurns = 2
  PageSize = 2
  MaxLoads = 2

PROPERTY OlderMessagesAreOlder
CHECK_DEADLOCK FALSE
