SPECIFICATION Spec
CONSTANTS
  MaxExchanges = 4
  MaxSessions = 0
PROPERTY ElidedIsRedundant
CHECK_DEADLOCK FALSE
