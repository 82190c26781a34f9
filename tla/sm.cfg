SPECIFICATION Spec
CONSTANTS
  Modulus = 16
  Starts <- MCStarts
  MaxCalls = 3
  MaxSessions = 2
INVARIANTS
  AnswersOwnCall
  SuccessIsAuthentic
  Lockstep
PROPERTY ImplementsAtMostOnce
CHECK_DEADLOCK FALSE
