SPECIFICATION HandshakeSpec
CONSTANTS
  MaxAttempts = 2
  MaxChallenges = 3
  MaxSecrets = 4
  MaxChipRuns = 2
  Scalars = {1, 3, 4}
  Nonces = {0, 1, 14}
  Lengths = {"S128", "S192"}
  P = 23
  Q = 11
  G = 2
  F = 11
  CurveA = 1
  CurveB = 6
  BaseX = 2
  BaseY = 7
  N = 13
  CoordLen = 2
  Radix = 5
  NumberLen = 3
INVARIANTS
  SessionAgreement
  SessionOneRun
  PrintedChipComesThrough
  SeedIsInGroup
CHECK_DEADLOCK FALSE
