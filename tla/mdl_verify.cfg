SPECIFICATION Spec
CONSTANTS
  Documents <- MCDocuments
  MaxDocuments = 2
  Built <- MCBuilt
  Candidates <- MCCandidates
  MaxStart = 1
  MaxTime = 3
  MsoWindow <- MCMsoWindow
  CertificateWindow = {0}
  Period = 1
  MaxStale = 1
INVARIANTS
  IssuedAsShown
  PresenceIsProven
  NoFalseAccusation
  TrustIsAccounted
  OneInstant
CHECK_DEADLOCK FALSE
