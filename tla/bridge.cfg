SPECIFICATION Spec
CONSTANTS
  Worker = {w1, w2}
  Apdu = {a1, a2}
  NoApdu = NoApdu
  Failed = Failed
  TimedOut = TimedOut
INVARIANTS
  OwnAnswer
  HostNeverBlocks
  RefusedOnlyWhenSettled
  NoStaleEntry
PROPERTY EveryCallReturns
CHECK_DEADLOCK FALSE
