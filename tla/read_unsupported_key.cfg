SPECIFICATION ReadSpec
INVARIANT UnboundMeansWrongAnswer
CHECK_DEADLOCK FALSE
