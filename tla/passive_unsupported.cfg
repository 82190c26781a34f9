SPECIFICATION Spec
CONSTANTS
  IssuedSods <- MCIssuedSods
  OtherSods <- MCOtherSods
  GroupLists <- MCGroupLists
  AnchorLists <- MCAnchorLists
INVARIANT NotAuthenticMeansAltered
CHECK_DEADLOCK FALSE
