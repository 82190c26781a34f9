SPECIFICATION MCSpec
CONSTANTS
  IssuedSods <- MCIssuedSods
  OtherSods <- MCOtherSods
  GroupLists <- MCGroupLists
  AnchorLists <- MCAnchorLists
INVARIANTS
  BoundMeansOriginal
  TrustedMeansIssued
  AuthenticMeansIssued
  GenuineAccepted
  GroupsAreAccounted
PROPERTY LostTagNeverBlamed
CHECK_DEADLOCK FALSE
