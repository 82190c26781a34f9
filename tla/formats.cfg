SPECIFICATION MCSpec
CONSTANTS
  Sessions <- MCSessions
  Commands <- MCCommands
  Bodies <- MCBodies
  Statuses <- MCStatuses
  Protected <- MCProtected
  AlterMax = 35
  Files <- MCFiles
  CardAccess <- MCCardAccess
  Holders <- MCHolders
  MdlCalls <- MCMdlCalls
  OpenIdCalls <- MCOpenIdCalls
  ReadCalls <- MCReadCalls
  Wallets <- MCWallets
  Passports <- MCPassports
INVARIANTS
  CommandIsUnderstood
  AnswerIsAsMeant
  FileIsReadAsWritten
  
  MisreadIsMendedOrRefused
  AnswerIsForThisSession
  AnswerIsTheVerdict
CHECK_DEADLOCK FALSE
