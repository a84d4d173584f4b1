SPECIFICATION FairSpec
CONSTANTS
  Codes <- MCCodes
  Keys <- MCKeys
  Commands <- MCCommands
INVARIANTS
  RecoveryGatesCommands
  ReportMatchesDebt
PROPERTIES
  GoodIsEarned
  DebtClearedOnlyByReset
  ImplementsTransport
\* A destroyed transport takes no further call.
CHECK_DEADLOCK FALSE
