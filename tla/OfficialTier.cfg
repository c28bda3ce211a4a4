CONSTANTS
  MaxParticipantAttempts = 3
  MaxInfrastructureFailures = 3
  MaxRuns = 3
  MaxFaults = 3
SPECIFICATION FairSpec
INVARIANTS NumbersAgree VerdictEarned SuccessNeverMasks PendingIsNamed VerdictComplete ExitTellsRecord
PROPERTIES SiblingsQuiet RetrySpec RunReturns
CHECK_DEADLOCK FALSE
