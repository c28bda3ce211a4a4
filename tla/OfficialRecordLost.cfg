CONSTANTS
  MaxParticipantAttempts = 3
  MaxInfrastructureFailures = 3
  MaxRuns = 2
  MaxFaults = 2
SPECIFICATION Spec
PROPERTY RefusalKeepsDetails
CHECK_DEADLOCK FALSE
