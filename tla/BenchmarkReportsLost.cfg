CONSTANTS
  Cells = 1
  Representative = {1}
  Repetitions = 2
  Workloads <- MCWorkloads
  Hosts <- MCHosts
  MaxEdits = 0
  MaxInvocations = 1
  MaxFaults = 2
SPECIFICATION BenchSpec
INVARIANTS ReportsKept
CHECK_DEADLOCK FALSE
