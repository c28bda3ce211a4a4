CONSTANTS
  Batch <- MCBatch
  Weighing <- MCWeighing
  Less <- MCLess
  Unit = 20
  ScoreUnit = 10
  Grain = 16
  Ceiling = 64
  Halvings = 3
  HashHalvings = 3
  CopyHalvings = 4
  MultipleBound <- MCMultiple
  Budget <- MCBudget
  FillSafety = 13
  FeatureSafety = 17
  MidMultiplier = 43
  MaxPriority = 12
  Dense = 2
  Frequencies = 2
  Bins = {2, 4}
  Widths <- MCWidths
  MaxEpisodes = 4
  Model = {light, max}
  Cases <- MCCases
  Whole = 4
  Ratio = 4
  Quantum = 10
  MaxCommands = 2
  Fields <- MCFields
  MeasuredRuns = 5
  LimitTime = 40
  SlowTimes = {2, 41}
  Tick = 5
  MaxTroubles = 2
  MaxMishaps = 2
  Cells = 2
  Representative = {1}
  Repetitions = 2
  Workloads <- MCWorkloads
  Hosts <- MCHosts
  MaxEdits = 1
  MaxInvocations = 2
  MaxFaults = 2
SPECIFICATION ProgramsSpec
INVARIANTS NothingStays PromptRouterPasses IdRouterCaught
INVARIANTS Searched OnlyDown OrderBlind AcceptedFits
INVARIANTS ReportEarned LightScores
INVARIANTS RankEarned PairWhole ReportTrue
CHECK_DEADLOCK FALSE
