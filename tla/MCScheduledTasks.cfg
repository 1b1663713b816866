CONSTANTS
  a1 = a1
  a2 = a2
  a3 = a3
  c1 = c1
  c2 = c2
  Agent = {a1, a2, a3}
  CreatorOf <- MCCreatorOf
  AtFirst <- MCAtFirst
  Worth = {0, 1}
  MaxRuns = 4
  MaxAttempts = 2
  TradableFile <- MCTradableFile
  FallbackList <- MCFallbackList
  ByHand <- MCByHand
  BatchSize = 2
  Exchange <- MCExchange
  AvnuTokens <- MCAvnuTokens
  Selection <- MCSelection
  Preference <- MCPreference
  DbFaults = {"rejected", "ambiguous"}
  HoursPerDay = 2
  HourlyDays = 1
  DailyDays = 2
  SnapshotFaults = {"failed"}
  PageSize = 1
  BoardFaults = {"failed"}
  Plan <- MCPlan
SPECIFICATION FairSpec
INVARIANTS
  RoundsStopAtFailure
  OvertakenOnlyByOverlap
  RunsCoverTheirList
  ChartsKeepTheirData
  BoardIsOneReading
  RowsAgreeWithPerformance
  PagesShowEveryoneOnce
PROPERTIES
  ChainsRunThrough
\* The plans end.
CHECK_DEADLOCK FALSE
