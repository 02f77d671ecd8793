SPECIFICATION LifeSpec
CONSTANTS
  Items <- MCItems
  Verdicts <- MCVerdicts
  Rows <- MCRows
  Entry <- MCEntry
  Histories <- MCHistories
  Retentions <- MCRetentions
  Runs <- MCRuns
  Limits <- MCLimits
INVARIANT LifeInv
INVARIANT LogAgreesWithPlan
INVARIANT FatalLeavesNoPlanOpen
INVARIANT FailuresAreOnRecord
INVARIANT DriftIsSeen
INVARIANT LogsKept
PROPERTY NothingIsUnwritten
PROPERTY SupersededPlanRests
