SPECIFICATION LifeSpec
CONSTANTS
  Items <- MCItems
  Verdicts <- MCVerdicts
  Rows <- MCRows
  Entry <- MCEntry
  Histories <- MCHistories
  Retentions <- MCRetentions
  Runs <- MCRuns
  Limits <- MCLimits
PROPERTY FinishedRowsStay
