SPECIFICATION SurveySpec
CONSTANTS
  ahead = ahead
  old = old
  listed = listed
  NoKey = NoKey
  Nothing = Nothing
  Folders <- MCFolders
  Keys <- MCKeys
  MaxUid = 5
  Renumberings = {}
  MaxFaults = 1
  MaxUserSteps = 2
  Floor = 2
  Tolerance = 1
  YearLength = 4
  Window = 2
  BatchSize = 2
  Headers <- MCHeaders
  Starts <- MCStarts
  Vendored <- MCVendored
  Hosts <- MCHosts
  LastDay = 12
  Labels <- MCLabels
INVARIANT SurveyInv
INVARIANT EachReadOnce
INVARIANT SuffixAsPublished
PROPERTY SweepEnds
PROPERTY RebuildIsFresh
PROPERTY YearIsSettled
CHECK_DEADLOCK FALSE
