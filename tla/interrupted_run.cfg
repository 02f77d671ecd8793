SPECIFICATION Spec
CONSTANTS
  inbox = inbox
  acme = acme
  news = news
  initech = initech
  x = x
  y = y
  z = z
  k1 = k1
  k2 = k2
  k3 = k3
  k4 = k4
  other = other
  NoKey = NoKey
  NoFolder = NoFolder
  Folders <- MCFolders
  Keys <- MCKeys
  Items <- MCItems
  Plan <- MCPlan
  SurveyValidity <- MCSurveyValidity
  Layouts <- MCLayouts
  Histories <- MCEmptyHistory
  Poison = {}
  Renumberings <- MCRenumberings
  HasMove = TRUE
  BatchSize = 2
  Attempts = 2
  MaxUid = 5
  MaxFaults = 1
  MaxUserSteps = 1
  MaxCrashes = 1
INVARIANT InterruptedRunLosesNothing
