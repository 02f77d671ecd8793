SPECIFICATION FairSpec
CONSTANTS
  inbox = inbox
  acme = acme
  news = news
  initech = initech
  x = x
  y = y
  z = z
  k1 = k1
  k2 = k2
  k3 = k3
  k4 = k4
  other = other
  NoKey = NoKey
  NoFolder = NoFolder
  Folders <- PairFolders
  Keys <- PairKeys
  Items <- PairItems
  Plan <- PairPlan
  SurveyValidity <- PairValidity
  Layouts <- PairLayouts
  Histories <- MCEmptyHistory
  Poison = {}
  Renumberings <- MCRenumberings
  HasMove = FALSE
  BatchSize = 2
  Attempts = 2
  MaxUid = 7
  MaxFaults = 1
  MaxUserSteps = 0
  MaxCrashes = 1
PROPERTY RetryFindsNoCopy
