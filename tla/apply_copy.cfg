SPECIFICATION FairSpec
CONSTANTS
  inbox = inbox
  acme = acme
  news = news
  initech = initech
  x = x
  y = y
  z = z
  k1 = k1
  k2 = k2
  k3 = k3
  k4 = k4
  other = other
  NoKey = NoKey
  NoFolder = NoFolder
  Folders <- PairFolders
  Keys <- MCKeys
  Items <- MCItems
  Plan <- TriplePlan
  SurveyValidity <- PairValidity
  Layouts <- TripleLayouts
  Histories <- MCEmptyHistory
  Poison = {k2}
  Renumberings <- MCRotations
  HasMove = FALSE
  BatchSize = 2
  Attempts = 2
  MaxUid = 8
  MaxFaults = 1
  MaxUserSteps = 1
  MaxCrashes = 1
INVARIANT NothingLost
INVARIANT RecordedMoveIsReal
INVARIANT Custody
PROPERTY OnlyPlannedMailLeaves
INVARIANT BlameIsIndividual
INVARIANT ClosedMeansResolved
PROPERTY InvocationEnds
PROPERTY EveryItemSettles
