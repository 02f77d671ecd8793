SPECIFICATION Spec
CONSTANTS
  inbox = inbox
  acme = acme
  news = news
  initech = initech
  x = x
  y = y
  z = z
  k1 = k1
  k2 = k2
  k3 = k3
  k4 = k4
  other = other
  NoKey = NoKey
  NoFolder = NoFolder
  Folders <- PromotedFolders
  Keys <- PromotedKeys
  Items <- PromotedItems
  Plan <- PromotedPlan
  SurveyValidity <- PromotedValidity
  Layouts <- PromotedLayouts
  Histories <- PastHistories
  Poison = {k4}
  Renumberings <- MCRotations
  HasMove = TRUE
  BatchSize = 2
  Attempts = 2
  MaxUid = 5
  MaxFaults = 1
  MaxUserSteps = 1
  MaxCrashes = 1
INVARIANT IInv
INVARIANT SkippedMailIsFiled
INVARIANT LogIsComplete
PROPERTY OnlyPlannedMailLeaves
PROPERTY LedgerKept
