SPECIFICATION FairSpec
CONSTANTS
  inbox = inbox
  acme = acme
  orders = orders
  k1 = k1
  k2 = k2
  k3 = k3
  k4 = k4
  other = other
  NoKey = NoKey
  NoFolder = NoFolder
  Folders <- MCFolders
  Keys <- MCKeys
  Run <- MCRun
  Layouts <- MCLayouts
  Refusals <- MCRefusals
  Renumberings <- MCRenumberings
  BatchSize = 2
  MaxUid = 6
  MaxFaults = 1
  MaxUserSteps = 1
INVARIANT IInv
INVARIANT ReversalIsReal
INVARIANT RefusalBlocksNoNeighbour
INVARIANT RefusalStrandsNoRun
INVARIANT RunIsReversed
PROPERTY TakesHomeWhatWasMoved
PROPERTY UndoEnds
