SPECIFICATION FairSpec
CONSTANTS
  inbox = inbox
  acme = acme
  orders = orders
  m1 = m1
  m2 = m2
  m3 = m3
  trash = trash
  fromOrders = fromOrders
  fromSales = fromSales
  Msgs <- MCMsgs
  Folders <- MCFolders
  Source = inbox
  Buckets <- MCBuckets
  Promotable <- MCPromotable
  BucketOf <- MCBucketOf
  Flat <- MCFlat
  Sub <- MCSub
  Rank <- MCRank
  Threshold = 1
  Cap = 1
  Tree <- MCTree
  FirstUid <- MCFirstUid
  Recent <- MCRecent
  MaxFaults = 1
  MaxUserSteps = 1
INVARIANT CycleInv
INVARIANT LogBlocksNothing
PROPERTY NeverDemoted
PROPERTY NewMailJoinsLast
PROPERTY EveryMessageIsFiled
