\* The safety net catches up when syncs of the Item do not overlap.
SPECIFICATION FairSpec
CONSTANTS
  t1 = t1
  t2 = t2
  w1 = w1
  w2 = w2
  Txns <- TwoTxns
  Workers <- OneWorker
  FaultKinds <- PlaidFault
  MaxHead = 3
  MaxFaults = 2
  Essential = FALSE
INVARIANTS
  TypeOK
  SyncingMeansInFlight
PROPERTIES
  CatchesUp
