\* Retention, Plaid and database errors and crashes, two workers.
SPECIFICATION Spec
CONSTANTS
  t1 = t1
  t2 = t2
  w1 = w1
  w2 = w2
  Txns <- TwoTxns
  Workers <- TwoWorkers
  FaultKinds <- AnyFault
  MaxHead = 2
  MaxFaults = 1
  Essential = TRUE
INVARIANTS
  RowsMatchCursor
  OneDeltaPerTxn
PROPERTIES
  ImplementsFeed
SYMMETRY Symmetry
