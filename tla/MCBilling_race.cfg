\* Two instances handle reordered and repeated webhooks and the user's requests, and may die.
SPECIFICATION Spec
CONSTANTS
  s1 = s1
  s2 = s2
  w1 = w1
  w2 = w2
  Subs <- OneSub
  Workers <- TwoWorkers
  Moves <- Lifecycle
  Trials = TRUE
  Requests <- AllRequests
  InOrder = FALSE
  Database = "sqlite"
  MaxEvents = 4
  MaxFaults = 1
SYMMETRY Symmetric
INVARIANTS
  TypeOK
  HandledMeansEntered
CHECK_DEADLOCK FALSE
