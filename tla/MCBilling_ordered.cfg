\* One subscription through all its states, webhooks in order, handlers may die.
SPECIFICATION Spec
CONSTANTS
  s1 = s1
  s2 = s2
  w1 = w1
  w2 = w2
  Subs <- OneSub
  Workers <- OneWorker
  Moves <- Lifecycle
  Trials = TRUE
  Requests <- NoRequest
  InOrder = TRUE
  Database = "postgres"
  MaxEvents = 7
  MaxFaults = 2
INVARIANT
  LastWordWins
CHECK_DEADLOCK FALSE
