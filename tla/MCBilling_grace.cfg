\* A payment keeps failing, on PostgreSQL.
SPECIFICATION Spec
CONSTANTS
  s1 = s1
  s2 = s2
  w1 = w1
  w2 = w2
  Subs <- OneSub
  Workers <- OneWorker
  Moves <- Failing
  Trials = FALSE
  Requests <- NoRequest
  InOrder = TRUE
  Database = "postgres"
  MaxEvents = 5
  MaxFaults = 0
PROPERTY
  GraceEnds
CHECK_DEADLOCK FALSE
