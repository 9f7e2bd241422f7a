\* Webhook intake and both jobs when batches may abort.
SPECIFICATION Spec
CONSTANTS
  i1 = i1
  i2 = i2
  i3 = i3
  Items <- TwoItems
  Broken <- NoItem
  Denied <- SecondItem
  BatchSize = 1
  HasWebhookId = TRUE
  FaultKinds <- BatchFault
  MaxFaults = 1
  MaxHead = 2
INVARIANTS
  TypeOK
  AnsweredMeansMarked
CHECK_DEADLOCK FALSE
