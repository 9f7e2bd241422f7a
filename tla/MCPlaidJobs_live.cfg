\* One Item always fails, the batch has room for another; webhook handlers may die.
SPECIFICATION FairSpec
CONSTANTS
  i1 = i1
  i2 = i2
  i3 = i3
  Items <- TwoItems
  Broken <- FirstBroken
  Denied <- NoItem
  BatchSize = 2
  HasWebhookId = FALSE
  FaultKinds <- WebhookFault
  MaxFaults = 1
  MaxHead = 1
PROPERTY
  EveryUpdateIngested
