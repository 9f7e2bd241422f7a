\* A user whose own subscription is in its trial joins.
SPECIFICATION Spec
CONSTANTS
  o1 = o1
  o2 = o2
  u1 = u1
  u2 = u2
  i1 = i1
  i2 = i2
  i3 = i3
  t1 = t1
  t2 = t2
  Users <- OwnerAndOne
  Owners <- OneOwner
  Invites <- OneInvite
  Threads <- TwoThreads
  Limit = 2
  StripeInit = TRUE
  MaxFaults = 0
INVARIANT
  DependentsNotBilled
CHECK_DEADLOCK FALSE
