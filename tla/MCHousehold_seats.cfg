\* One request at a time, with subscriptions, failing Stripe calls and crashes.
SPECIFICATION Spec
CONSTANTS
  o1 = o1
  o2 = o2
  u1 = u1
  u2 = u2
  i1 = i1
  i2 = i2
  i3 = i3
  t1 = t1
  t2 = t2
  Users <- OwnerAndTwo
  Owners <- OneOwner
  Invites <- ThreeInvites
  Threads <- OneThread
  Limit = 2
  StripeInit = TRUE
  MaxFaults = 1
SYMMETRY Symmetric
INVARIANTS
  TypeOK
  SeatsReserved
  
CHECK_DEADLOCK FALSE
