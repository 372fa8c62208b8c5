SPECIFICATION FairSpec
CONSTANTS
  w1 = w1
  w2 = w2
  m1 = m1
  m2 = m2
  bad = bad
  None = None
  Workers <- MCWorkers
  Messages <- MCMessages
  Malformed <- MCMalformed
  MaxLosses = 1
  MaxKills = 1
  MaxShutdowns = 1
INVARIANTS
  TypeOK
  DeliveriesAgree
  OwnedUnlessLinkLost
PROPERTIES
  QueueSpec
  EventuallySettled
CHECK_DEADLOCK FALSE
