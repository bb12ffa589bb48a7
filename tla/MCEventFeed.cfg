SPECIFICATION FairSpec
CONSTANTS
  Senders = {s1, s2}
  Subs = {c1, c2, c3}
INVARIANTS
  TypeOK
  SubscribedOnce
  DeliveredToAll
PROPERTIES
  SendsReturn
  UnsubscribeReturns
