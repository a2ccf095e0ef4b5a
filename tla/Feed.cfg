SPECIFICATION FairSpec
CONSTANTS
  Subs = {s1, s2, s3}
  Senders = {p, q}
  capacity = 1
  MaxSends = 2
INVARIANT FeedIsCoherent
PROPERTIES
  ImplementsBroadcast
  UnsubscribeReturns
  SendReturns
CHECK_DEADLOCK FALSE
