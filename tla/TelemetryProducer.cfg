SPECIFICATION FairSpec
CONSTANTS
  p = p
  q = q
  r = r
  Events <- MCEvents
  TopicOf <- MCTopicOf
  QueueLimit = 2
  Workers = 2
INVARIANT AwaitedOrderIsKept
PROPERTIES EmitSettles ImplementsOutbox
CHECK_DEADLOCK FALSE
