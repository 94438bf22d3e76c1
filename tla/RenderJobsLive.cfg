\* One job, two dispatchers that race for the outbox, a fault at any point.
SPECIFICATION FairSpec
CONSTANTS
  Jobs = {j1}
  Workers = {w1}
  Dispatchers = {d1, d2}
  Ids = {id1}
  IdOf <- SharedId
  NoId = NoId
  NoJob = NoJob
  MaxUnread = 1
  MaxFaults = 1
  j1 = j1
  j2 = j2
  w1 = w1
  w2 = w2
  d1 = d1
  d2 = d2
  id1 = id1
PROPERTIES JobsSettle ImplementsLifecycle
