\* A job, two workers, two requests handled at once, one stall, one retry.
SPECIFICATION FairSpec
CONSTANTS
  Jobs = {j1}
  Workers = {w1, w2}
  Requests = {q1, q2}
  NoJob = NoJob
  NoRequest = NoRequest
  Nobody = Nobody
  MaxStalls = 1
  MaxRetries = 1
  j1 = j1
  w1 = w1
  w2 = w2
  q1 = q1
  q2 = q2
INVARIANTS TypeOK EarlierOutputsAreGone
PROPERTIES ImplementsLifecycle JobsSettle
\* The service may be left with nothing to do.
CHECK_DEADLOCK FALSE
