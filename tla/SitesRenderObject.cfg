\* One lease that runs out under a worker is enough.
SPECIFICATION Spec
CONSTANTS
  Jobs = {j1}
  Workers = {w1, w2}
  Requests = {q1, q2}
  NoJob = NoJob
  NoRequest = NoRequest
  Nobody = Nobody
  MaxStalls = 1
  MaxRetries = 0
  j1 = j1
  w1 = w1
  w2 = w2
  q1 = q1
  q2 = q2
INVARIANTS SucceededHasObject
\* The service may be left with nothing to do.
CHECK_DEADLOCK FALSE
