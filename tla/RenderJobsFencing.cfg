\* One job, two worker processes with the same id: stale and current attempts race.
SPECIFICATION Spec
CONSTANTS
  Jobs = {j1}
  Workers = {w1, w2}
  Dispatchers = {d1}
  Ids = {id1}
  IdOf <- SharedId
  NoId = NoId
  NoJob = NoJob
  MaxUnread = 1
  MaxFaults = 2
  j1 = j1
  j2 = j2
  w1 = w1
  w2 = w2
  d1 = d1
  d2 = d2
  id1 = id1
INVARIANTS TypeOK OneExecutionPerAttempt ArtifactIsOfLastAttempt AttemptHistory
PROPERTIES TerminalIsFinal CancelIsHonoured StaleWorkerIsFenced
SYMMETRY WorkerSymmetry
