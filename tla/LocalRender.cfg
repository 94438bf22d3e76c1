\* Two jobs, two clicks, an edit and two faults.
SPECIFICATION FairSpec
CONSTANTS
  Jobs = {j1, j2}
  NoJob = NoJob
  MaxCommands = 2
  MaxFaults = 2
  j1 = j1
  j2 = j2
INVARIANTS TypeOK StoredSuccessIsWhole
PROPERTIES JobsSettle
\* The queue may be empty.
CHECK_DEADLOCK FALSE
