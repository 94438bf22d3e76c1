\* Two tabs, three commands, one fault of every kind.
SPECIFICATION Spec
CONSTANTS
  Tabs = {t1, t2}
  Commands = {1, 2, 3}
  Nothing = Nothing
  Large = {3}
  SnapshotInterval = 2
  Faults = {"fail", "reload", "reopen", "stale", "corrupt"}
  MaxFaults = 1
  t1 = t1
  t2 = t2
SYMMETRY Tab
INVARIANTS TypeOK LinearCommitsSurvive RecoveredWasCommitted QuietJournalIsShort
\* Every command may have been used.
CHECK_DEADLOCK FALSE
