\* One tab, no failure and no reload: the campaign's button is pressed once.
SPECIFICATION Spec
CONSTANTS
  Tabs = {t1}
  Commands = {1, 2, 3}
  Nothing = Nothing
  Large = {}
  SnapshotInterval = 2
  Faults = {"reopen"}
  MaxFaults = 1
  t1 = t1
  t2 = t2
INVARIANTS AcknowledgedSurvives
\* Every command may have been used.
CHECK_DEADLOCK FALSE
