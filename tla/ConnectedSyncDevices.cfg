\* Two devices, one page each.
SPECIFICATION Spec
CONSTANTS
  Devices = {a, b}
  Pages = {p, r}
  DeviceOf <- MCDeviceOf
  Origin = a
  Commands = {c1, c2, c3}
  Nothing = Nothing
  MaxSyncCommands = 2
  MaxRequests = 3
  MaxLate = 0
  a = a
  b = b
  p = p
  q = q
  r = r
SYMMETRY Ids
INVARIANTS TypeOK EditsSurvive OutboxIsLocal ConflictsAreReal
\* Every request and command may have been used.
CHECK_DEADLOCK FALSE
