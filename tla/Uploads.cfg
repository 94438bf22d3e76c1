\* Two devices in one campaign, an original of two parts, two faults.
SPECIFICATION FairSpec
CONSTANTS
  Devices = {d1, d2}
  Campaigns = {c1}
  LastPart = 2
  NoSession = NoSession
  MaxSessions = 5
  MaxFaults = 2
  d1 = d1
  d2 = d2
  c1 = c1
INVARIANTS TypeOK AssetIsWhole PartsAreKept
PROPERTIES UploadsFinish
\* The bound on sessions may stop the system.
CHECK_DEADLOCK FALSE
