\* One original imported up to twice, three commands, two faults; the pipeline's own steps are fair.
SPECIFICATION FairSpec
CONSTANTS
  Jobs = {clip, clipProxy, clipWave}
  Kind <- MCKind
  Plan <- MCPlan
  NoJob = NoJob
  MaxImports = 2
  MaxAsks = 3
  MaxFaults = 2
  clip = clip
  clipProxy = clipProxy
  clipWave = clipWave
INVARIANTS TypeOK SucceededIsStored DiskIsCurrent
PROPERTIES JobsSettle
\* The page may be left with nothing to do.
CHECK_DEADLOCK FALSE
