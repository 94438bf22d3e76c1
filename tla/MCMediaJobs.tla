---------------------------- MODULE MCMediaJobs ----------------------------
\* The instance of MediaJobs for TLC: an original with a proxy and a waveform.
EXTENDS MediaJobs

CONSTANTS clip, clipProxy, clipWave

Names == (clip :> "probe") @@ (clipProxy :> "proxy") @@ (clipWave :> "waveform")
MCKind == [j \in Jobs |-> Names[j]]
MCPlan == [j \in Jobs |-> IF j = clip THEN {clipProxy, clipWave} ELSE {}]
=============================================================================
