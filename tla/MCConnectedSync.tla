-------------------------- MODULE MCConnectedSync --------------------------
\* Instances of ConnectedSync for TLC.
EXTENDS ConnectedSync, TLC

CONSTANTS a, b, p, q, r

\* Two devices; the first may have two tabs.
MCDeviceOf == [x \in Pages |-> IF x = r THEN b ELSE a]

Ids == Permutations(Commands)
=============================================================================
