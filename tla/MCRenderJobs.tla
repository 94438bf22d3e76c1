---------------------------- MODULE MCRenderJobs ----------------------------
\* Instances of RenderJobs for TLC.
EXTENDS RenderJobs, TLC

CONSTANTS j1, j2, w1, w2, d1, d2, id1

\* Every process was given the same VARIANTLAB_WORKER_ID, the case the attempt
\* number alone must fence.
SharedId == [p \in Workers \cup Dispatchers |-> id1]

WorkerSymmetry == Permutations(Workers)
=============================================================================
