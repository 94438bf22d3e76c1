--------------------------- MODULE MCLocalRender ---------------------------
\* The instance of LocalRender for TLC: two jobs of one batch.
EXTENDS LocalRender

CONSTANTS j1, j2
=============================================================================
