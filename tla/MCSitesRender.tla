--------------------------- MODULE MCSitesRender ---------------------------
\* The instance of SitesRender for TLC: a job, two workers, requests of any kind.
EXTENDS SitesRender

CONSTANTS j1, w1, w2, q1, q2
=============================================================================
