----------------------------- MODULE MCUploads -----------------------------
\* The instance of Uploads for TLC: two devices that send an original of two parts.
EXTENDS Uploads

CONSTANTS d1, d2, c1
=============================================================================
