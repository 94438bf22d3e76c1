-------------------------- MODULE MCCampaignEdits --------------------------
\* The instance of CampaignEdits for TLC: two scenes, a set, a profile, two slots.
EXTENDS CampaignEdits

CONSTANTS a, b, x1, p1, k1, k2, ru, v1
=============================================================================
