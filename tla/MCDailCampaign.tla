---------------------------- MODULE MCDailCampaign ----------------------------
(* Small instances of DailCampaign for TLC.                                      *)
EXTENDS DailCampaign

\* Two questions, then one that waits for a quarter of them.
TwoGroups == <<{"q1", "q2"}, {"q3"}>>
=============================================================================
