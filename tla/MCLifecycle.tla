----------------------------- MODULE MCLifecycle -----------------------------
(* CampaignLifecycle on small sets for TLC.                                  *)
EXTENDS CampaignLifecycle, TLC

CONSTANTS c1, c2, s1, s2, r1, r2

\* The requests' columns are symmetric, and so are campaigns and senders.
LifecycleSymmetry ==
    Permutations({c1, c2}) \cup Permutations({s1, s2}) \cup Permutations({r1, r2})
=============================================================================
