----------------------------- MODULE MCCampaign -----------------------------
(* The instance TLC explores.                                              *)
EXTENDS Campaign

CONSTANTS c0, c1, s1

MCOne == {c1}
MCSuite == {s1}
=============================================================================
