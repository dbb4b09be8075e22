---------------------------- MODULE MCCampaignChain ----------------------------
(* Instances of CampaignChain for TLC. *)
EXTENDS CampaignChain, TLC
=============================================================================
