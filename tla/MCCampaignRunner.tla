-------------------------- MODULE MCCampaignRunner --------------------------
(* Instances of the campaign runner for TLC.                                *)
EXTENDS CampaignRunnerProperties, TLC

CONSTANTS w1, w2

WorkersAlike == Permutations({w1, w2})
=============================================================================
