-------------------------- MODULE MCCampaignEvents --------------------------
(***************************************************************************)
(* Instances of CampaignEvents for TLC: a client in two campaigns and, for *)
(* the liveness property, in one.                                          *)
(***************************************************************************)
EXTENDS CampaignEvents, TLC

Symmetry == Permutations(Members)
=============================================================================
