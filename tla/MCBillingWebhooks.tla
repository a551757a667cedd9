------------------------- MODULE MCBillingWebhooks -------------------------
(***************************************************************************)
(* Instance of BillingWebhooks for TLC: two subscriptions, enough for a    *)
(* second checkout and for events of a former subscription; two sessions,  *)
(* so that two deliveries overlap; events enough for an activation, a      *)
(* failed payment, its echo and what ends it.                              *)
(***************************************************************************)
EXTENDS BillingWebhooks

MCMaxSubs == 2
MCMaxSessions == 2
MCMaxEvents == 5
MCMaxCrowded == 4
MCCatalogs ==
  {[s \in 1 .. 2 |-> IF s = 1 THEN c ELSE "fine"] : c \in {"fine", "unpriced", "taken"}}
MCReaders == 1
=============================================================================
