------------------------ MODULE MCSignatureRequests ------------------------
(***************************************************************************)
(* Instance of SignatureRequests for TLC: a principal and a late person, a *)
(* template of one or two roles with or without countersignature, a step   *)
(* that closes itself or waits for an agent, and two requests and resends, *)
(* enough for a late request, a resend after a cancellation, two resends   *)
(* that overlap and webhooks of one request that arrive after the other    *)
(* was sent.                                                               *)
(***************************************************************************)
EXTENDS SignatureRequests

MCMaxRequests == 2
MCMaxResends == 2
MCMaxCrowded == 1
MCMaxCredits == 2
MCTemplates ==
  [roles : {1, 2}, countersigned : BOOLEAN, validator : {"none"}]
    \cup [roles : {1}, countersigned : {FALSE}, validator : {"agent"}]
=============================================================================
