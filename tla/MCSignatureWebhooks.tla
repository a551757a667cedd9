------------------------ MODULE MCSignatureWebhooks ------------------------
(***************************************************************************)
(* Instance of SignatureWebhooks for TLC: two signers and two concurrent   *)
(* sessions, one credit reserved elsewhere, and room for a document to be  *)
(* filed twice.                                                            *)
(***************************************************************************)
EXTENDS SignatureWebhooks

MCOtherCredits == 1
MCMaxFilings == 2
=============================================================================
