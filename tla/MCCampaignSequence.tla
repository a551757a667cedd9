------------------------- MODULE MCCampaignSequence -------------------------
(***************************************************************************)
(* Instances of CampaignSequence for TLC.  A sequence of up to two steps,  *)
(* three ever created: a deleted follow-up and the one that takes its      *)
(* shell.  Two recipients, so that one is added while another is under     *)
(* way, with every call answered; or one recipient and two calls that go   *)
(* wrong.                                                                  *)
(***************************************************************************)
EXTENDS CampaignSequence, TLC

CONSTANTS ann, bob, one

MCLeads == {ann, bob}
MCLead == {ann}
MCRequest == {one}

\* A recipient an agent or Lemlist has paused, or that a request is about.
Touched(l) ==
  \/ member[l].status = "paused"
  \/ \E q \in Requests : request[q].pc # "none" /\ request[q].lead = l

\* Bounds: a behaviour is followed while one recipient at most is touched and
\* until a race; or, past a race, only while it is short.
Seen == ~unseen /\ \A l, n \in Leads : Touched(l) /\ Touched(n) => l = n
Followed == unseen => created < MaxIds /\ faults < MaxFaults
Symmetry == Permutations(MCLeads)
=============================================================================
