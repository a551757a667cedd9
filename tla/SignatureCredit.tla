-------------------------- MODULE SignatureCredit --------------------------
(***************************************************************************)
(* What the credit ledger promises to the signature requests of an agency, *)
(* "1 demande = 1 document envoye = 1 credit (reserve a l'envoi, consomme  *)
(* a la completion, libere sinon)": a request reserves one credit, and the *)
(* reservation ends once, for good, as a consumption or as a refund.       *)
(***************************************************************************)
EXTENDS Integers

CONSTANT Requests

VARIABLES
  available,  \* credits that may still be reserved
  credit      \* what became of the credit of each request

vars == <<available, credit>>

Init ==
  /\ available \in Nat
  /\ credit = [r \in Requests |-> "none"]

\* Bought or granted: any positive number of credits.
AddCredits ==
  /\ available' \in Nat
  /\ available' > available
  /\ UNCHANGED credit

Reserve(r) ==
  /\ credit[r] = "none"
  /\ available >= 1
  /\ available' = available - 1
  /\ credit' = [credit EXCEPT ![r] = "reserved"]

Consume(r) ==
  /\ credit[r] = "reserved"
  /\ credit' = [credit EXCEPT ![r] = "consumed"]
  /\ UNCHANGED available

Release(r) ==
  /\ credit[r] = "reserved"
  /\ available' = available + 1
  /\ credit' = [credit EXCEPT ![r] = "released"]

Next ==
  \/ AddCredits
  \/ \E r \in Requests : Reserve(r) \/ Consume(r) \/ Release(r)

Spec == Init /\ [][Next]_vars

\* No reservation is stuck: every reserved credit is settled in the end.
Settles == \A r \in Requests : credit[r] = "reserved" ~> credit[r] # "reserved"
=============================================================================
