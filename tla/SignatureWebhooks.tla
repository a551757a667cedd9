------------------------- MODULE SignatureWebhooks -------------------------
(***************************************************************************)
(* The handlers of ONE signature request, statement by statement, as the   *)
(* sessions of the API run them concurrently at READ COMMITTED             *)
(* (src/signatures/signatures_manager.py).  SignatureRequests has the same *)
(* handlers as atomic actions.                                             *)
(*                                                                         *)
(* An ORM session keeps the rows it has loaded as they were loaded, writes *)
(* back only the columns it changed, and takes the lock of a row when the  *)
(* change is flushed, which the next query does.  Its writes are visible   *)
(* to the others at COMMIT.  The locks are taken in the order              *)
(*     signer row, balance row, request row.                               *)
(***************************************************************************)
EXTENDS Integers, FiniteSets

CONSTANTS
  Signers,    \* seats of the request
  Sessions,   \* database sessions of the API workers
  Balance,    \* the lockable balance row of the agency
  Request,    \* the lockable signature_request row
  Nobody,     \* a row nobody has locked; the signer of a cancellation
  OtherCredits, \* credits the agency has reserved for other requests
  MaxFilings    \* bound: filings after which no webhook is delivered again

ASSUME SignerAssumption == Nobody \notin Signers /\ Nobody \notin Sessions
ASSUME CreditAssumption == OtherCredits \in Nat /\ MaxFilings \in Nat

Rows == Signers \cup {Balance, Request}
SeatStatuses == {"pending", "signed", "declined"}
Statuses == {"sent", "partially_signed", "completed", "cancelled"}

VARIABLES
  signedAt,   \* external: signers who signed at the provider
  declinedAt, \* external: signers who declined there
  acked,      \* signers whose webhook was answered 200
  seat,       \* committed signature_signer.status and requirement row
  status,     \* committed signature_request.status
  settled,    \* committed consume and release entries of the request
  stored,     \* times the signed document was filed
  lock,       \* holder of each row
  session     \* per session: its handler, what it read, what it will write

vars == <<signedAt, declinedAt, acked, seat, status, settled, stored,
          lock, session>>
told == <<signedAt, declinedAt>>
committed == <<seat, status, settled, stored>>

Idle == [pc |-> "idle", signer |-> Nobody, seatRead |-> "pending",
         statusRead |-> "sent", pending |-> {}, settles |-> FALSE,
         writes |-> "sent"]

Session == [pc : {"idle", "load", "sign", "list", "check", "balance",
                  "request", "commit"},
            signer : Signers \cup {Nobody},
            seatRead : SeatStatuses,
            statusRead : Statuses,
            pending : SUBSET Signers,
            settles : BOOLEAN,
            writes : Statuses]

TypeOK ==
  /\ signedAt \in SUBSET Signers
  /\ declinedAt \in SUBSET (Signers \ signedAt)
  /\ acked \in SUBSET (signedAt \cup declinedAt)
  /\ seat \in [Signers -> SeatStatuses]
  /\ status \in Statuses
  /\ settled \in [{"consume", "release"} -> 0 .. 1 + OtherCredits]
  /\ stored \in Nat
  /\ lock \in [Rows -> Sessions \cup {Nobody}]
  /\ session \in [Sessions -> Session]

\* send_for_progress has committed: SENT, every seat pending, one credit.
Init ==
  /\ signedAt = {}
  /\ declinedAt = {}
  /\ acked = {}
  /\ seat = [s \in Signers |-> "pending"]
  /\ status = "sent"
  /\ settled = [k \in {"consume", "release"} |-> 0]
  /\ stored = 0
  /\ lock = [x \in Rows |-> Nobody]
  /\ session = [k \in Sessions |-> Idle]

\* At the provider a signer signs or declines, once.
ProviderSign(s) ==
  /\ s \notin declinedAt
  /\ signedAt' = signedAt \cup {s}
  /\ UNCHANGED <<declinedAt, acked, committed, lock, session>>

ProviderDecline(s) ==
  /\ s \notin signedAt
  /\ declinedAt' = declinedAt \cup {s}
  /\ UNCHANGED <<signedAt, acked, committed, lock, session>>

Cancels(k) == session[k].signer = Nobody
Declines(k) == session[k].signer \in declinedAt

Goto(k, pc) == session' = [session EXCEPT ![k].pc = pc]

Take(k, x) ==
  /\ lock[x] = Nobody
  /\ lock' = [lock EXCEPT ![x] = k]

(***************************************************************************)
(* Reads.                                                                  *)
(***************************************************************************)

\* Mutant: an event of another signer is taken for this one's.
DeliverToAnybody(k, s) ==
  /\ session[k].pc = "idle"
  /\ signedAt # {}
  /\ stored < MaxFilings
  /\ session' = [session EXCEPT ![k] =
       [Idle EXCEPT !.pc = "load", !.signer = s, !.seatRead = seat[s]]]
  /\ UNCHANGED <<told, acked, committed, lock>>

\* _on_form_completed loads the signer; the provider may deliver again.
DeliverFormCompleted(k, s) ==
  /\ session[k].pc = "idle"
  /\ s \in signedAt
  /\ stored < MaxFilings
  /\ session' = [session EXCEPT ![k] =
       [Idle EXCEPT !.pc = "load", !.signer = s, !.seatRead = seat[s]]]
  /\ UNCHANGED <<told, acked, committed, lock>>

\* _on_form_declined loads the signer, and no request.
DeliverFormDeclined(k, s) ==
  /\ session[k].pc = "idle"
  /\ s \in declinedAt
  /\ session' = [session EXCEPT ![k] =
       [Idle EXCEPT !.pc = "sign", !.signer = s, !.seatRead = seat[s]]]
  /\ UNCHANGED <<told, acked, committed, lock>>

BeginCancel(k) ==
  /\ session[k].pc = "idle"
  /\ session' = [session EXCEPT ![k] = [Idle EXCEPT !.pc = "load"]]
  /\ UNCHANGED <<told, acked, committed, lock>>

\* get_request: the status this handler decides on.  A cancellation of a
\* request that is over returns at once.
LoadRequest(k) ==
  /\ session[k].pc = "load"
  /\ session' = [session EXCEPT
       ![k].statusRead = status,
       ![k].writes = status,
       ![k].pc = IF ~Cancels(k) THEN "sign"
                 ELSE IF status \in {"sent", "partially_signed"} THEN "check"
                 ELSE "commit"]
  /\ UNCHANGED <<told, acked, committed, lock>>

\* The change of the signer and of its requirement row, flushed by the next
\* query, or by the COMMIT of _on_form_declined: it waits for another delivery
\* of the same webhook.
SignSeat(k) ==
  /\ session[k].pc = "sign"
  /\ IF session[k].seatRead = "pending"
       THEN Take(k, session[k].signer) ELSE UNCHANGED lock
  /\ Goto(k, IF Declines(k) THEN "commit" ELSE "list")
  /\ UNCHANGED <<told, acked, committed>>

\* Mutant: the handler does not look at the other signers.
PendingIgnored(k) == {}

\* list_signers: the committed rows of the others and its own.  Who declined
\* is not pending.
StillPending(k) ==
  {s \in Signers \ {session[k].signer} : seat[s] = "pending"}

\* still_pending, and what the handler will write in the request.
ListSigners(k) ==
  /\ session[k].pc = "list"
  /\ LET pending == StillPending(k)
         was == session[k].statusRead
     IN session' = [session EXCEPT
          ![k].pending = pending,
          ![k].writes = IF pending = {} THEN "completed"
                        ELSE IF was = "sent" THEN "partially_signed" ELSE was,
          ![k].pc = IF pending = {} /\ was # "completed" THEN "check"
                    ELSE IF pending # {} /\ was = "sent" THEN "request"
                    ELSE "commit"]
  /\ UNCHANGED <<told, acked, committed, lock>>

(***************************************************************************)
(* Writes.                                                                 *)
(***************************************************************************)

\* Mutant: a reservation that another session is settling is left to it.
LiveReserveUnclaimed ==
  /\ settled["consume"] + settled["release"] = 0
  /\ \A k \in Sessions : ~session[k].settles

\* _live_reserve_exists, before the lock of the balance.
LiveReserve == settled["consume"] + settled["release"] = 0

CheckReserve(k) ==
  /\ session[k].pc = "check"
  /\ session' = [session EXCEPT
       ![k].settles = LiveReserve,
       ![k].writes = IF Cancels(k) THEN "cancelled" ELSE "completed",
       ![k].pc = IF LiveReserve THEN "balance" ELSE "request"]
  /\ UNCHANGED <<told, acked, committed, lock>>

LockBalance(k) ==
  /\ session[k].pc = "balance"
  /\ Take(k, Balance)
  /\ Goto(k, "request")
  /\ UNCHANGED <<told, acked, committed>>

LockRequest(k) ==
  /\ session[k].pc = "request"
  /\ Take(k, Request)
  /\ Goto(k, "commit")
  /\ UNCHANGED <<told, acked, committed>>

\* The CHECK reserved >= 0 of the balance row.
CheckHolds == settled["consume"] + settled["release"] < 1 + OtherCredits

\* Mutant: the transaction stays open when the handler has answered.
UnlockNone(k) == UNCHANGED lock

Unlock(k) == lock' = [x \in Rows |-> IF lock[x] = k THEN Nobody ELSE lock[x]]

\* The seat this handler signed or declined; no other column was changed.
SeatsWritten(k) ==
  IF Cancels(k) \/ (Declines(k) /\ session[k].seatRead # "pending") THEN seat
  ELSE [seat EXCEPT ![session[k].signer] =
          IF Declines(k) THEN "declined" ELSE "signed"]

\* _complete ran: the document was downloaded and filed before COMMIT.
Files(k) ==
  /\ ~Cancels(k) /\ ~Declines(k)
  /\ session[k].pending = {}
  /\ session[k].statusRead # "completed"

\* Mutant: the provider's answer is filed without looking for documents.
DocumentsUnchecked == TRUE

\* The provider has documents once everybody signed; the download raises
\* otherwise, and the webhook is rolled back.
DocumentsServed == signedAt = Signers

Settle(k) ==
  IF session[k].settles
    THEN [settled EXCEPT ![IF Cancels(k) THEN "release" ELSE "consume"] = @ + 1]
    ELSE settled

Commit(k) ==
  /\ session[k].pc = "commit"
  /\ session[k].settles => CheckHolds
  /\ Files(k) => DocumentsServed
  /\ seat' = SeatsWritten(k)
  /\ status' = IF session[k].writes # session[k].statusRead
                 THEN session[k].writes ELSE status
  /\ settled' = Settle(k)
  /\ stored' = IF Files(k) THEN stored + 1 ELSE stored
  /\ acked' = IF Cancels(k) THEN acked ELSE acked \cup {session[k].signer}
  /\ Unlock(k)
  /\ session' = [session EXCEPT ![k] = Idle]
  /\ UNCHANGED told

\* A violated CHECK, a failed download or any other error: nothing is kept
\* and the provider delivers the webhook again.
Rollback(k) ==
  /\ session[k].pc = "commit"
  /\ Unlock(k)
  /\ session' = [session EXCEPT ![k] = Idle]
  /\ UNCHANGED <<told, acked, committed>>

Step(k) ==
  \/ LoadRequest(k)
  \/ SignSeat(k)
  \/ ListSigners(k)
  \/ CheckReserve(k)
  \/ LockBalance(k)
  \/ LockRequest(k)
  \/ Commit(k)
  \/ Rollback(k)

Next ==
  \/ \E s \in Signers : ProviderSign(s) \/ ProviderDecline(s)
  \/ \E k \in Sessions :
       \/ \E s \in Signers :
            DeliverFormCompleted(k, s) \/ DeliverFormDeclined(k, s)
       \/ BeginCancel(k)
       \/ Step(k)

Spec == Init /\ [][Next]_vars

(***************************************************************************)
(* Fairness.  A handler that can run runs; PostgreSQL serves the waiters   *)
(* of a row; errors do not repeat for ever; the provider delivers again    *)
(* what was not acknowledged.  Nobody is obliged to sign or to cancel.     *)
(***************************************************************************)

Fairness ==
  /\ \A s \in Signers :
       SF_vars(s \notin acked /\ \E k \in Sessions : DeliverFormCompleted(k, s))
  /\ \A k \in Sessions :
       /\ WF_vars(LoadRequest(k) \/ ListSigners(k) \/ CheckReserve(k))
       /\ SF_vars(SignSeat(k) \/ LockBalance(k) \/ LockRequest(k))
       /\ WF_vars(Commit(k) \/ Rollback(k))
       /\ SF_vars(Commit(k))

FairSpec == Spec /\ Fairness

(***************************************************************************)
(* Properties.                                                             *)
(***************************************************************************)

\* A request that is over does not keep its credit: whatever the handlers
\* read before others committed or rolled back, who ends the request settles
\* its reservation or found it settled.
OverIsSettled ==
  status \in {"completed", "cancelled"} => settled["consume"] + settled["release"] >= 1

\* Races never complete a request that somebody has not signed, although who
\* declined is not waited for, and a completed request has its document.
CompletedIsSigned ==
  status = "completed" =>
    /\ \A s \in Signers : seat[s] = "signed"
    /\ stored >= 1

\* Handlers of one request never wait for each other for ever: the order of
\* the row locks has no cycle.
HandlersEnd ==
  \A k \in Sessions : session[k].pc # "idle" ~> session[k].pc = "idle"

(***************************************************************************)
(* What the source says, and the code does not do.                         *)
(***************************************************************************)

\* flags.py, "une demande en vol converge toujours (signatures enregistrees,
\* credits jamais coinces)": a request that everybody has signed ends.
SignedRequestEnds ==
  signedAt = Signers ~> status \in {"completed", "cancelled"}
=============================================================================
