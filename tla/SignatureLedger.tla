-------------------------- MODULE SignatureLedger --------------------------
(***************************************************************************)
(* The signature-credit ledger of one agency, src/signatures/ledger.py.    *)
(*                                                                         *)
(* Every operation of the ledger runs inside a transaction of its caller   *)
(* (a step activation, a webhook, a superadmin grant).  The database is    *)
(* PostgreSQL at READ COMMITTED, so a transaction is a sequence of         *)
(* statements and other transactions interleave between them:              *)
(*                                                                         *)
(*   idle -> waiting    the reads that precede the lock (the replay guard  *)
(*                      of purchase_credits, _live_reserve_exists)         *)
(*   waiting -> locked  SELECT ... FOR UPDATE of the balance row           *)
(*   waiting -> insert  the same SELECT when the row does not exist yet    *)
(*   insert -> locked   INSERT of the row, or its unique violation         *)
(*   locked -> idle     COMMIT, or ROLLBACK                                *)
(*                                                                         *)
(* The ORM loads the columns of the row with the lock and writes absolute  *)
(* values computed from them at the end, of the columns that change: that  *)
(* no update is lost rests on the lock.  The object does not outlive the   *)
(* operation, so the next transaction of a session loads it again.         *)
(***************************************************************************)
EXTENDS Integers, FiniteSets

CONSTANTS
  Requests,       \* signature_request rows, each created by one sender
  PaddleEvents,   \* ids of the Paddle events that sell a credit pack
  Txns,           \* database sessions that may be open at the same time
  PackSize,       \* credits in a pack
  GrantSize,      \* credits of one superadmin grant
  MaxGrants,      \* bound: grants in one behaviour
  LowThreshold,   \* agency.settings.signature_credits_low_threshold
  NoTxn           \* the balance row is not locked

ASSUME PackAssumption == PackSize \in Nat /\ GrantSize \in Nat
ASSUME BoundAssumption == MaxGrants \in Nat /\ LowThreshold \in Nat
ASSUME TxnAssumption == NoTxn \notin Txns
ASSUME EventAssumption == IsFiniteSet(PaddleEvents)

\* SignatureCreditKind; each ledger operation writes one entry of its kind.
RequestKinds == {"reserve", "consume", "release"}
Kinds == {"purchase", "grant"} \cup RequestKinds

VARIABLES
  rowExists,  \* the agency has its signature_credit_balance row
  available,  \* committed column available of that row
  reserved,   \* committed column reserved of that row
  total,      \* committed SUM(amount) of the entries of each kind
  entries,    \* committed number of entries of each kind, per request
  credited,   \* Paddle events that own a purchase entry (unique column)
  lockedBy,   \* transaction that holds the row, or an uncommitted INSERT
  txn         \* per session: pc, operation, request or event, alert sent,
              \* and the columns it has read

vars == <<rowExists, available, reserved, total, entries, credited, lockedBy,
          txn>>

Idle == [pc |-> "idle", op |-> "grant", arg |-> NoTxn, alerted |-> FALSE,
         available |-> 0, reserved |-> 0]

Txn == [pc : {"idle", "waiting", "insert", "locked"}, op : Kinds,
        arg : Requests \cup PaddleEvents \cup {NoTxn}, alerted : BOOLEAN,
        available : Int, reserved : Int]

TypeOK ==
  /\ rowExists \in BOOLEAN
  /\ available \in Int
  /\ reserved \in Int
  /\ total \in [Kinds -> Nat]
  /\ entries \in [Requests -> [RequestKinds -> Nat]]
  /\ credited \in SUBSET PaddleEvents
  /\ lockedBy \in Txns \cup {NoTxn}
  /\ txn \in [Txns -> Txn]

Init ==
  /\ rowExists = FALSE
  /\ available = 0
  /\ reserved = 0
  /\ total = [k \in Kinds |-> 0]
  /\ entries = [r \in Requests |-> [k \in RequestKinds |-> 0]]
  /\ credited = {}
  /\ lockedBy = NoTxn
  /\ txn = [t \in Txns |-> Idle]

ledger == <<rowExists, available, reserved, total, entries, credited>>

(***************************************************************************)
(* Statements before the lock.                                             *)
(***************************************************************************)

\* reserve - consume - release of one request, in the committed entries.
LiveReserveExists(r) ==
  entries[r]["reserve"] > entries[r]["consume"] + entries[r]["release"]

Start(t, op, arg) ==
  /\ txn[t].pc = "idle"
  /\ txn' = [txn EXCEPT ![t] =
               [pc |-> "waiting", op |-> op, arg |-> arg, alerted |-> FALSE,
                available |-> 0, reserved |-> 0]]
  /\ UNCHANGED <<ledger, lockedBy>>

\* A replay whose entry is already committed returns before the lock.
PurchaseCredits(t, e) ==
  /\ e \notin credited
  /\ Start(t, "purchase", e)

GrantCredits(t) ==
  /\ total["grant"] < MaxGrants * GrantSize
  /\ Start(t, "grant", NoTxn)

\* _send_one reserves for the request row it has just inserted, so a request
\* is reserved by the one transaction that creates it.
ReserveCredit(t, r) ==
  /\ entries[r]["reserve"] = 0
  /\ \A u \in Txns : txn[u].pc # "idle" /\ txn[u].op = "reserve"
                        => txn[u].arg # r
  /\ Start(t, "reserve", r)

ConsumeCredit(t, r) ==
  /\ LiveReserveExists(r)
  /\ Start(t, "consume", r)

ReleaseCredit(t, r) ==
  /\ LiveReserveExists(r)
  /\ Start(t, "release", r)

(***************************************************************************)
(* _locked_balance: SELECT ... FOR UPDATE, or the creation of the row.     *)
(***************************************************************************)

\* reserve_credit raises SignatureCreditsInsufficientError under the lock,
\* and sends the low-balance mail under the lock too, before any commit.
Crosses(before, after) == before >= LowThreshold /\ LowThreshold > after

\* Mutant: the alert compares the balance after the debit with itself.
HoldSilent(t) ==
  /\ lockedBy' = t
  /\ txn' = [txn EXCEPT
       ![t].pc = "locked",
       ![t].available = available, ![t].reserved = reserved,
       ![t].alerted = txn[t].op = "reserve" /\ available >= 1
                        /\ Crosses(available - 1, available - 1)]
  /\ UNCHANGED ledger

\* What the transaction does as soon as it holds the row: it loads the
\* columns, and a debit announces the crossing it is about to commit.
Hold(t) ==
  /\ lockedBy' = t
  /\ txn' = [txn EXCEPT
       ![t].pc = "locked",
       ![t].available = available, ![t].reserved = reserved,
       ![t].alerted = txn[t].op = "reserve" /\ available >= 1
                        /\ Crosses(available, available - 1)]
  /\ UNCHANGED ledger

\* Mutant: the SELECT forgets FOR UPDATE.
LockBalanceUnlocked(t) ==
  /\ txn[t].pc = "waiting"
  /\ rowExists
  /\ Hold(t)

LockBalance(t) ==
  /\ txn[t].pc = "waiting"
  /\ rowExists
  /\ lockedBy = NoTxn
  /\ Hold(t)

\* The SELECT finds no committed row: it locks nothing.
MissBalance(t) ==
  /\ txn[t].pc = "waiting"
  /\ ~rowExists
  /\ txn' = [txn EXCEPT ![t].pc = "insert"]
  /\ UNCHANGED <<ledger, lockedBy>>

\* The INSERT waits for an uncommitted INSERT of the same agency_id.
InsertBalance(t) ==
  /\ txn[t].pc = "insert"
  /\ ~rowExists
  /\ lockedBy = NoTxn
  /\ Hold(t)

\* The other INSERT committed first: unique violation, the flush raises and
\* the caller's transaction is rolled back.
InsertConflict(t) ==
  /\ txn[t].pc = "insert"
  /\ rowExists
  /\ txn' = [txn EXCEPT ![t] = Idle]
  /\ UNCHANGED <<ledger, lockedBy>>

(***************************************************************************)
(* End of the transaction.                                                 *)
(***************************************************************************)

\* What each operation adds to the columns it has read.
AvailableDelta(op) ==
  CASE op = "purchase" -> PackSize
    [] op = "grant"    -> GrantSize
    [] op = "reserve"  -> -1
    [] op = "consume"  -> 0
    [] op = "release"  -> 1

ReservedDelta(op) ==
  CASE op = "reserve" -> 1
    [] op \in {"consume", "release"} -> -1
    [] OTHER -> 0

\* Mutant: a debit is written with a negative amount.
AmountSigned(op) == IF op = "reserve" THEN -1 ELSE 1

\* Amounts are always positive; the kind of the entry carries the sign.
Amount(op) ==
  CASE op = "purchase" -> PackSize
    [] op = "grant"    -> GrantSize
    [] OTHER           -> 1

\* The UPDATE at the flush: an absolute value, of the columns that change.
Written(committed, read, delta) == IF delta = 0 THEN committed ELSE read + delta

NewAvailable(t) ==
  Written(available, txn[t].available, AvailableDelta(txn[t].op))
NewReserved(t) ==
  Written(reserved, txn[t].reserved, ReservedDelta(txn[t].op))

\* Mutant: the table has no CHECK.
ChecksDropped(t) == TRUE

\* The CHECKs available >= 0 and reserved >= 0 of the balance row.
ChecksHold(t) == NewAvailable(t) >= 0 /\ NewReserved(t) >= 0

\* Mutant: the column is not unique.
UniqueDropped(t) == TRUE

\* The unique column paddle_event_id of the entries.
UniqueHolds(t) == txn[t].op = "purchase" => txn[t].arg \notin credited

\* Mutant: the connection returns to the pool with its transaction open.
ReleaseKept(t) ==
  /\ txn' = [txn EXCEPT ![t] = Idle]
  /\ UNCHANGED lockedBy

Release(t) ==
  /\ lockedBy' = NoTxn
  /\ txn' = [txn EXCEPT ![t] = Idle]

Commit(t) ==
  LET op == txn[t].op
      arg == txn[t].arg
  IN /\ txn[t].pc = "locked"
     /\ op = "reserve" => txn[t].available >= 1
     /\ ChecksHold(t)
     /\ UniqueHolds(t)
     /\ rowExists' = TRUE
     /\ available' = NewAvailable(t)
     /\ reserved' = NewReserved(t)
     /\ total' = [total EXCEPT ![op] = @ + Amount(op)]
     /\ entries' = IF op \in RequestKinds
                     THEN [entries EXCEPT ![arg][op] = @ + 1]
                     ELSE entries
     /\ credited' = IF op = "purchase" THEN credited \cup {arg} ELSE credited
     /\ Release(t)

\* Insufficient credit, a violated CHECK or unique, or any later failure of
\* the caller (the signature provider, a template guard) undoes everything.
Rollback(t) ==
  /\ txn[t].pc = "locked"
  /\ Release(t)
  /\ UNCHANGED ledger

Next ==
  \E t \in Txns :
    \/ \E e \in PaddleEvents : PurchaseCredits(t, e)
    \/ GrantCredits(t)
    \/ \E r \in Requests : ReserveCredit(t, r)
    \/ \E r \in Requests : ConsumeCredit(t, r)
    \/ \E r \in Requests : ReleaseCredit(t, r)
    \/ LockBalance(t)
    \/ MissBalance(t)
    \/ InsertBalance(t)
    \/ InsertConflict(t)
    \/ Commit(t)
    \/ Rollback(t)

Spec == Init /\ [][Next]_vars

(***************************************************************************)
(* Fairness.  A session always ends its transaction (the request handler   *)
(* commits, or its context manager rolls back), and PostgreSQL serves the  *)
(* waiters of a row lock in arrival order, so a waiter that is passed over *)
(* again and again is served: strong fairness of the statements that wait. *)
(***************************************************************************)

Fairness ==
  \A t \in Txns :
    /\ WF_vars(Commit(t) \/ Rollback(t))
    /\ WF_vars(MissBalance(t))
    /\ WF_vars(InsertConflict(t))
    /\ SF_vars(LockBalance(t))
    /\ SF_vars(InsertBalance(t))

FairSpec == Spec /\ Fairness

(***************************************************************************)
(* Properties.                                                             *)
(***************************************************************************)

\* The balance row always equals the balance rederived from the append-only
\* entries (derived_balance): although each transaction writes back values
\* computed from what it read earlier, no interleaving of purchases, grants,
\* reservations and settlements loses an update of the row.
BalanceIsDerived ==
  /\ available = total["purchase"] + total["grant"]
                   - total["reserve"] + total["release"]
  /\ reserved = total["reserve"] - total["consume"] - total["release"]

\* Neither column goes below zero, even though consume_credit and
\* release_credit decide before they lock and may settle twice.
NonNegative == available >= 0 /\ reserved >= 0

\* Two deliveries of one Paddle event that race past the replay guard credit
\* the pack once: what was bought is one pack per event that has an entry.
PaddleEventCreditedOnce ==
  total["purchase"] = PackSize * Cardinality(credited)

\* An agency never completes more signatures than it bought or was granted,
\* whatever is cancelled, expires or is replayed.
NeverOverspent ==
  total["consume"] <= total["purchase"] + total["grant"]

\* A debit that takes the committed balance below the agency's threshold is
\* always announced by the transaction that commits it: the balance compared
\* under the lock is still the one replaced at COMMIT.
CrossingIsAnnounced ==
  [][Crosses(available, available') => \E t \in Txns : txn[t].alerted]_vars

\* Every ledger operation ends: no session waits for the balance row for ever.
EveryOperationEnds ==
  \A t \in Txns : txn[t].pc # "idle" ~> txn[t].pc = "idle"

(***************************************************************************)
(* What the comments of the ledger say, and the code does not do.          *)
(***************************************************************************)

\* release_credit, "Idempotent (double annulation, course avec l'expiration
\* -> un seul release)": a reservation is settled at most once.
SettledOnce ==
  \A r \in Requests :
    entries[r]["consume"] + entries[r]["release"] <= entries[r]["reserve"]
=============================================================================
