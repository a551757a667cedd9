----------------------- MODULE SignatureLedgerProofs -----------------------
(***************************************************************************)
(* Theorems about SignatureLedger, for any number of requests, events and  *)
(* concurrent sessions and any pack, grant and threshold.                  *)
(*                                                                         *)
(* The inductive invariant adds three facts to the checked properties:     *)
(* what an operation is called for (ArgumentOK), that the session past the *)
(* SELECT ... FOR UPDATE is the holder of the row and that the columns it  *)
(* read are still the committed ones (LockInv), and that the alert it sent *)
(* compares the balance it will replace (AlertInv).                        *)
(***************************************************************************)
EXTENDS SignatureLedger, FiniteSetTheorems, TLAPS

\* An operation of a request names a request, a purchase names an event.
ArgumentOK ==
  \A t \in Txns :
    txn[t].pc # "idle" =>
      /\ txn[t].op \in RequestKinds => txn[t].arg \in Requests
      /\ txn[t].op = "purchase" => txn[t].arg \in PaddleEvents

LockInv ==
  \A t \in Txns :
    txn[t].pc = "locked" => /\ lockedBy = t
                            /\ txn[t].available = available
                            /\ txn[t].reserved = reserved

AlertInv ==
  \A t \in Txns :
    txn[t].pc = "locked" /\ txn[t].op = "reserve" /\ available >= 1
      => txn[t].alerted = Crosses(available, available - 1)

IInv ==
  /\ TypeOK
  /\ ArgumentOK
  /\ LockInv
  /\ AlertInv
  /\ BalanceIsDerived
  /\ NonNegative
  /\ PaddleEventCreditedOnce

(***************************************************************************)
(* The helpers of the model.                                               *)
(***************************************************************************)

\* What each kind of entry adds to the columns of the balance and to the sum.
LEMMA Deltas ==
  /\ AvailableDelta("purchase") = PackSize
  /\ AvailableDelta("grant") = GrantSize
  /\ AvailableDelta("reserve") = -1
  /\ AvailableDelta("consume") = 0
  /\ AvailableDelta("release") = 1
  /\ ReservedDelta("purchase") = 0
  /\ ReservedDelta("grant") = 0
  /\ ReservedDelta("reserve") = 1
  /\ ReservedDelta("consume") = -1
  /\ ReservedDelta("release") = -1
  /\ Amount("purchase") = PackSize
  /\ Amount("grant") = GrantSize
  /\ Amount("reserve") = 1
  /\ Amount("consume") = 1
  /\ Amount("release") = 1
  BY DEF AvailableDelta, ReservedDelta, Amount

\* Only a COMMIT changes the committed tables.
LEMMA OnlyCommitWrites ==
  ASSUME Next
  PROVE  (\E t \in Txns : Commit(t)) \/ UNCHANGED ledger
  BY DEF Next, PurchaseCredits, GrantCredits, ReserveCredit, ConsumeCredit,
         ReleaseCredit, Start, LockBalance, MissBalance, InsertBalance,
         InsertConflict, Rollback, Hold, ledger

(***************************************************************************)
(* Type correctness.                                                       *)
(***************************************************************************)

\* Every statement before the lock starts one operation on a proper argument.
LEMMA StartType ==
  ASSUME TypeOK, ArgumentOK, NEW t \in Txns, NEW op \in Kinds,
         NEW arg \in Requests \cup PaddleEvents \cup {NoTxn},
         op \in RequestKinds => arg \in Requests,
         op = "purchase" => arg \in PaddleEvents,
         Start(t, op, arg)
  PROVE  TypeOK' /\ ArgumentOK'
<1>1. [pc |-> "waiting", op |-> op, arg |-> arg, alerted |-> FALSE,
       available |-> 0, reserved |-> 0] \in Txn
  BY DEF Txn
<1>2. txn' \in [Txns -> Txn]
  BY <1>1 DEF TypeOK, Start
<1>3. TypeOK'
  BY <1>2 DEF TypeOK, Start, ledger
<1>4. ArgumentOK'
  BY DEF TypeOK, ArgumentOK, Start
<1>5. QED
  BY <1>3, <1>4

LEMMA HoldType ==
  ASSUME TypeOK, ArgumentOK, NEW t \in Txns, txn[t].pc # "idle", Hold(t)
  PROVE  TypeOK' /\ ArgumentOK'
<1> DEFINE alert == txn[t].op = "reserve" /\ available >= 1
                      /\ Crosses(available, available - 1)
<1>1. alert \in BOOLEAN
  BY DEF Crosses
<1>2. txn' = [txn EXCEPT ![t].pc = "locked", ![t].available = available,
                        ![t].reserved = reserved, ![t].alerted = alert]
  BY DEF Hold
<1> HIDE DEF alert
<1>3. txn' \in [Txns -> Txn]
  <2> DEFINE row == [txn[t] EXCEPT !.pc = "locked", !.available = available,
                                   !.reserved = reserved, !.alerted = alert]
  <2>1. txn[t] \in Txn /\ available \in Int /\ reserved \in Int
    BY DEF TypeOK
  <2>2. row \in Txn
    BY <1>1, <2>1 DEF Txn
  <2>3. txn' = [txn EXCEPT ![t] = row]
    BY <1>2, Zenon
  <2>4. QED
    BY <2>2, <2>3 DEF TypeOK
<1>4. TypeOK'
  BY <1>3 DEF TypeOK, Hold, ledger
<1>5. ArgumentOK'
  BY <1>2 DEF TypeOK, Txn, ArgumentOK
<1>6. QED
  BY <1>4, <1>5

LEMMA ReleaseType ==
  ASSUME TypeOK, ArgumentOK, NEW t \in Txns, Release(t)
  PROVE  /\ lockedBy' \in Txns \cup {NoTxn}
         /\ txn' \in [Txns -> Txn]
         /\ ArgumentOK'
<1>1. Idle \in Txn
  BY DEF Idle, Txn, Kinds
<1>2. QED
  BY <1>1 DEF TypeOK, ArgumentOK, Release, Idle

LEMMA CommitType ==
  ASSUME TypeOK, ArgumentOK, NEW t \in Txns, Commit(t)
  PROVE  TypeOK' /\ ArgumentOK'
<1> DEFINE op == txn[t].op
           arg == txn[t].arg
<1>1. op \in Kinds /\ txn[t].pc = "locked"
  BY DEF TypeOK, Txn, Commit
<1>2. AvailableDelta(op) \in Int /\ ReservedDelta(op) \in Int
      /\ Amount(op) \in Nat
  BY <1>1, Deltas, PackAssumption DEF Kinds, RequestKinds
<1>3. /\ op \in RequestKinds => arg \in Requests
      /\ op = "purchase" => arg \in PaddleEvents
  BY <1>1 DEF ArgumentOK
<1>4. available' \in Int /\ reserved' \in Int /\ rowExists' \in BOOLEAN
  <2>1. txn[t].available \in Int /\ txn[t].reserved \in Int
    BY DEF TypeOK, Txn
  <2>2. QED
    BY <1>2, <2>1 DEF Commit, TypeOK, NewAvailable, NewReserved, Written
<1>5. total' \in [Kinds -> Nat]
  BY <1>1, <1>2 DEF Commit, TypeOK
<1>6. entries' \in [Requests -> [RequestKinds -> Nat]]
  <2>1. CASE op \in RequestKinds
    <3>1. entries' = [entries EXCEPT ![arg] =
                           [entries[arg] EXCEPT ![op] = entries[arg][op] + 1]]
      BY <2>1 DEF Commit
    <3>2. [entries[arg] EXCEPT ![op] = entries[arg][op] + 1]
            \in [RequestKinds -> Nat]
      BY <2>1, <1>3 DEF TypeOK
    <3>3. QED
      BY <3>1, <3>2, <2>1, <1>3 DEF TypeOK
  <2>2. CASE op \notin RequestKinds
    BY <2>2 DEF Commit, TypeOK
  <2>3. QED
    BY <2>1, <2>2
<1>7. credited' \in SUBSET PaddleEvents
  BY <1>3 DEF Commit, TypeOK
<1>8. Release(t)
  BY DEF Commit
<1>9. QED
  BY <1>4, <1>5, <1>6, <1>7, <1>8, ReleaseType DEF TypeOK

\* Types and arguments are preserved by every step.
LEMMA TypeStep ==
  ASSUME TypeOK, ArgumentOK, [Next]_vars
  PROVE  TypeOK' /\ ArgumentOK'
<1>1. CASE UNCHANGED vars
  BY <1>1 DEF vars, TypeOK, ArgumentOK
<1>2. ASSUME NEW t \in Txns, NEW e \in PaddleEvents, PurchaseCredits(t, e)
      PROVE  TypeOK' /\ ArgumentOK'
  BY <1>2, StartType DEF PurchaseCredits, Kinds, RequestKinds
<1>3. ASSUME NEW t \in Txns, GrantCredits(t)
      PROVE  TypeOK' /\ ArgumentOK'
  BY <1>3, StartType DEF GrantCredits, Kinds, RequestKinds
<1>4. ASSUME NEW t \in Txns, NEW r \in Requests,
             ReserveCredit(t, r) \/ ConsumeCredit(t, r) \/ ReleaseCredit(t, r)
      PROVE  TypeOK' /\ ArgumentOK'
  <2>1. PICK op \in RequestKinds : Start(t, op, r)
    BY <1>4 DEF ReserveCredit, ConsumeCredit, ReleaseCredit, RequestKinds
  <2>2. op \in Kinds /\ op # "purchase"
    BY DEF Kinds, RequestKinds
  <2>3. QED
    BY <2>1, <2>2, StartType
<1>5. ASSUME NEW t \in Txns, LockBalance(t) \/ InsertBalance(t)
      PROVE  TypeOK' /\ ArgumentOK'
  BY <1>5, HoldType DEF LockBalance, InsertBalance
<1>6. ASSUME NEW t \in Txns, MissBalance(t)
      PROVE  TypeOK' /\ ArgumentOK'
  BY <1>6 DEF MissBalance, TypeOK, Txn, ArgumentOK, ledger
<1>7. ASSUME NEW t \in Txns, InsertConflict(t)
      PROVE  TypeOK' /\ ArgumentOK'
  <2>1. Idle \in Txn
    BY DEF Idle, Txn, Kinds
  <2>2. QED
    BY <1>7, <2>1 DEF InsertConflict, TypeOK, ArgumentOK, Idle, ledger
<1>8. ASSUME NEW t \in Txns, Commit(t)
      PROVE  TypeOK' /\ ArgumentOK'
  BY <1>8, CommitType
<1>9. ASSUME NEW t \in Txns, Rollback(t)
      PROVE  TypeOK' /\ ArgumentOK'
  BY <1>9, ReleaseType DEF Rollback, TypeOK, ledger
<1>10. QED
  BY <1>1, <1>2, <1>3, <1>4, <1>5, <1>6, <1>7, <1>8, <1>9 DEF Next

LEMMA TypeInit == Init => TypeOK /\ ArgumentOK
<1> SUFFICES ASSUME Init PROVE TypeOK /\ ArgumentOK
  OBVIOUS
<1>1. Idle \in Txn
  BY DEF Idle, Txn, Kinds
<1>2. total \in [Kinds -> Nat] /\ entries \in [Requests -> [RequestKinds -> Nat]]
  BY DEF Init
<1>3. txn \in [Txns -> Txn] /\ \A t \in Txns : txn[t].pc = "idle"
  BY <1>1 DEF Init, Idle
<1>4. rowExists \in BOOLEAN
  BY Zenon DEF Init
<1>5. QED
  BY <1>2, <1>3, <1>4 DEF Init, TypeOK, ArgumentOK

\* The tables and the sessions keep their types.
THEOREM TypeCorrect == Spec => []TypeOK
<1>1. TypeOK /\ ArgumentOK /\ [Next]_vars => (TypeOK /\ ArgumentOK)'
  BY TypeStep
<1>2. QED
  BY TypeInit, <1>1, PTL DEF Spec

(***************************************************************************)
(* The lock, and what was read under it.                                   *)
(***************************************************************************)

\* A session that is past the lock and not the one that moves stays as it is.
LEMMA OthersKeep ==
  ASSUME TypeOK, NEW t \in Txns, NEW u \in Txns, u # t,
         \/ \E e \in PaddleEvents : PurchaseCredits(t, e)
         \/ GrantCredits(t)
         \/ \E r \in Requests : ReserveCredit(t, r)
         \/ \E r \in Requests : ConsumeCredit(t, r)
         \/ \E r \in Requests : ReleaseCredit(t, r)
         \/ LockBalance(t)
         \/ MissBalance(t)
         \/ InsertBalance(t)
         \/ InsertConflict(t)
         \/ Commit(t)
         \/ Rollback(t)
  PROVE  txn'[u] = txn[u]
  BY DEF TypeOK, PurchaseCredits, GrantCredits, ReserveCredit, ConsumeCredit,
         ReleaseCredit, Start, LockBalance, MissBalance, InsertBalance,
         InsertConflict, Rollback, Commit, Hold, Release

\* Taking the lock: nobody else is past it, and the alert is computed from
\* the committed balance.
LEMMA HoldStep ==
  ASSUME TypeOK, LockInv, AlertInv, NEW t \in Txns, Hold(t),
         lockedBy = NoTxn
  PROVE  LockInv' /\ AlertInv'
<1>1. \A u \in Txns : txn[u].pc # "locked"
  BY TxnAssumption DEF LockInv
<1>2. \A u \in Txns : u # t => txn'[u] = txn[u]
  BY DEF Hold, TypeOK
<1>3. LockInv'
  <2>1. /\ txn'[t].available = available /\ txn'[t].reserved = reserved
        /\ available' = available /\ reserved' = reserved /\ lockedBy' = t
    BY DEF Hold, ledger, TypeOK, Txn
  <2>2. QED
    BY <1>1, <1>2, <2>1 DEF LockInv
<1>4. available' = available
  BY DEF Hold, ledger
<1>5. txn'[t].pc = "locked" /\ txn'[t].op = txn[t].op
  BY DEF Hold, TypeOK, Txn
<1>6. txn'[t].alerted = (txn[t].op = "reserve" /\ available >= 1
                           /\ Crosses(available, available - 1))
  BY DEF Hold, TypeOK, Txn
<1>7. (txn[t].op = "reserve" /\ available >= 1)
        => txn'[t].alerted = Crosses(available, available - 1)
  BY <1>6, Zenon DEF Crosses
<1>8. AlertInv'
  <2> SUFFICES ASSUME NEW u \in Txns,
                      txn'[u].pc = "locked", txn'[u].op = "reserve",
                      available' >= 1
               PROVE  txn'[u].alerted = Crosses(available', available' - 1)
    BY DEF AlertInv, Crosses
  <2>1. u = t
    BY <1>1, <1>2
  <2>2. QED
    BY <2>1, <1>4, <1>5, <1>7
<1>9. QED
  BY <1>3, <1>8

\* Ending a transaction frees the row: nobody is past the lock.
LEMMA ReleaseStep ==
  ASSUME TypeOK, LockInv, NEW t \in Txns, txn[t].pc = "locked", Release(t)
  PROVE  LockInv' /\ AlertInv'
<1>1. \A u \in Txns : txn'[u].pc # "locked"
  BY DEF LockInv, Release, TypeOK, Idle
<1>2. QED
  BY <1>1 DEF LockInv, AlertInv

\* A statement that leaves the session outside the lock disturbs nothing.
LEMMA OutsideStep ==
  ASSUME LockInv, AlertInv, TypeOK, NEW t \in Txns,
         txn'[t].pc # "locked", lockedBy' = lockedBy, available' = available,
         reserved' = reserved,
         \A u \in Txns : u # t => txn'[u] = txn[u]
  PROVE  LockInv' /\ AlertInv'
<1>1. LockInv'
  BY DEF LockInv
<1>2. AlertInv'
  BY DEF AlertInv, Crosses
<1>3. QED
  BY <1>1, <1>2

LEMMA LockStep ==
  ASSUME TypeOK, LockInv, AlertInv, [Next]_vars
  PROVE  LockInv' /\ AlertInv'
<1>1. CASE UNCHANGED vars
  BY <1>1 DEF vars, LockInv, AlertInv, Crosses
<1>2. ASSUME NEW t \in Txns,
             \/ \E e \in PaddleEvents : PurchaseCredits(t, e)
             \/ GrantCredits(t)
             \/ \E r \in Requests : ReserveCredit(t, r)
             \/ \E r \in Requests : ConsumeCredit(t, r)
             \/ \E r \in Requests : ReleaseCredit(t, r)
      PROVE  LockInv' /\ AlertInv'
  <2>1. PICK op, arg : Start(t, op, arg)
    BY <1>2 DEF PurchaseCredits, GrantCredits, ReserveCredit, ConsumeCredit,
                ReleaseCredit
  <2>2. /\ txn'[t].pc = "waiting" /\ lockedBy' = lockedBy
        /\ available' = available /\ reserved' = reserved
    BY <2>1 DEF Start, TypeOK, Idle, ledger
  <2>3. QED
    BY <1>2, <2>2, OthersKeep, OutsideStep
<1>3. ASSUME NEW t \in Txns, LockBalance(t) \/ InsertBalance(t)
      PROVE  LockInv' /\ AlertInv'
  BY <1>3, HoldStep DEF LockBalance, InsertBalance
<1>4. ASSUME NEW t \in Txns, MissBalance(t) \/ InsertConflict(t)
      PROVE  LockInv' /\ AlertInv'
  <2>1. /\ txn'[t].pc # "locked" /\ lockedBy' = lockedBy
        /\ available' = available /\ reserved' = reserved
    BY <1>4 DEF MissBalance, InsertConflict, Idle, TypeOK, Txn, ledger
  <2>2. QED
    BY <1>4, <2>1, OthersKeep, OutsideStep
<1>5. ASSUME NEW t \in Txns, Commit(t) \/ Rollback(t)
      PROVE  LockInv' /\ AlertInv'
  BY <1>5, ReleaseStep DEF Commit, Rollback
<1>6. QED
  BY <1>1, <1>2, <1>3, <1>4, <1>5 DEF Next

(***************************************************************************)
(* The books.                                                              *)
(***************************************************************************)

Books == BalanceIsDerived /\ NonNegative /\ PaddleEventCreditedOnce

\* What a transaction writes is what the committed columns become by its
\* entry: the row it read is still the committed one.
LEMMA WrittenIsFresh ==
  ASSUME TypeOK, LockInv, NEW t \in Txns, Commit(t)
  PROVE  /\ available' = available + AvailableDelta(txn[t].op)
         /\ reserved' = reserved + ReservedDelta(txn[t].op)
<1>1. txn[t].op \in Kinds /\ available \in Int /\ reserved \in Int
  BY DEF TypeOK, Txn
<1>2. AvailableDelta(txn[t].op) \in Int /\ ReservedDelta(txn[t].op) \in Int
  BY <1>1, Deltas, PackAssumption DEF Kinds, RequestKinds
<1>3. txn[t].available = available /\ txn[t].reserved = reserved
  BY DEF LockInv, Commit
<1>4. QED
  BY <1>1, <1>2, <1>3 DEF Commit, NewAvailable, NewReserved, Written

\* COMMIT moves the columns, the entries and the events together.
LEMMA CommitBooks ==
  ASSUME TypeOK, ArgumentOK, LockInv, Books, NEW t \in Txns, Commit(t)
  PROVE  Books'
<1> DEFINE op == txn[t].op
           arg == txn[t].arg
<1>1. op \in Kinds /\ txn[t].pc = "locked"
  BY DEF TypeOK, Txn, Commit
<1>2. /\ available' = available + AvailableDelta(op)
      /\ reserved' = reserved + ReservedDelta(op)
      /\ total' = [total EXCEPT ![op] = total[op] + Amount(op)]
      /\ available' >= 0 /\ reserved' >= 0
  BY WrittenIsFresh DEF Commit, ChecksHold
<1>3. total \in [Kinds -> Nat] /\ available \in Int /\ reserved \in Int
  BY DEF TypeOK
<1>4. BalanceIsDerived'
  <2>1. CASE op = "purchase"
    BY <2>1, <1>2, <1>3, Deltas, PackAssumption
       DEF Books, BalanceIsDerived, Kinds, RequestKinds
  <2>2. CASE op = "grant"
    BY <2>2, <1>2, <1>3, Deltas, PackAssumption
       DEF Books, BalanceIsDerived, Kinds, RequestKinds
  <2>3. CASE op = "reserve"
    BY <2>3, <1>2, <1>3, Deltas
       DEF Books, BalanceIsDerived, Kinds, RequestKinds
  <2>4. CASE op = "consume"
    BY <2>4, <1>2, <1>3, Deltas
       DEF Books, BalanceIsDerived, Kinds, RequestKinds
  <2>5. CASE op = "release"
    BY <2>5, <1>2, <1>3, Deltas
       DEF Books, BalanceIsDerived, Kinds, RequestKinds
  <2>6. QED
    BY <1>1, <2>1, <2>2, <2>3, <2>4, <2>5 DEF Kinds, RequestKinds
<1>5. NonNegative'
  BY <1>2 DEF NonNegative
<1>6. PaddleEventCreditedOnce'
  <2>1. IsFiniteSet(credited) /\ Cardinality(credited) \in Nat
    BY EventAssumption, FS_Subset, FS_CardinalityType DEF TypeOK
  <2>2. CASE op = "purchase"
    <3>1. arg \notin credited /\ credited' = credited \cup {arg}
      BY <2>2 DEF Commit, UniqueHolds
    <3>2. Cardinality(credited') = Cardinality(credited) + 1
      BY <3>1, <2>1, FS_AddElement
    <3>3. total'["purchase"] = total["purchase"] + PackSize
      BY <2>2, <1>2, <1>3, Deltas DEF Kinds
    <3>4. QED
      BY <3>2, <3>3, <2>1, PackAssumption DEF Books, PaddleEventCreditedOnce
  <2>3. CASE op # "purchase"
    <3>1. credited' = credited
      BY <2>3 DEF Commit
    <3>2. total'["purchase"] = total["purchase"]
      BY <2>3, <1>1, <1>2, <1>3 DEF Kinds
    <3>3. QED
      BY <3>1, <3>2 DEF Books, PaddleEventCreditedOnce
  <2>4. QED
    BY <2>2, <2>3
<1>7. QED
  BY <1>4, <1>5, <1>6 DEF Books

LEMMA BooksStep ==
  ASSUME TypeOK, ArgumentOK, LockInv, Books, [Next]_vars
  PROVE  Books'
<1>1. CASE UNCHANGED ledger
  BY <1>1 DEF ledger, Books, BalanceIsDerived, NonNegative,
              PaddleEventCreditedOnce
<1>2. ASSUME NEW t \in Txns, Commit(t)
      PROVE  Books'
  BY <1>2, CommitBooks
<1>3. CASE UNCHANGED vars
  BY <1>1, <1>3 DEF vars, ledger
<1>4. QED
  BY <1>1, <1>2, <1>3, OnlyCommitWrites

LEMMA BooksInit == Init => LockInv /\ AlertInv /\ Books
<1> SUFFICES ASSUME Init PROVE LockInv /\ AlertInv /\ Books
  OBVIOUS
<1>1. LockInv /\ AlertInv
  BY DEF Init, LockInv, AlertInv, Idle
<1>2. BalanceIsDerived /\ NonNegative
  BY DEF Init, BalanceIsDerived, NonNegative, Kinds, RequestKinds
<1>3. total["purchase"] = 0 /\ credited = {}
  BY DEF Init, Kinds
<1>4. PaddleEventCreditedOnce
  BY <1>3, FS_EmptySet, PackAssumption DEF PaddleEventCreditedOnce
<1>5. QED
  BY <1>1, <1>2, <1>4 DEF Books

LEMMA Inductive == Spec => []IInv
<1>1. Init => IInv
  BY TypeInit, BooksInit DEF IInv, Books
<1>2. IInv /\ [Next]_vars => IInv'
  BY TypeStep, LockStep, BooksStep DEF IInv, Books
<1>3. QED
  BY <1>1, <1>2, PTL DEF Spec

\* The balance row is the one derived from the entries: SELECT ... FOR UPDATE
\* makes the read-modify-write of each operation of ledger.py lose nothing.
THEOREM BalanceCorrect == Spec => []BalanceIsDerived
BY Inductive, PTL DEF IInv

\* No column of the balance is ever negative.
THEOREM NeverNegative == Spec => []NonNegative
BY Inductive, PTL DEF IInv

\* Each Paddle event credits its pack at most once.
THEOREM CreditedOnce == Spec => []PaddleEventCreditedOnce
BY Inductive, PTL DEF IInv

\* Completed signatures never exceed what was bought and granted: what was
\* consumed is available + reserved short of it, and neither is negative.
THEOREM NoOverspending == Spec => []NeverOverspent
<1>1. IInv => NeverOverspent
  <2> SUFFICES ASSUME IInv PROVE NeverOverspent
    OBVIOUS
  <2>1. total \in [Kinds -> Nat]
    BY DEF IInv, TypeOK
  <2>2. /\ total["purchase"] \in Nat
        /\ total["grant"] \in Nat
        /\ total["reserve"] \in Nat
        /\ total["consume"] \in Nat
        /\ total["release"] \in Nat
    BY <2>1 DEF Kinds, RequestKinds
  <2>3. QED
    BY <2>2 DEF IInv, BalanceIsDerived, NonNegative, NeverOverspent
<1>2. QED
  BY <1>1, Inductive, PTL

\* A committed crossing of the low-balance threshold was announced by the
\* session that commits it.
THEOREM CrossingsAnnounced == Spec => CrossingIsAnnounced
<1>1. IInv /\ [Next]_vars
        => [Crosses(available, available') => \E t \in Txns : txn[t].alerted]_vars
  <2> SUFFICES ASSUME IInv, Next, Crosses(available, available')
               PROVE  \E t \in Txns : txn[t].alerted
    OBVIOUS
  <2>1. available \in Int /\ available' # available
    BY BoundAssumption DEF IInv, TypeOK, Crosses
  <2>2. PICK t \in Txns : Commit(t)
    BY <2>1, OnlyCommitWrites DEF ledger
  <2>3. txn[t].op \in Kinds
    BY DEF IInv, TypeOK, Txn
  <2>4. available' = available + AvailableDelta(txn[t].op) /\ available' < available
    <3>1. AvailableDelta(txn[t].op) \in Int
      BY <2>3, Deltas, PackAssumption DEF Kinds, RequestKinds
    <3>2. available' = available + AvailableDelta(txn[t].op)
      BY <2>2, WrittenIsFresh DEF IInv
    <3>3. QED
      BY <3>1, <3>2, <2>1, BoundAssumption DEF Crosses
  <2>5. txn[t].op = "reserve"
    BY <2>1, <2>3, <2>4, Deltas, PackAssumption DEF Kinds, RequestKinds
  <2>6. available' = available - 1 /\ available >= 1 /\ txn[t].pc = "locked"
    <3>1. txn[t].available = available
      BY <2>2 DEF IInv, LockInv, Commit
    <3>2. QED
      BY <2>1, <2>2, <2>4, <2>5, <3>1, Deltas DEF Commit
  <2>7. txn[t].alerted = Crosses(available, available - 1)
    BY <2>5, <2>6 DEF IInv, AlertInv
  <2>8. Crosses(available, available - 1)
    BY <2>6
  <2>9. txn[t].alerted
    BY <2>7, <2>8, Zenon
  <2>10. QED
    BY <2>9
<1>2. QED
  BY <1>1, Inductive, PTL DEF Spec, CrossingIsAnnounced
=============================================================================
