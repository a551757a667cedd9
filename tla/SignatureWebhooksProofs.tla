---------------------- MODULE SignatureWebhooksProofs ----------------------
(***************************************************************************)
(* Proofs about SignatureWebhooks, for any number of signers and of        *)
(* concurrent sessions.                                                    *)
(*                                                                         *)
(* A handler decides from rows it has read, while others commit.  Three    *)
(* facts make that safe.  No seat goes back to pending, so what a handler  *)
(* listed still holds when it commits.  A handler that will write          *)
(* COMPLETED either listed nobody else as pending or found the request     *)
(* completed.  And one that will end the request settles its reservation,  *)
(* or found it settled.  They are in Remembers, what the record of a       *)
(* session is worth at any time.                                           *)
(***************************************************************************)
EXTENDS SignatureWebhooks, TLAPS

\* Past list_signers, or past the test of a cancellation.
Decided == {"check", "balance", "request", "commit"}

\* A webhook is of a signer who signed, or declined, at the provider.
Caused(m) == m.signer # Nobody => m.signer \in signedAt \cup declinedAt

\* Who was not listed as pending has signed or declined, and the request is
\* only written as completed when nobody was listed, or when it was
\* completed already.
Listed(m) ==
  m.pc \in Decided /\ m.signer \in signedAt =>
    /\ \A s \in Signers \ {m.signer} : s \notin m.pending => seat[s] # "pending"
    /\ m.writes = "completed" => m.pending = {} \/ m.statusRead = "completed"
    /\ m.pc = "check" => m.pending = {}

\* A cancellation signs no seat, and writes CANCELLED or nothing.
Cancelled(m) ==
  m.signer = Nobody =>
    /\ m.pc \notin {"sign", "list"}
    /\ m.pc \in Decided => m.writes \in {"cancelled", m.statusRead}

\* A refusal writes one seat.
Declined(m) ==
  m.signer \in declinedAt =>
    m.pc \in {"sign", "commit"} /\ m.writes = m.statusRead /\ ~m.settles

Ended == settled["consume"] + settled["release"] >= 1

\* Who will end the request settles its reservation, or found it settled.
Settling(m) ==
  m.pc \in {"balance", "request", "commit"} /\ m.writes # m.statusRead
    => m.writes = "partially_signed" \/ m.settles \/ Ended

Remembers(m) ==
  /\ m \in Session
  /\ Caused(m)
  /\ Listed(m)
  /\ Cancelled(m)
  /\ Declined(m)
  /\ Settling(m)

\* A seat is signed or declined by whoever did so at the provider.
Told ==
  \A s \in Signers : /\ seat[s] = "signed" => s \in signedAt
                     /\ seat[s] = "declined" => s \in declinedAt

Inv ==
  /\ TypeOK
  /\ Told
  /\ CompletedIsSigned
  /\ OverIsSettled
  /\ \A k \in Sessions : Remembers(session[k])

LEMMA InvInit == Init => Inv
<1> SUFFICES ASSUME Init PROVE Inv
  OBVIOUS
<1>1. Idle \in Session
  BY DEF Idle, Session, Statuses, SeatStatuses
<1>2. TypeOK
  BY <1>1, CreditAssumption DEF Init, TypeOK, Statuses, SeatStatuses
<1>3. \A k \in Sessions : Remembers(session[k])
  BY <1>1, SignerAssumption DEF Init, Idle, Remembers, Caused, Listed, Cancelled, Declined, Settling, Decided
<1>. QED BY <1>2, <1>3 DEF Init, Inv, Told, CompletedIsSigned, OverIsSettled

(***************************************************************************)
(* The statements of a session before its COMMIT, and its ROLLBACK.        *)
(***************************************************************************)

Moves(k) ==
  \/ \E s \in Signers : DeliverFormCompleted(k, s)
  \/ \E s \in Signers : DeliverFormDeclined(k, s)
  \/ BeginCancel(k)
  \/ LoadRequest(k)
  \/ SignSeat(k)
  \/ ListSigners(k)
  \/ CheckReserve(k)
  \/ LockBalance(k)
  \/ LockRequest(k)
  \/ Rollback(k)

\* None of them changes a table.
LEMMA MovesWriteNothing ==
  ASSUME NEW k \in Sessions, Moves(k)
  PROVE  UNCHANGED <<signedAt, declinedAt, acked, seat, status, settled, stored>>
BY DEF Moves, DeliverFormCompleted, DeliverFormDeclined, BeginCancel, LoadRequest, SignSeat,
   ListSigners,
   CheckReserve, LockBalance, LockRequest, Rollback, Goto, Take, committed, told

\* They take free rows, or give back the session's own.
LEMMA MovesLock ==
  ASSUME TypeOK, NEW k \in Sessions, Moves(k)
  PROVE  lock' \in [Rows -> Sessions \cup {Nobody}]
BY DEF TypeOK, Moves, DeliverFormCompleted, DeliverFormDeclined, BeginCancel, LoadRequest,
   SignSeat,
   ListSigners, CheckReserve, LockBalance, LockRequest, Rollback, Take, Unlock

\* Each leaves the session a record that is worth what it should be.
LEMMA MovesRemember ==
  ASSUME Inv, NEW k \in Sessions, Moves(k)
  PROVE  \E m : Remembers(m) /\ session' = [session EXCEPT ![k] = m]
<1> DEFINE was == session[k]
<1>1. Remembers(was) /\ was \in Session
  BY DEF Inv, Remembers
<1>2. Nobody \notin signedAt \cup declinedAt
  BY SignerAssumption DEF Inv, TypeOK
<1>3. CASE BeginCancel(k)
  <2> DEFINE m == [Idle EXCEPT !.pc = "load"]
  <2>1. session' = [session EXCEPT ![k] = m]
    BY <1>3 DEF BeginCancel
  <2>2. Remembers(m)
    BY <1>2 DEF Remembers, Caused, Listed, Cancelled, Declined, Settling,
           Decided, Idle, Session, Statuses, SeatStatuses
  <2>. QED BY <2>1, <2>2
<1>4. ASSUME NEW s \in Signers, DeliverFormCompleted(k, s)
      PROVE  \E m : Remembers(m) /\ session' = [session EXCEPT ![k] = m]
  <2> DEFINE m == [Idle EXCEPT !.pc = "load", !.signer = s, !.seatRead = seat[s]]
  <2>1. session' = [session EXCEPT ![k] = m] /\ s \in signedAt
    BY <1>4 DEF DeliverFormCompleted
  <2>2. seat[s] \in SeatStatuses /\ s \notin declinedAt
    BY <2>1 DEF Inv, TypeOK
  <2>3. Remembers(m)
    BY <2>1, <2>2, SignerAssumption DEF Remembers, Caused, Listed, Cancelled, Declined, Settling,
           Decided, Idle, Session, Statuses
  <2>. QED BY <2>1, <2>3
<1>11. ASSUME NEW s \in Signers, DeliverFormDeclined(k, s)
       PROVE  \E m : Remembers(m) /\ session' = [session EXCEPT ![k] = m]
  <2> DEFINE m == [Idle EXCEPT !.pc = "sign", !.signer = s, !.seatRead = seat[s]]
  <2>1. session' = [session EXCEPT ![k] = m] /\ s \in declinedAt
    BY <1>11 DEF DeliverFormDeclined
  <2>2. seat[s] \in SeatStatuses
    BY DEF Inv, TypeOK
  <2>3. Remembers(m)
    BY <2>1, <2>2, SignerAssumption DEF Remembers, Caused, Listed, Cancelled, Declined, Settling,
           Decided, Idle, Session, Statuses
  <2>. QED BY <2>1, <2>3
<1>5. CASE LoadRequest(k)
  <2> DEFINE m == [was EXCEPT !.statusRead = status, !.writes = status,
                     !.pc = IF ~Cancels(k) THEN "sign"
                            ELSE IF status \in {"sent", "partially_signed"} THEN "check"
                            ELSE "commit"]
  <2>1. session' = [session EXCEPT ![k] = m]
    BY <1>5 DEF LoadRequest
  <2>2. status \in Statuses /\ m.signer \notin declinedAt
    BY <1>1, <1>5 DEF Inv, TypeOK, LoadRequest, Remembers, Declined
  <2>3. Remembers(m)
    BY <1>1, <1>2, <2>2 DEF Remembers, Caused, Listed, Cancelled, Declined, Settling,
           Decided, Cancels, Session
  <2>. QED BY <2>1, <2>3
<1>6. CASE SignSeat(k)
  <2> DEFINE m == [was EXCEPT !.pc = IF Declines(k) THEN "commit" ELSE "list"]
  <2>1. session' = [session EXCEPT ![k] = m] /\ was.pc = "sign"
    BY <1>6 DEF SignSeat, Goto
  <2>2. Declines(k) => was.signer \notin signedAt
    BY DEF Declines, Inv, TypeOK
  <2>3. was.signer # Nobody
    BY <1>1, <2>1 DEF Remembers, Cancelled
  <2>4. Remembers(m)
    BY <1>1, <2>1, <2>2, <2>3 DEF Remembers, Caused, Listed, Cancelled, Declined, Settling,
           Decided, Session, Declines
  <2>. QED BY <2>1, <2>4
<1>7. CASE ListSigners(k)
  <2> DEFINE pending == StillPending(k)
             m == [was EXCEPT !.pending = pending,
                     !.writes = IF pending = {} THEN "completed"
                                ELSE IF was.statusRead = "sent" THEN "partially_signed"
                                ELSE was.statusRead,
                     !.pc = IF pending = {} /\ was.statusRead # "completed" THEN "check"
                            ELSE IF pending # {} /\ was.statusRead = "sent" THEN "request"
                            ELSE "commit"]
  <2>1. session' = [session EXCEPT ![k] = m] /\ was.pc = "list"
    BY <1>7 DEF ListSigners
  <2>2. \A s \in Signers \ {was.signer} : s \notin pending => seat[s] # "pending"
    BY DEF StillPending
  <2>3. pending \in SUBSET Signers
    BY DEF StillPending
  <2>4. Remembers(m)
    <3> HIDE DEF pending
    <3>1. was.signer \notin declinedAt /\ was.signer # Nobody
      BY <1>1, <2>1 DEF Remembers, Declined, Cancelled
    <3>. QED BY <1>1, <2>1, <2>2, <2>3, <3>1
         DEF Remembers, Caused, Listed, Cancelled, Declined, Settling,
           Decided, Session, Statuses
  <2>. QED BY <2>1, <2>4
<1>8. CASE CheckReserve(k)
  <2> DEFINE m == [was EXCEPT !.settles = LiveReserve,
                     !.writes = IF Cancels(k) THEN "cancelled" ELSE "completed",
                     !.pc = IF LiveReserve THEN "balance" ELSE "request"]
  <2>1. session' = [session EXCEPT ![k] = m] /\ was.pc = "check"
    BY <1>8 DEF CheckReserve
  <2>2. LiveReserve \in BOOLEAN /\ (~LiveReserve => Ended)
    <3>1. settled["consume"] \in Nat /\ settled["release"] \in Nat
      BY CreditAssumption DEF Inv, TypeOK
    <3>. QED BY <3>1 DEF LiveReserve, Ended
  <2>3. Remembers(m)
    <3> HIDE DEF LiveReserve
    <3>1. was.signer \notin declinedAt
      BY <1>1, <2>1 DEF Remembers, Declined
    <3>. QED BY <1>1, <2>1, <2>2, <3>1
         DEF Remembers, Caused, Listed, Cancelled, Declined, Settling,
           Decided, Cancels, Session, Statuses
  <2>. QED BY <2>1, <2>3
<1>9. CASE LockBalance(k) \/ LockRequest(k)
  <2>1. PICK pc \in {"request", "commit"} :
          session' = [session EXCEPT ![k] = [was EXCEPT !.pc = pc]]
    BY <1>9 DEF LockBalance, LockRequest, Goto
  <2> DEFINE m == [was EXCEPT !.pc = pc]
  <2>2. was.pc \in {"balance", "request"}
    BY <1>9 DEF LockBalance, LockRequest
  <2>3. Remembers(m)
    BY <1>1, <2>2 DEF Remembers, Caused, Listed, Cancelled, Declined, Settling,
           Decided, Session
  <2>. QED BY <2>1, <2>3
<1>10. CASE Rollback(k)
  <2>1. session' = [session EXCEPT ![k] = Idle]
    BY <1>10 DEF Rollback
  <2>2. Remembers(Idle)
    BY <1>2 DEF Remembers, Caused, Listed, Cancelled, Declined, Settling,
           Decided, Idle, Session, Statuses, SeatStatuses
  <2>. QED BY <2>1, <2>2
<1>. QED BY Zenon, <1>3, <1>4, <1>5, <1>6, <1>7, <1>8, <1>9, <1>10, <1>11 DEF Moves

(***************************************************************************)
(* The COMMIT.                                                             *)
(***************************************************************************)

\* A record keeps its worth when seats are signed and credits settled.
LEMMA RemembersAlong ==
  ASSUME NEW m, Remembers(m),
         signedAt \subseteq signedAt', declinedAt \subseteq declinedAt',
         signedAt' \cap declinedAt' = {}, Nobody \notin signedAt' \cup declinedAt',
         \A s \in Signers : seat[s] # "pending" => seat'[s] # "pending",
         Ended => Ended'
  PROVE  Remembers(m)'
<1>1. /\ m.signer \in signedAt' => m.signer \in signedAt
      /\ m.signer \in declinedAt' => m.signer \in declinedAt
  BY DEF Remembers, Caused
<1>2. Caused(m)' /\ Cancelled(m)' /\ Declined(m)'
  BY <1>1 DEF Remembers, Caused, Cancelled, Declined
<1>3. Listed(m)'
  BY <1>1 DEF Remembers, Listed
<1>4. Settling(m)'
  BY DEF Remembers, Settling
<1>. QED BY <1>2, <1>3, <1>4 DEF Remembers

\* COMMIT writes the seat of the handler as its signer told the provider: no
\* seat goes back to pending, and no signature is lost.
LEMMA CommitSeats ==
  ASSUME Inv, NEW k \in Sessions, Commit(k)
  PROVE  /\ seat' \in [Signers -> SeatStatuses]
         /\ \A s \in Signers : seat[s] # "pending" => seat'[s] # "pending"
         /\ \A s \in Signers : seat[s] = "signed" => seat'[s] = "signed"
         /\ Told'
         /\ session[k].signer \in signedAt => seat'[session[k].signer] = "signed"
<1> DEFINE who == session[k].signer
<1>1. session[k] \in Session /\ Caused(session[k]) /\ signedAt \in SUBSET Signers
      /\ declinedAt \in SUBSET (Signers \ signedAt)
      /\ signedAt' = signedAt /\ declinedAt' = declinedAt
  BY DEF Inv, Remembers, TypeOK, Commit, told
<1>2. ~Cancels(k) => who \in Signers
  BY <1>1 DEF Session, Cancels
<1>3. CASE seat' = seat
  <2>1. who \notin signedAt \/ seat[who] = "signed"
    BY <1>1, <1>2, <1>3, SignerAssumption
       DEF Commit, SeatsWritten, Declines, Cancels, Inv, TypeOK
  <2>. QED BY <1>1, <1>3, <2>1 DEF Inv, TypeOK, Told
<1>4. CASE ~Cancels(k) /\ who \in declinedAt
           /\ seat' = [seat EXCEPT ![who] = "declined"]
  BY <1>1, <1>2, <1>4 DEF Inv, TypeOK, Told, SeatStatuses, Cancels
<1>5. CASE ~Cancels(k) /\ who \in signedAt
           /\ seat' = [seat EXCEPT ![who] = "signed"]
  BY <1>1, <1>2, <1>5 DEF Inv, TypeOK, Told, SeatStatuses, Cancels
<1>6. \/ seat' = seat
      \/ ~Cancels(k) /\ who \in declinedAt /\ seat' = [seat EXCEPT ![who] = "declined"]
      \/ ~Cancels(k) /\ who \in signedAt /\ seat' = [seat EXCEPT ![who] = "signed"]
  BY <1>1 DEF Commit, SeatsWritten, Cancels, Declines, Caused
<1>. QED BY <1>3, <1>4, <1>5, <1>6

\* The ledger entries of the request stay within the credits reserved.
LEMMA CommitSettles ==
  ASSUME Inv, NEW k \in Sessions, Commit(k)
  PROVE  settled' \in [{"consume", "release"} -> 0 .. 1 + OtherCredits]
<1>1. settled["consume"] \in 0 .. 1 + OtherCredits /\ settled["release"] \in 0 .. 1 + OtherCredits
  BY DEF Inv, TypeOK
<1>2. CASE session[k].settles
  <2>1. settled["consume"] + settled["release"] < 1 + OtherCredits
    BY <1>2 DEF Commit, CheckHolds
  <2>2. PICK x \in {"consume", "release"} : settled' = [settled EXCEPT ![x] = @ + 1]
    BY <1>2 DEF Commit, Settle
  <2>3. settled[x] + 1 \in 0 .. 1 + OtherCredits
    BY <1>1, <2>1, CreditAssumption
  <2>. QED BY <2>2, <2>3 DEF Inv, TypeOK
<1>3. CASE ~session[k].settles
  BY <1>3 DEF Commit, Settle, Inv, TypeOK
<1>. QED BY <1>2, <1>3

\* No entry of the ledger is taken back.
LEMMA CommitEnded ==
  ASSUME Inv, NEW k \in Sessions, Commit(k)
  PROVE  (Ended \/ session[k].settles) => Ended'
<1>1. settled["consume"] \in Nat /\ settled["release"] \in Nat
  BY CreditAssumption DEF Inv, TypeOK
<1>2. CASE session[k].settles
  <2>1. PICK x \in {"consume", "release"} : settled' = [settled EXCEPT ![x] = @ + 1]
    BY <1>2 DEF Commit, Settle
  <2>2. settled \in [{"consume", "release"} -> 0 .. 1 + OtherCredits]
    BY DEF Inv, TypeOK
  <2>. QED BY <1>1, <2>1, <2>2 DEF Ended
<1>3. CASE ~session[k].settles
  BY <1>3 DEF Commit, Settle, Ended
<1>. QED BY <1>2, <1>3

\* A request that COMMIT ends is settled.
LEMMA CommitEnds ==
  ASSUME Inv, NEW k \in Sessions, Commit(k)
  PROVE  OverIsSettled'
<1> DEFINE m == session[k]
<1>1. Settling(m) /\ m.pc = "commit"
  BY DEF Inv, Remembers, Commit
<1>2. CASE m.writes # m.statusRead
  BY <1>1, <1>2, CommitEnded DEF Commit, Settling, OverIsSettled, Ended
<1>3. CASE m.writes = m.statusRead
  BY <1>3, CommitEnded DEF Commit, Inv, OverIsSettled, Ended
<1>. QED BY <1>2, <1>3

\* A request that COMMIT completes is signed by all and has its document:
\* who declined has not signed at the provider, so it serves no document.
LEMMA CommitCompletes ==
  ASSUME Inv, NEW k \in Sessions, Commit(k)
  PROVE  CompletedIsSigned'
<1> DEFINE m == session[k]
<1>1. Remembers(m) /\ m.pc = "commit"
  BY DEF Inv, Commit
<1>2. stored \in Nat /\ stored' \in {stored, stored + 1} /\ (Files(k) => stored' = stored + 1)
  BY DEF Inv, TypeOK, Commit
<1>3. CASE m.writes # m.statusRead /\ m.writes = "completed"
  <2>1. m.signer # Nobody /\ m.signer \notin declinedAt
    BY <1>1, <1>3 DEF Remembers, Cancelled, Declined, Decided
  <2>2. m.signer \in signedAt
    BY <1>1, <2>1 DEF Remembers, Caused
  <2>3. m.pending = {}
    BY <1>1, <1>3, <2>2 DEF Remembers, Listed, Decided
  <2>4. Files(k)
    BY <1>3, <2>1, <2>3 DEF Files, Cancels, Declines
  <2>5. signedAt = Signers
    BY <2>4 DEF Commit, DocumentsServed
  <2>6. \A s \in Signers \ {m.signer} : seat[s] # "pending"
    BY <1>1, <2>2, <2>3 DEF Remembers, Listed, Decided
  <2>7. \A s \in Signers \ {m.signer} : seat[s] = "signed"
    BY <2>5, <2>6 DEF Inv, TypeOK, Told, SeatStatuses
  <2>8. \A s \in Signers : seat'[s] = "signed"
    BY <2>2, <2>7, CommitSeats
  <2>. QED BY <1>2, <2>4, <2>8 DEF CompletedIsSigned
<1>4. CASE m.writes # m.statusRead /\ m.writes # "completed"
  BY <1>4 DEF Commit, CompletedIsSigned
<1>5. CASE m.writes = m.statusRead
  <2>1. status' = status
    BY <1>5 DEF Commit
  <2>. QED BY <1>2, <2>1, CommitSeats DEF Inv, CompletedIsSigned
<1>. QED BY <1>3, <1>4, <1>5

LEMMA CommitKeeps ==
  ASSUME Inv, NEW k \in Sessions, Commit(k)
  PROVE  Inv'
<1>1. session[k] \in Session /\ Caused(session[k])
  BY DEF Inv, Remembers
<1>2. /\ signedAt' = signedAt /\ declinedAt' = declinedAt
      /\ session' = [session EXCEPT ![k] = Idle]
  BY DEF Commit, told
<1>3. /\ Nobody \notin signedAt \cup declinedAt
      /\ signedAt \cap declinedAt = {}
  BY SignerAssumption DEF Inv, TypeOK
<1>4. Remembers(Idle)
  BY <1>3 DEF Remembers, Caused, Listed, Cancelled, Declined, Settling,
           Decided, Idle, Session, Statuses, SeatStatuses
<1>5. session' \in [Sessions -> Session]
  BY <1>2, <1>4 DEF Inv, TypeOK, Remembers
<1>6. \A j \in Sessions : Remembers(session[j])'
  <2> SUFFICES ASSUME NEW j \in Sessions PROVE Remembers(session[j])'
    OBVIOUS
  <2>1. PICK m : m = session'[j] /\ Remembers(m)
    BY <1>2, <1>4 DEF Inv, TypeOK
  <2>2. Remembers(m)'
    BY <2>1, <1>2, <1>3, CommitSeats, CommitEnded, RemembersAlong
  <2>. QED BY <2>1, <2>2
<1>7. acked' \in SUBSET (signedAt' \cup declinedAt')
  BY <1>1, <1>2 DEF Commit, Cancels, Caused, Inv, TypeOK
<1>8. status' \in Statuses /\ stored' \in Nat
  BY <1>1 DEF Commit, Inv, TypeOK, Session
<1>9. lock' \in [Rows -> Sessions \cup {Nobody}]
  BY DEF Commit, Unlock, Inv, TypeOK
<1>10. TypeOK'
  BY <1>2, <1>5, <1>7, <1>8, <1>9, CommitSeats, CommitSettles DEF TypeOK, Inv
<1>. QED BY <1>6, <1>10, CommitSeats, CommitCompletes, CommitEnds DEF Inv

(***************************************************************************)
(* The invariant.                                                          *)
(***************************************************************************)

LEMMA InvNext == Inv /\ [Next]_vars => Inv'
<1> SUFFICES ASSUME Inv, [Next]_vars PROVE Inv'
  OBVIOUS
<1>1. CASE UNCHANGED vars
  <2>1. TypeOK' /\ Told' /\ CompletedIsSigned' /\ OverIsSettled'
    BY <1>1 DEF vars, Inv, TypeOK, Told, CompletedIsSigned, OverIsSettled
  <2>2. \A k \in Sessions : Remembers(session[k])'
    BY <1>1 DEF vars, Inv, Remembers, Caused, Listed, Cancelled, Declined, Settling, Ended
  <2>. QED BY <2>1, <2>2 DEF Inv
<1>2. ASSUME NEW s \in Signers, ProviderSign(s) \/ ProviderDecline(s) PROVE Inv'
  <2>1. /\ signedAt \subseteq signedAt' /\ declinedAt \subseteq declinedAt'
        /\ signedAt' \subseteq signedAt \cup {s} /\ declinedAt' \subseteq declinedAt \cup {s}
        /\ signedAt' \cap declinedAt' = {}
        /\ UNCHANGED <<acked, seat, status, settled, stored, lock, session>>
    BY <1>2 DEF ProviderSign, ProviderDecline, committed, Inv, TypeOK
  <2>2. TypeOK'
    BY <2>1 DEF Inv, TypeOK
  <2>3. Told' /\ CompletedIsSigned' /\ OverIsSettled' /\ (Ended => Ended')
    BY <2>1 DEF Inv, Told, CompletedIsSigned, OverIsSettled, Ended
  <2>4. Nobody \notin signedAt' \cup declinedAt'
    BY <2>2, SignerAssumption DEF TypeOK
  <2>5. \A k \in Sessions : Remembers(session[k])'
    <3> SUFFICES ASSUME NEW k \in Sessions PROVE Remembers(session[k])'
      OBVIOUS
    <3>1. PICK m : m = session[k] /\ Remembers(m)
      BY DEF Inv
    <3>2. Remembers(m)'
      BY <3>1, <2>1, <2>3, <2>4, RemembersAlong
    <3>. QED BY <3>1, <3>2, <2>1
  <2>. QED BY <2>2, <2>3, <2>5 DEF Inv
<1>3. ASSUME NEW k \in Sessions, Moves(k) PROVE Inv'
  <2>1. UNCHANGED <<signedAt, declinedAt, acked, seat, status, settled, stored>>
    BY <1>3, MovesWriteNothing
  <2>2. PICK m : Remembers(m) /\ session' = [session EXCEPT ![k] = m]
    BY <1>3, MovesRemember
  <2>3. lock' \in [Rows -> Sessions \cup {Nobody}]
    BY <1>3, MovesLock DEF Inv
  <2>4. TypeOK' /\ Told' /\ CompletedIsSigned' /\ OverIsSettled' /\ (Ended => Ended')
    BY <2>1, <2>2, <2>3
       DEF Inv, TypeOK, Told, CompletedIsSigned, OverIsSettled, Ended, Remembers
  <2>5. signedAt' \cap declinedAt' = {} /\ Nobody \notin signedAt' \cup declinedAt'
    BY <2>4, SignerAssumption DEF TypeOK
  <2>6. \A j \in Sessions : Remembers(session[j])'
    <3> SUFFICES ASSUME NEW j \in Sessions PROVE Remembers(session[j])'
      OBVIOUS
    <3>1. PICK n : n = session'[j] /\ Remembers(n)
      BY <2>2 DEF Inv, TypeOK
    <3>2. Remembers(n)'
      BY <3>1, <2>1, <2>4, <2>5, RemembersAlong
    <3>. QED BY <3>1, <3>2
  <2>. QED BY <2>4, <2>6 DEF Inv
<1>4. ASSUME NEW k \in Sessions, Commit(k) PROVE Inv'
  BY <1>4, CommitKeeps
<1>. QED BY Zenon, <1>1, <1>2, <1>3, <1>4 DEF Next, Step, Moves

LEMMA Invariance == Spec => []Inv
BY InvInit, InvNext, PTL DEF Spec

\* Every table, lock and session keeps its type: in particular, nothing is
\* settled beyond the credits reserved.
THEOREM TypesHold == Spec => []TypeOK
<1>1. Inv => TypeOK
  BY DEF Inv
<1>. QED BY <1>1, Invariance, PTL

\* A request that is over does not keep its credit, whatever the handlers read
\* before others committed or rolled back.
THEOREM CreditIsSettled == Spec => []OverIsSettled
<1>1. Inv => OverIsSettled
  BY DEF Inv
<1>. QED BY <1>1, Invariance, PTL

\* Races never complete a request that somebody has not signed, although who
\* declined is not waited for, and a completed request has its document.
THEOREM CompletionIsEarned == Spec => []CompletedIsSigned
<1>1. Inv => CompletedIsSigned
  BY DEF Inv
<1>. QED BY <1>1, Invariance, PTL
=============================================================================
