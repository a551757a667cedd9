----------------------- MODULE BillingWebhooksProofs -----------------------
(***************************************************************************)
(* Theorems about BillingWebhooks, for any number of subscriptions, events *)
(* and sessions.                                                           *)
(*                                                                         *)
(* EffectsOnce rests on the unique index alone: what a session decided is  *)
(* not on file, and no two sessions decided the same event.  Converges     *)
(* needs that a session alone works on the row it has read, and that no    *)
(* event is stored between its search for newer events and its COMMIT.     *)
(* FirstAppliedAnchors adds what the applied events say: between two spells of   *)
(* past_due the newest of them says something else.                        *)
(***************************************************************************)
EXTENDS BillingWebhooks, TLAPS

Decides(h) == job[h].pc = "decided"

\* The part of the types the invariants rest on.
Shape ==
  /\ sent \in Seq(Events) /\ Len(sent) <= MaxEvents
  /\ job = [h \in Sessions |-> job[h]]
  /\ times \in [EventIds -> Nat]
  /\ stored \subseteq 1 .. Len(sent)
  /\ "status" \in DOMAIN row
  /\ \A h \in Sessions :
       /\ job[h].pc \in {"idle", "read", "retry", "decided"}
       /\ Busy(h) => /\ job[h].event \in 1 .. Len(sent)
                     /\ "status" \in DOMAIN job[h].read

\* An event that a session holds in its transaction is on file nowhere else.
Holds ==
  /\ \A h \in Sessions : Decides(h) => job[h].event \notin stored
  /\ \A g, h \in Sessions :
       Decides(g) /\ Decides(h) /\ g # h => job[g].event # job[h].event

Once == Shape /\ Holds /\ EffectsOnce

---------------------------------------------------------------------------

\* What Paddle adds to its events leaves those before as they are.
LEMMA Appended ==
  ASSUME NEW S, NEW s \in Seq(S), NEW t \in Seq(S)
  PROVE  /\ s \o t \in Seq(S)
         /\ Len(s) <= Len(s \o t)
         /\ \A i \in 1 .. Len(s) : i \in 1 .. Len(s \o t) /\ (s \o t)[i] = s[i]
  OBVIOUS

LEMMA EmitSent ==
  ASSUME Shape, NEW s \in Subs, NEW from, NEW to \in Statuses,
         NEW types \in Seq(StatusEvents \cup {"created"}), Moves(s, from, to, types)
  PROVE  /\ sent' \in Seq(Events) /\ Len(sent') <= MaxEvents
         /\ Len(sent) <= Len(sent')
         /\ \A i \in 1 .. Len(sent) : i \in 1 .. Len(sent') /\ sent'[i] = sent[i]
         /\ UNCHANGED <<stored, row, job, history>>
<1> DEFINE events == [i \in 1 .. Len(types) |->
                        [type |-> types[i], sub |-> s, status |-> to]]
<1>1. events \in Seq(Events)
  BY DEF Events, StatusEvents, Statuses
<1>2. sent' = sent \o events /\ Len(sent) + Len(events) <= MaxEvents
  BY NatAssumption DEF Moves, Emit
<1>3. QED
  <2> HIDE DEF events
  <2> QED BY <1>1, <1>2, Appended DEF Shape, Moves

\* Paddle's own steps touch no table.
LEMMA PaddleSteps ==
  ASSUME Shape, NEW s \in Subs,
         \/ CreateCheckout(s) \/ Pay(s) \/ PaymentFails(s)
         \/ PaymentRecovers(s) \/ SubscriptionEnds(s) \/ Update(s)
  PROVE  /\ sent' \in Seq(Events) /\ Len(sent') <= MaxEvents
         /\ Len(sent) <= Len(sent')
         /\ \A i \in 1 .. Len(sent) : i \in 1 .. Len(sent') /\ sent'[i] = sent[i]
         /\ UNCHANGED <<stored, row, job, history>>
<1> DEFINE Types == StatusEvents \cup {"created"}
<1>0. /\ <<"created", "activated">> \in Seq(Types)
      /\ \A type \in StatusEvents : <<type>> \in Seq(Types)
      /\ \A status \in {"active", "canceled", "past_due"} : status \in Statuses
      /\ \A type \in {"past_due", "resumed", "updated", "canceled"} : type \in StatusEvents
  BY DEF StatusEvents, Statuses
<1>1. CASE CreateCheckout(s)
  BY <1>1 DEF CreateCheckout, Shape
<1>2. CASE Pay(s)
  BY <1>0, <1>2, EmitSent DEF Pay
<1>3. CASE PaymentFails(s)
  BY <1>0, <1>3, EmitSent DEF PaymentFails
<1>4. CASE PaymentRecovers(s)
  BY <1>0, <1>4, EmitSent DEF PaymentRecovers
<1>5. CASE SubscriptionEnds(s)
  BY <1>0, <1>5, EmitSent DEF SubscriptionEnds
<1>6. CASE Update(s)
  BY <1>0, <1>6, EmitSent DEF Update
<1>7. QED
  BY <1>1, <1>2, <1>3, <1>4, <1>5, <1>6

---------------------------------------------------------------------------
\* The effects of an event are committed once.

LEMMA GotoShape ==
  ASSUME Shape, NEW h \in Sessions, NEW next, Goto(h, next)
  PROVE  /\ job' = [g \in Sessions |-> job'[g]]
         /\ job'[h] = next
         /\ \A g \in Sessions \ {h} : job'[g] = job[g]
<1> DEFINE old(g) == job[g]
<1>1. job = [g \in Sessions |-> old(g)]
  BY DEF Shape
<1>2. job' = [g \in Sessions |-> IF g = h THEN next ELSE old(g)]
  <2> HIDE DEF old
  <2> QED BY <1>1 DEF Goto
<1>3. QED
  BY <1>2

LEMMA OnceInit == Init => Once
<1> SUFFICES ASSUME Init PROVE Once
  OBVIOUS
<1>1. sent \in Seq(Events) /\ Len(sent) = 0 /\ Len(sent) <= MaxEvents
  BY NatAssumption DEF Init
<1>2. \A h \in Sessions : job[h].pc = "idle"
  BY DEF Init, Idle
<1>3. "status" \in DOMAIN row
  BY DEF Init
<1>4. QED
  BY <1>1, <1>2, <1>3 DEF Init, Once, Shape, Holds, EffectsOnce, Busy, Decides

\* A session that goes to a step of its own, the tables left alone.
LEMMA OnceGoto ==
  ASSUME Once, NEW h \in Sessions, NEW next, Goto(h, next),
         UNCHANGED <<sent, stored, times, row>>,
         next.pc \in {"idle", "read", "retry", "decided"},
         next.pc # "idle" => /\ next.event \in 1 .. Len(sent)
                             /\ "status" \in DOMAIN next.read,
         next.pc = "decided" =>
           /\ next.event \notin stored
           /\ \A g \in Sessions \ {h} : Decides(g) => job[g].event # next.event
  PROVE  Once'
<1> USE DEF Once
<1>1. /\ job' = [g \in Sessions |-> job'[g]]
      /\ job'[h] = next
      /\ \A g \in Sessions \ {h} : job'[g] = job[g]
  BY GotoShape
<1>2. Shape'
  BY <1>1 DEF Shape, Busy
<1>3. Holds'
  BY <1>1 DEF Holds, Decides
<1>4. QED
  BY <1>2, <1>3 DEF EffectsOnce

LEMMA OnceNext == Once /\ [Next]_vars => Once'
<1> SUFFICES ASSUME Once, [Next]_vars PROVE Once'
  OBVIOUS
<1> USE DEF Once
<1>1. CASE UNCHANGED vars
  BY <1>1 DEF vars, external, history, Shape, Holds, EffectsOnce, Busy, Decides
<1>2. CASE ConvertByHand
  <2>1. "status" \in DOMAIN row'
    BY <1>2 DEF ConvertByHand, Shape
  <2>2. QED
    BY <1>2, <2>1 DEF ConvertByHand, external, Shape, Holds, EffectsOnce, Busy, Decides
<1>3. ASSUME NEW s \in Subs,
             \/ CreateCheckout(s) \/ Pay(s) \/ PaymentFails(s)
             \/ PaymentRecovers(s) \/ SubscriptionEnds(s) \/ Update(s)
      PROVE  Once'
  <2>1. /\ sent' \in Seq(Events) /\ Len(sent') <= MaxEvents
        /\ \A i \in 1 .. Len(sent) : i \in 1 .. Len(sent')
        /\ UNCHANGED <<stored, row, job, history>>
    BY <1>3, PaddleSteps
  <2>2. QED
    BY <2>1 DEF history, Shape, Holds, EffectsOnce, Busy, Decides
<1>4. ASSUME NEW h \in Sessions, NEW n \in EventIds, Receive(h, n) PROVE Once'
  <2>1. n \in 1 .. Len(sent) /\ "status" \in DOMAIN row
    BY <1>4 DEF Receive, EventIds, Shape
  <2>2. QED
    BY <1>4, <2>1, OnceGoto DEF Receive, external
<1>5. ASSUME NEW h \in Sessions, Duplicate(h) PROVE Once'
  BY <1>5, OnceGoto DEF Duplicate, external, history, Idle
<1>6. ASSUME NEW h \in Sessions, Decide(h) PROVE Once'
  <2>1. PICK o \in Outcomes(job[h].read, job[h].event) :
          Goto(h, [pc |-> "decided", event |-> job[h].event, read |-> job[h].read,
                   new |-> o.new, looked |-> o.looked, wrote |-> o.wrote])
    BY <1>6 DEF Decide
  <2>2. /\ job[h].event \in 1 .. Len(sent) /\ "status" \in DOMAIN job[h].read
        /\ job[h].event \notin stored
        /\ \A g \in Sessions \ {h} : Decides(g) => job[g].event # job[h].event
    BY <1>6 DEF Decide, Shape, Busy, StoredAlready, HeldElsewhere, Decides
  <2>3. QED
    BY <1>6, <2>1, <2>2, OnceGoto DEF Decide, external, history
<1>7. ASSUME NEW h \in Sessions, Rollback(h) PROVE Once'
  <2>1. job[h].event \in 1 .. Len(sent) /\ "status" \in DOMAIN job[h].read
    BY <1>7 DEF Rollback, Shape, Busy
  <2>2. QED
    BY <1>7, <2>1, OnceGoto DEF Rollback, external, history
<1>8. ASSUME NEW h \in Sessions, Reinsert(h) PROVE Once'
  <2> DEFINE n == job[h].event
  <2>1. /\ job' = [g \in Sessions |-> job'[g]] /\ job'[h] = Idle
        /\ \A g \in Sessions \ {h} : job'[g] = job[g]
    BY <1>8, GotoShape DEF Reinsert
  <2>2. /\ n \in 1 .. Len(sent) /\ stored' = stored \cup {n}
        /\ UNCHANGED <<sent, row, times>>
        /\ \A g \in Sessions \ {h} : Decides(g) => job[g].event # n
    BY <1>8 DEF Reinsert, Shape, Busy, HeldElsewhere, Decides, external
  <2>3. Shape'
    BY <2>1, <2>2 DEF Shape, Busy, Idle
  <2>4. Holds'
    BY <2>1, <2>2 DEF Holds, Decides, Idle
  <2>5. QED
    BY <2>2, <2>3, <2>4 DEF EffectsOnce
<1>9. ASSUME NEW h \in Sessions, Commit(h) PROVE Once'
  <2> DEFINE n == job[h].event
  <2>1. /\ job' = [g \in Sessions |-> job'[g]] /\ job'[h] = Idle
        /\ \A g \in Sessions \ {h} : job'[g] = job[g]
    BY <1>9, GotoShape DEF Commit
  <2>2. /\ n \in 1 .. Len(sent) /\ n \in EventIds /\ n \notin stored
        /\ stored' = stored \cup {n} /\ sent' = sent
        /\ times' = [times EXCEPT ![n] = @ + 1]
        /\ \A g \in Sessions \ {h} : Decides(g) => job[g].event # n
    BY <1>9, NatAssumption DEF Commit, Shape, Holds, Busy, Decides, EventIds, external
  <2>3. "status" \in DOMAIN row'
    BY <1>9 DEF Commit, Merged, Shape
  <2>4. times' \in [EventIds -> Nat]
    BY <2>2 DEF Shape
  <2>5. Shape'
    BY <2>1, <2>2, <2>3, <2>4 DEF Shape, Busy, Idle
  <2>6. Holds'
    BY <2>1, <2>2 DEF Holds, Decides, Idle
  <2>7. times[n] = 0
    BY <2>2 DEF EffectsOnce, Shape
  <2>8. EffectsOnce'
    BY <2>2, <2>7 DEF EffectsOnce, Shape
  <2>9. QED
    BY <2>5, <2>6, <2>8
<1>10. QED
  BY <1>1, <1>2, <1>3, <1>4, <1>5, <1>6, <1>7, <1>8, <1>9 DEF Next, Handle, Deliver

LEMMA AlwaysOnce == Spec => []Once
  BY OnceInit, OnceNext, PTL DEF Spec

\* The effects of each Paddle event are committed at most once, for any
\* number of deliveries, sessions and rollbacks (billing_manager.py:419-516).
THEOREM EffectsAreOnce == Spec => []EffectsOnce
<1>1. Once => EffectsOnce
  BY DEF Once
<1>2. QED
  BY <1>1, AlwaysOnce, PTL

---------------------------------------------------------------------------
\* In any order of delivery, the status converges to the newest event.

IsTold(n) == sent[n].type \in StatusEvents

\* What a session decided, as long as it was looked at: the status of the
\* row unless the event brings one and no newer event is on file.
Judged(h) ==
  LET j == job[h]
  IN j.looked =>
       j.new["status"] = IF ~IsTold(j.event) \/ Stale(j.event)
                           THEN row["status"] ELSE StatusOf(j.event)

\* The row tells the newest of the status events on file.
NewestOnFile ==
  ignored = {} =>
    \A n \in stored :
      IsTold(n) /\ (\A m \in stored : IsTold(m) => m <= n) => row.status = StatusOf(n)

\* One delivery at a time: the session alone works on the row it has read.
Alone ==
  ~overlap =>
    /\ \A g, h \in Sessions : Busy(g) /\ Busy(h) => g = h
    /\ \A h \in Sessions : Busy(h) => job[h].read = row
    /\ \A h \in Sessions : Decides(h) => Judged(h)
    /\ NewestOnFile

\* What Paddle adds changes neither the status an event tells nor the
\* search for newer ones.
LEMMA SentGrows ==
  ASSUME Shape, sent' \in Seq(Events), Len(sent) <= Len(sent'),
         \A i \in 1 .. Len(sent) : sent'[i] = sent[i], stored' = stored,
         NEW n \in 1 .. Len(sent)
  PROVE  /\ IsTold(n)' = IsTold(n)
         /\ StatusOf(n)' = StatusOf(n)
         /\ Stale(n)' = Stale(n)
<1>1. \A m \in stored \cup {n} : sent'[m] = sent[m]
  BY DEF Shape
<1>2. QED
  BY <1>1 DEF IsTold, StatusOf, Stale

LEMMA OutcomeStatus ==
  ASSUME Shape, NEW r, "status" \in DOMAIN r, NEW n \in 1 .. Len(sent),
         NEW o \in Outcomes(r, n), o.looked
  PROVE  o.new["status"] = IF ~IsTold(n) \/ Stale(n) THEN r["status"] ELSE StatusOf(n)
<1>1. sent[n].type \in StatusEvents \cup {"created"} /\ "created" \notin StatusEvents
  <2>1. sent[n] \in Events
    <3> HIDE DEF Events
    <3> QED BY DEF Shape
  <2>2. QED
    BY <2>1 DEF Events, StatusEvents
<1>2. ASSUME NEW q, "status" \in DOMAIN q, q["status"] = r["status"],
             o = InOrder(q, n), sent[n].type # "created"
      PROVE  o.new["status"] = IF ~IsTold(n) \/ Stale(n) THEN r["status"] ELSE StatusOf(n)
  <2>1. CASE Stale(n)
    BY <1>2, <2>1 DEF InOrder, Outcome
  <2>2. CASE ~Stale(n)
    BY <1>1, <1>2, <2>2 DEF InOrder, Outcome, ApplyStatus, IsTold
  <2>3. QED
    BY <2>1, <2>2
<1> DEFINE s == sent[n].sub
<1>3. ~Guarded(r, n)
  BY DEF Outcomes, Outcome
<1>4. CASE sent[n].type = "created"
  <2>1. o = Outcome(StoreLink(r, s), TRUE, FALSE)
    BY <1>3, <1>4 DEF Outcomes
  <2>2. QED
    BY <1>1, <1>4, <2>1 DEF Outcome, StoreLink, IsTold
<1>5. CASE sent[n].type = "activated"
  <2>1. o = InOrder(Convert(r, s), n)
    BY <1>3, <1>5 DEF Outcomes, Outcome
  <2>2. "status" \in DOMAIN Convert(r, s) /\ Convert(r, s)["status"] = r["status"]
    BY DEF Convert, Adopt
  <2>3. QED
    BY <1>2, <1>5, <2>1, <2>2
<1>6. CASE sent[n].type = "updated"
  <2>1. o = InOrder(r, n)
    BY <1>3, <1>6 DEF Outcomes, Outcome
  <2>2. QED
    BY <1>2, <1>6, <2>1
<1>7. CASE sent[n].type \notin {"created", "activated", "updated"}
  <2>1. o = InOrder(r, n)
    BY <1>3, <1>7 DEF Outcomes, Outcome
  <2>2. QED
    BY <1>2, <1>7, <2>1
<1>8. QED
  BY <1>4, <1>5, <1>6, <1>7

LEMMA AloneInit == Init => Alone
  BY DEF Init, Alone, NewestOnFile, Busy, Decides, Idle

LEMMA AloneNext == Once /\ Alone /\ [Next]_vars => Alone'
<1> SUFFICES ASSUME Once, Alone, [Next]_vars, ~overlap' PROVE Alone'
  BY DEF Alone
<1> USE DEF Once
<1>1. CASE UNCHANGED vars
  BY <1>1 DEF vars, external, history, Alone, NewestOnFile, Judged, Busy, Decides,
     IsTold, Stale, StatusOf
<1>2. CASE ConvertByHand
  <2>1. /\ row'["status"] = row["status"] /\ \A h \in Sessions : ~Busy(h)
        /\ ~overlap /\ UNCHANGED <<sent, stored, job, ignored>>
    BY <1>2 DEF ConvertByHand, Shape, external
  <2>2. QED
    BY <2>1 DEF Alone, NewestOnFile, Busy, Decides, IsTold, StatusOf
<1>3. ASSUME NEW s \in Subs,
             \/ CreateCheckout(s) \/ Pay(s) \/ PaymentFails(s)
             \/ PaymentRecovers(s) \/ SubscriptionEnds(s) \/ Update(s)
      PROVE  Alone'
  <2>1. /\ sent' \in Seq(Events) /\ Len(sent) <= Len(sent')
        /\ \A i \in 1 .. Len(sent) : sent'[i] = sent[i]
        /\ UNCHANGED <<stored, row, job, history>>
    BY <1>3, PaddleSteps
  <2>2. \A n \in 1 .. Len(sent) : /\ IsTold(n)' = IsTold(n)
                                  /\ StatusOf(n)' = StatusOf(n)
                                  /\ Stale(n)' = Stale(n)
    BY <2>1, SentGrows
  <2>3. ~overlap /\ ignored' = ignored /\ \A n \in stored : n \in 1 .. Len(sent)
    BY <2>1 DEF history, Shape
  <2>4. NewestOnFile'
    BY <2>1, <2>2, <2>3 DEF Alone, NewestOnFile
  <2>5. ASSUME NEW h \in Sessions, Decides(h)' PROVE Judged(h)'
    <3>1. Judged(h) /\ job[h].event \in 1 .. Len(sent)
      BY <2>1, <2>3, <2>5 DEF Alone, Decides, Shape, Busy
    <3>2. QED
      BY <2>1, <2>2, <3>1 DEF Judged
  <2>6. QED
    BY <2>1, <2>3, <2>4, <2>5 DEF Alone, Busy
<1>4. ASSUME NEW h \in Sessions, NEW n \in EventIds, Receive(h, n) PROVE Alone'
  <2>1. /\ ~overlap /\ \A g \in Sessions : ~Busy(g)
        /\ UNCHANGED <<sent, stored, row, ignored>>
    BY <1>4 DEF Receive, external
  <2>2. /\ job'[h] = [pc |-> "read", event |-> n, read |-> row]
        /\ \A g \in Sessions \ {h} : job'[g] = job[g]
    BY <1>4, GotoShape DEF Receive
  <2>3. QED
    BY <2>1, <2>2 DEF Alone, NewestOnFile, Busy, Decides, IsTold, StatusOf
<1>5. ASSUME NEW h \in Sessions, UNCHANGED <<sent, stored, row>>, ~overlap,
             \A g \in Sessions \ {h} : job'[g] = job[g],
             Busy(h), Busy(h)' => job'[h].read = job[h].read,
             Decides(h)' => Judged(h)', NewestOnFile'
      PROVE  Alone'
  <2>1. \A g \in Sessions : Busy(g)' => g = h
    BY <1>5 DEF Alone, Busy
  <2>2. \A g \in Sessions : Decides(g)' => Busy(g)'
    BY DEF Decides, Busy
  <2>3. job[h].read = row
    BY <1>5 DEF Alone
  <2>4. QED
    BY <1>5, <2>1, <2>2, <2>3 DEF Alone
<1>6. ASSUME NEW h \in Sessions, Duplicate(h) PROVE Alone'
  <2>1. /\ Busy(h) /\ ~overlap /\ UNCHANGED <<sent, stored, row, ignored>>
        /\ job'[h] = Idle /\ \A g \in Sessions \ {h} : job'[g] = job[g]
    BY <1>6, GotoShape DEF Duplicate, Busy, external, history
  <2>2. ~Busy(h)' /\ ~Decides(h)'
    BY <2>1 DEF Busy, Decides, Idle
  <2>3. NewestOnFile'
    BY <2>1 DEF Alone, NewestOnFile, IsTold, StatusOf
  <2>4. QED
    BY <1>5, <2>1, <2>2, <2>3
<1>7. ASSUME NEW h \in Sessions, Rollback(h) PROVE Alone'
  <2>1. /\ Busy(h) /\ ~overlap /\ UNCHANGED <<sent, stored, row, ignored>>
        /\ job'[h] = [pc |-> "retry", event |-> job[h].event, read |-> job[h].read]
        /\ \A g \in Sessions \ {h} : job'[g] = job[g]
    BY <1>7, GotoShape DEF Rollback, Busy, external, history
  <2>2. ~Decides(h)' /\ job'[h].read = job[h].read
    BY <2>1 DEF Decides
  <2>3. NewestOnFile'
    BY <2>1 DEF Alone, NewestOnFile, IsTold, StatusOf
  <2>4. QED
    BY <1>5, <2>1, <2>2, <2>3
<1>8. ASSUME NEW h \in Sessions, Decide(h) PROVE Alone'
  <2>1. PICK o \in Outcomes(job[h].read, job[h].event) :
          Goto(h, [pc |-> "decided", event |-> job[h].event, read |-> job[h].read,
                   new |-> o.new, looked |-> o.looked, wrote |-> o.wrote])
    BY <1>8 DEF Decide
  <2>2. /\ Busy(h) /\ ~overlap /\ UNCHANGED <<sent, stored, row, ignored>>
    BY <1>8 DEF Decide, Busy, external, history
  <2>3. /\ job'[h] = [pc |-> "decided", event |-> job[h].event, read |-> job[h].read,
                      new |-> o.new, looked |-> o.looked, wrote |-> o.wrote]
        /\ \A g \in Sessions \ {h} : job'[g] = job[g]
    BY <2>1, GotoShape
  <2>4. /\ job[h].event \in 1 .. Len(sent) /\ job[h].read = row
        /\ "status" \in DOMAIN row
    BY <2>2 DEF Alone, Shape
  <2>5. o.looked =>
          o.new["status"] = IF ~IsTold(job[h].event) \/ Stale(job[h].event)
                              THEN row["status"] ELSE StatusOf(job[h].event)
    BY <2>4, OutcomeStatus
  <2>6. Judged(h)'
    BY <2>2, <2>3, <2>5 DEF Judged, IsTold, Stale, StatusOf
  <2>7. NewestOnFile'
    BY <2>2 DEF Alone, NewestOnFile, IsTold, StatusOf
  <2>8. QED
    BY <1>5, <2>2, <2>3, <2>6, <2>7
<1>9. ASSUME NEW h \in Sessions, Busy(h), ~overlap, job'[h] = Idle,
             \A g \in Sessions \ {h} : job'[g] = job[g], NewestOnFile'
      PROVE  Alone'
  <2>1. \A g \in Sessions : ~Busy(g)' /\ ~Decides(g)'
    BY <1>9 DEF Alone, Busy, Decides, Idle
  <2>2. QED
    BY <1>9, <2>1 DEF Alone
<1>10. ASSUME NEW h \in Sessions, Reinsert(h) PROVE Alone'
  <2>1. /\ Busy(h) /\ ~overlap /\ ignored' # {}
        /\ job'[h] = Idle /\ \A g \in Sessions \ {h} : job'[g] = job[g]
    BY <1>10, GotoShape DEF Reinsert, Busy
  <2>2. QED
    BY <1>9, <2>1 DEF NewestOnFile
<1>11. ASSUME NEW h \in Sessions, Commit(h) PROVE Alone'
  <2> DEFINE n == job[h].event
  <2>1. /\ Busy(h) /\ Decides(h) /\ ~overlap
        /\ job'[h] = Idle /\ \A g \in Sessions \ {h} : job'[g] = job[g]
        /\ sent' = sent /\ stored' = stored \cup {n} /\ n \in 1 .. Len(sent)
    BY <1>11, GotoShape DEF Commit, Busy, Decides, external, Shape
  <2>2. Judged(h) /\ job[h].read = row /\ NewestOnFile /\ "status" \in DOMAIN row
    BY <2>1 DEF Alone, Shape
  <2>3. row'["status"] = job[h].new["status"]
    BY <1>11, <2>2 DEF Commit, Merged
  <2>4. SUFFICES ASSUME ignored' = {}, NEW k \in stored', IsTold(k)',
                        \A m \in stored' : IsTold(m)' => m <= k
                 PROVE  row'["status"] = StatusOf(k)'
    <3> HIDE DEF n
    <3> QED BY <1>9, <2>1 DEF NewestOnFile
  <2>5. job[h].looked /\ ignored = {}
    BY <1>11, <2>4 DEF Commit
  <2>6. /\ IsTold(k) /\ StatusOf(k)' = StatusOf(k)
        /\ \A m \in stored \cup {n} : m \in 1 .. Len(sent) /\ (IsTold(m) => m <= k)
    BY <2>1, <2>4 DEF IsTold, StatusOf, Shape
  <2>7. CASE ~IsTold(n) \/ Stale(n)
    <3>1. row'["status"] = row["status"]
      BY <2>2, <2>3, <2>5, <2>7 DEF Judged
    <3>2. k # n
      BY <2>1, <2>6, <2>7 DEF Stale, IsTold
    <3>3. QED
      BY <2>1, <2>2, <2>4, <2>5, <2>6, <3>1, <3>2 DEF NewestOnFile
  <2>8. CASE IsTold(n) /\ ~Stale(n)
    <3>1. row'["status"] = StatusOf(n)
      BY <2>2, <2>3, <2>5, <2>8 DEF Judged
    <3>2. k = n
      BY <2>1, <2>4, <2>6, <2>8 DEF Stale, IsTold
    <3>3. QED
      BY <2>6, <3>1, <3>2
  <2>9. QED
    BY <2>7, <2>8
<1>12. QED
  BY <1>1, <1>2, <1>3, <1>4, <1>6, <1>7, <1>8, <1>10, <1>11
     DEF Next, Handle, Deliver

LEMMA AlwaysAlone == Spec => []Alone
  BY AloneInit, AloneNext, AlwaysOnce, PTL DEF Spec

\* Once the status events are all on file and none was put aside, the agency
\* has the status of the newest, in whatever order they were delivered, one
\* at a time, for any number of them (billing_manager.py:582-597, 655-666).
THEOREM StatusConverges == Spec => []Converges
<1>1. Once /\ Alone => Converges
  BY DEF Once, Shape, Alone, NewestOnFile, Converges, IsTold
<1>2. QED
  BY <1>1, AlwaysOnce, AlwaysAlone, PTL

---------------------------------------------------------------------------
\* The types, and the anchor of the grace period.

JobValues == {Idle} \cup Jobs \cup Decided

\* The handlers that leave the status alone.
LEMMA HandTypes ==
  ASSUME NEW r \in Rows, NEW s \in Subs,
         NEW q \in {r, StoreLink(r, s), Adopt(r, s), Convert(r, s)}
  PROVE  q \in Rows /\ q.status = r.status /\ q.since = r.since
<1>0. Readers \in Nat
  BY NatAssumption
<1>1. CASE q = r
  BY <1>1
<1>2. CASE q = StoreLink(r, s)
  BY <1>2 DEF StoreLink, Rows
<1>3. CASE q = Adopt(r, s)
  BY <1>3 DEF Adopt, Rows
<1>4. CASE q = Convert(r, s)
  <2> DEFINE a == Adopt(r, s)
  <2>1. a \in Rows /\ a.status = r.status /\ a.since = r.since
    BY DEF Adopt, Rows
  <2> HIDE DEF a
  <2> DEFINE c == IF a.converted = "no" THEN "paddle" ELSE a.converted
             p == IF Readers > a.pool THEN Readers ELSE a.pool
  <2>2. c \in {"no", "paddle", "hand"} /\ p \in 0 .. Readers
    BY <1>0, <2>1 DEF Rows
  <2>3. q = [a EXCEPT !.converted = c, !.pool = p]
    BY <1>4 DEF Convert, a
  <2> HIDE DEF c, p
  <2>4. QED
    BY <2>1, <2>2, <2>3 DEF Rows
<1>5. QED
  BY <1>1, <1>2, <1>3, <1>4

\* Where an event n leaves the anchor it finds.
Anchor(since, n) ==
  IF StatusOf(n) # "past_due" THEN 0 ELSE IF since = 0 THEN n ELSE since

LEMMA StatusType ==
  ASSUME Shape, NEW n \in 1 .. Len(sent)
  PROVE  /\ sent[n].sub \in Subs
         /\ IsTold(n) => StatusOf(n) \in Statuses
         /\ ~IsTold(n) => sent[n].type = "created"
<1>1. sent[n] \in Events
  <2> HIDE DEF Events
  <2> QED BY DEF Shape
<1>2. QED
  BY <1>1 DEF Events, IsTold, StatusOf, StatusEvents, Statuses

\* What the outcome of an event is made of: the status and the anchor move
\* together, and only for a status event that no newer one has overtaken.
LEMMA OutcomeAnchor ==
  ASSUME Shape, NEW r \in Rows, NEW n \in 1 .. Len(sent),
         NEW o \in Outcomes(r, n)
  PROVE  /\ o.new \in Rows /\ o.looked \in BOOLEAN /\ o.wrote \in BOOLEAN
         /\ ~o.wrote => o.new.status = r.status /\ o.new.since = r.since
         /\ o.wrote => /\ IsTold(n) /\ ~Stale(n)
                       /\ o.new.status = StatusOf(n)
                       /\ o.new.since = Anchor(r.since, n)
<1> DEFINE s == sent[n].sub
<1>1. s \in Subs /\ (IsTold(n) => StatusOf(n) \in Statuses) /\ n \in 1 .. MaxEvents
  BY StatusType, NatAssumption DEF Shape
<1> HIDE DEF s
<1> DEFINE Fits(p) ==
      /\ p.new \in Rows /\ p.looked \in BOOLEAN /\ p.wrote \in BOOLEAN
      /\ ~p.wrote => p.new.status = r.status /\ p.new.since = r.since
      /\ p.wrote => /\ IsTold(n) /\ ~Stale(n)
                    /\ p.new.status = StatusOf(n)
                    /\ p.new.since = Anchor(r.since, n)
<1>2. ASSUME NEW q \in Rows, q.status = r.status, q.since = r.since,
             NEW looked \in BOOLEAN
      PROVE  Fits(Outcome(q, looked, FALSE))
  BY <1>2 DEF Outcome
<1>3. ASSUME NEW q \in Rows, q.status = r.status, q.since = r.since, IsTold(n)
      PROVE  Fits(InOrder(q, n))
  <2>1. CASE Stale(n)
    BY <1>3, <2>1 DEF InOrder, Outcome
  <2>2. CASE ~Stale(n)
    <3> DEFINE st == StatusOf(n)
    <3>0. st \in Statuses /\ st = StatusOf(n)
      BY <1>1, <1>3
    <3> HIDE DEF st
    <3> DEFINE since == Anchor(q.since, n)
               new == [q EXCEPT !.status = st, !.since = since]
    <3>1. since \in 0 .. MaxEvents
      BY <1>1, NatAssumption DEF Anchor, Rows
    <3>2. InOrder(q, n) = [new |-> new, looked |-> TRUE, wrote |-> TRUE]
      BY <2>2, <3>0 DEF InOrder, ApplyStatus, Outcome, Anchor
    <3>3. since = Anchor(r.since, n)
      BY <1>3
    <3> HIDE DEF since
    <3>4. new \in Rows /\ new.status = st /\ new.since = since
      BY <3>0, <3>1 DEF Rows
    <3> HIDE DEF new
    <3>5. QED
      BY <1>3, <2>2, <3>0, <3>2, <3>3, <3>4
  <2>3. QED
    BY <2>1, <2>2
<1>4. \A q \in {r, StoreLink(r, s), Adopt(r, s), Convert(r, s)} :
        q \in Rows /\ q.status = r.status /\ q.since = r.since
  BY <1>1, HandTypes
<1> HIDE DEF Fits
<1>5. CASE Guarded(r, n)
  <2>1. o = Outcome(r, FALSE, FALSE)
    BY <1>5 DEF Outcomes
  <2>2. Fits(o)
    BY <1>2, <1>4, <2>1
  <2>3. QED
    BY <2>2 DEF Fits
<1>6. CASE ~Guarded(r, n)
  <2>1. CASE sent[n].type = "created"
    <3>1. o = Outcome(StoreLink(r, s), TRUE, FALSE)
      BY <1>6, <2>1 DEF Outcomes, s
    <3>2. Fits(o)
      BY <1>2, <1>4, <3>1
    <3>3. QED
      BY <3>2 DEF Fits
  <2>2. CASE sent[n].type = "activated"
    <3>1. o \in {Outcome(Adopt(r, s), FALSE, FALSE), InOrder(Convert(r, s), n)}
      BY <1>6, <2>2 DEF Outcomes, s
    <3>2. IsTold(n)
      BY <2>2 DEF IsTold, StatusEvents
    <3>3. Fits(o)
      BY <1>2, <1>3, <1>4, <3>1, <3>2
    <3>4. QED
      BY <3>3 DEF Fits
  <2>3. CASE sent[n].type \notin {"created", "activated"}
    <3>1. o \in {Outcome(r, FALSE, FALSE), InOrder(r, n)}
      BY <1>6, <2>3 DEF Outcomes
    <3>2. IsTold(n)
      BY <2>3, StatusType
    <3>3. Fits(o)
      BY <1>2, <1>3, <1>4, <3>1, <3>2
    <3>4. QED
      BY <3>3 DEF Fits
  <2>4. QED
    BY <2>1, <2>2, <2>3
<1>7. QED
  BY <1>5, <1>6

LEMMA JobTypes ==
  ASSUME TypeOK
  PROVE  /\ job \in [Sessions -> JobValues]
         /\ \A h \in Sessions :
              /\ job[h].pc = "decided" => job[h] \in Decided
              /\ job[h].pc \in {"read", "retry"} => job[h] \in Jobs
              /\ Busy(h) => job[h].read \in Rows /\ job[h].event \in EventIds
<1>1. job \in [Sessions -> JobValues]
  BY DEF TypeOK, JobValues
<1>2. ASSUME NEW j \in JobValues
      PROVE  /\ j.pc = "decided" => j \in Decided
             /\ j.pc \in {"read", "retry"} => j \in Jobs
             /\ j.pc # "idle" => j.read \in Rows /\ j.event \in EventIds
  <2> HIDE DEF Rows, EventIds
  <2>1. CASE j = Idle
    BY <2>1 DEF Idle
  <2>2. CASE j \in Jobs
    BY <2>2 DEF Jobs
  <2>3. CASE j \in Decided
    BY <2>3 DEF Decided
  <2>4. QED
    BY <1>2, <2>1, <2>2, <2>3 DEF JobValues
<1>3. \A h \in Sessions : job[h] \in JobValues
  BY <1>1
<1>4. QED
  BY <1>1, <1>2, <1>3 DEF Busy

LEMMA MergedType ==
  ASSUME NEW j, row \in Rows, j.new \in Rows, j.read \in Rows
  PROVE  /\ Merged(j) \in Rows
         /\ j.read.status = row.status => Merged(j).status = j.new.status
         /\ j.read.since = row.since => Merged(j).since = j.new.since
<1> DEFINE m == Merged(j)
           new == j.new
           read == j.read
<1>0. new \in Rows /\ read \in Rows
  OBVIOUS
<1>1. DOMAIN row = {"mode", "status", "since", "sub", "customer", "converted", "pool"}
  BY DEF Rows
<1>2. m = [f \in DOMAIN row |-> IF new[f] # read[f] THEN new[f] ELSE row[f]]
  BY DEF Merged
<1> HIDE DEF m, new, read
<1>3. /\ DOMAIN m = DOMAIN row
      /\ \A f \in DOMAIN row : m[f] = new[f] \/ m[f] = row[f]
      /\ \A f \in DOMAIN row : read[f] = row[f] => m[f] = new[f]
  BY <1>2
<1>4. /\ m["mode"] \in {"manual", "paddle"}
      /\ m["status"] \in Statuses \cup {"none"}
      /\ m["since"] \in 0 .. MaxEvents
      /\ m["sub"] \in Subs \cup {NoSub}
      /\ m["customer"] \in Subs \cup {NoSub}
      /\ m["converted"] \in {"no", "paddle", "hand"}
      /\ m["pool"] \in 0 .. Readers
  BY <1>0, <1>1, <1>3 DEF Rows
<1>5. m = [mode |-> m["mode"], status |-> m["status"], since |-> m["since"],
           sub |-> m["sub"], customer |-> m["customer"],
           converted |-> m["converted"], pool |-> m["pool"]]
  BY <1>1, <1>2
<1>6. m \in Rows
  BY <1>4, <1>5 DEF Rows
<1>7. QED
  BY <1>1, <1>3, <1>6 DEF m, new, read

LEMMA PaddleTypes ==
  ASSUME TypeOK, NEW s \in Subs,
         \/ CreateCheckout(s) \/ Pay(s) \/ PaymentFails(s)
         \/ PaymentRecovers(s) \/ SubscriptionEnds(s) \/ Update(s)
  PROVE  /\ paddle' \in [Subs -> Statuses \cup {"none", "checkout"}]
         /\ UNCHANGED catalog
<1>1. ASSUME NEW from, NEW to \in Statuses, NEW types, Moves(s, from, to, types)
      PROVE  /\ paddle' \in [Subs -> Statuses \cup {"none", "checkout"}]
             /\ UNCHANGED catalog
  BY <1>1 DEF Moves, TypeOK
<1>2. CASE CreateCheckout(s)
  BY <1>2 DEF CreateCheckout, TypeOK
<1>3. \A status \in {"active", "canceled", "past_due"} : status \in Statuses
  BY DEF Statuses
<1>4. QED
  BY <1>1, <1>2, <1>3
     DEF Pay, PaymentFails, PaymentRecovers, SubscriptionEnds, Update

LEMMA TypeInit == Init => TypeOK
<1> SUFFICES ASSUME Init PROVE TypeOK
  OBVIOUS
<1>1. row \in Rows
  BY NatAssumption DEF Init, Rows
<1>2. sent \in Seq(Events) /\ Len(sent) <= MaxEvents
  BY NatAssumption DEF Init
<1>3. QED
  BY <1>1, <1>2 DEF Init, TypeOK

\* A session that goes to a step of its own, the tables left alone.
LEMMA TypeGoto ==
  ASSUME TypeOK, NEW h \in Sessions, NEW next \in JobValues, Goto(h, next),
         UNCHANGED <<external, stored, row, times, ignored, applied>>,
         overlap' \in BOOLEAN
  PROVE  TypeOK'
<1>1. job' \in [Sessions -> JobValues]
  <2> HIDE DEF JobValues
  <2> QED BY JobTypes DEF Goto
<1>2. job' \in [Sessions -> {Idle} \cup Jobs \cup Decided]
  BY <1>1 DEF JobValues
<1>3. UNCHANGED <<paddle, catalog, sent, stored, row, times, ignored, applied>>
  BY DEF external
<1> HIDE DEF Rows, Events, Jobs, Decided, Idle
<1>4. QED
  BY <1>2, <1>3 DEF TypeOK

LEMMA TypeNext == Once /\ TypeOK /\ [Next]_vars => TypeOK'
<1> SUFFICES ASSUME Once, TypeOK, [Next]_vars PROVE TypeOK'
  OBVIOUS
<1>0. Shape /\ Idle \in JobValues
  BY DEF Once, JobValues
<1>1. CASE UNCHANGED vars
  BY <1>1 DEF vars, external, history, TypeOK
<1>2. CASE ConvertByHand
  <2> DEFINE p == IF Readers > row.pool THEN Readers ELSE row.pool
  <2>1. row' = [row EXCEPT !.converted = "hand", !.pool = p]
    BY <1>2 DEF ConvertByHand
  <2>2. row \in Rows /\ p \in 0 .. Readers
    BY NatAssumption DEF TypeOK, Rows
  <2> HIDE DEF p
  <2>3. row' \in Rows
    BY <2>1, <2>2 DEF Rows
  <2>4. /\ UNCHANGED <<paddle, catalog, sent, stored, job, times, ignored, applied>>
        /\ overlap' \in BOOLEAN
    BY <1>2 DEF ConvertByHand, external, TypeOK
  <2>5. QED
    BY <2>3, <2>4 DEF TypeOK
<1>3. ASSUME NEW s \in Subs,
             \/ CreateCheckout(s) \/ Pay(s) \/ PaymentFails(s)
             \/ PaymentRecovers(s) \/ SubscriptionEnds(s) \/ Update(s)
      PROVE  TypeOK'
  <2>1. /\ sent' \in Seq(Events) /\ Len(sent') <= MaxEvents
        /\ UNCHANGED <<stored, row, job, times, ignored, applied, overlap>>
    BY <1>0, <1>3, PaddleSteps DEF history
  <2>2. /\ paddle' \in [Subs -> Statuses \cup {"none", "checkout"}]
        /\ UNCHANGED catalog
    BY <1>3, PaddleTypes
  <2>3. QED
    BY <2>1, <2>2 DEF TypeOK
<1>4. ASSUME NEW h \in Sessions, NEW n \in EventIds, Receive(h, n) PROVE TypeOK'
  <2> DEFINE next == [pc |-> "read", event |-> n, read |-> row]
  <2>1. next \in JobValues
    BY DEF TypeOK, JobValues, Jobs
  <2>2. Goto(h, next)
    BY <1>4 DEF Receive
  <2> HIDE DEF next
  <2>3. QED
    BY <1>4, <2>1, <2>2, TypeGoto DEF Receive, TypeOK
<1>5. ASSUME NEW h \in Sessions, Duplicate(h) PROVE TypeOK'
  BY <1>0, <1>5, TypeGoto DEF Duplicate, history, TypeOK
<1>6. ASSUME NEW h \in Sessions, Decide(h) PROVE TypeOK'
  <2>1. PICK o \in Outcomes(job[h].read, job[h].event) :
          Goto(h, [pc |-> "decided", event |-> job[h].event, read |-> job[h].read,
                   new |-> o.new, looked |-> o.looked, wrote |-> o.wrote])
    BY <1>6 DEF Decide
  <2> DEFINE next == [pc |-> "decided", event |-> job[h].event, read |-> job[h].read,
                      new |-> o.new, looked |-> o.looked, wrote |-> o.wrote]
  <2>2. Busy(h)
    BY <1>6 DEF Decide, Busy
  <2>3. /\ job[h].read \in Rows /\ job[h].event \in EventIds
        /\ job[h].event \in 1 .. Len(sent)
    BY <1>0, <2>2, JobTypes DEF Shape
  <2>4. o.new \in Rows /\ o.looked \in BOOLEAN /\ o.wrote \in BOOLEAN
    BY <1>0, <2>3, OutcomeAnchor
  <2>5. next \in Decided
    BY <2>3, <2>4 DEF Decided
  <2>6. next \in JobValues /\ Goto(h, next)
    BY <2>1, <2>5 DEF JobValues
  <2> HIDE DEF next
  <2>7. QED
    BY <1>6, <2>6, TypeGoto DEF Decide, history, TypeOK
<1>7. ASSUME NEW h \in Sessions, Rollback(h) PROVE TypeOK'
  <2> DEFINE next == [pc |-> "retry", event |-> job[h].event, read |-> job[h].read]
  <2>1. job[h].read \in Rows /\ job[h].event \in EventIds
    BY <1>7, JobTypes DEF Rollback, Busy
  <2>2. next \in JobValues
    BY <2>1 DEF JobValues, Jobs
  <2>3. Goto(h, next)
    BY <1>7 DEF Rollback
  <2> HIDE DEF next
  <2>4. QED
    BY <1>7, <2>2, <2>3, TypeGoto DEF Rollback, history, TypeOK
<1>8. ASSUME NEW h \in Sessions, Goto(h, Idle)
      PROVE  job' \in [Sessions -> {Idle} \cup Jobs \cup Decided]
  BY <1>8 DEF Goto, TypeOK
<1>9. ASSUME NEW h \in Sessions, Reinsert(h) PROVE TypeOK'
  <2>1. job[h].event \in EventIds
    BY <1>9, JobTypes DEF Reinsert, Busy
  <2>2. /\ stored' \in SUBSET EventIds /\ ignored' \in SUBSET EventIds
        /\ UNCHANGED <<paddle, catalog, sent, row, times, applied, overlap>>
    BY <1>9, <2>1 DEF Reinsert, external, TypeOK
  <2>3. job' \in [Sessions -> {Idle} \cup Jobs \cup Decided]
    BY <1>8, <1>9 DEF Reinsert
  <2>4. QED
    BY <2>2, <2>3 DEF TypeOK
<1>10. ASSUME NEW h \in Sessions, Commit(h) PROVE TypeOK'
  <2>1. job[h] \in Decided /\ job[h].event \in EventIds
    BY <1>10, JobTypes DEF Commit, Busy
  <2>2. job[h].new \in Rows /\ job[h].read \in Rows /\ row \in Rows
    BY <2>1 DEF Decided, TypeOK
  <2>3. row' \in Rows
    BY <1>10, <2>2, MergedType DEF Commit
  <2>4. /\ stored' \in SUBSET EventIds /\ ignored' \in SUBSET EventIds
        /\ applied' \in SUBSET EventIds /\ times' \in [EventIds -> Nat]
        /\ UNCHANGED <<paddle, catalog, sent, overlap>>
    BY <1>10, <2>1 DEF Commit, external, TypeOK
  <2>5. job' \in [Sessions -> {Idle} \cup Jobs \cup Decided]
    BY <1>8, <1>10 DEF Commit
  <2>6. QED
    BY <2>3, <2>4, <2>5 DEF TypeOK
<1>11. QED
  BY <1>1, <1>2, <1>3, <1>4, <1>5, <1>6, <1>7, <1>9, <1>10
     DEF Next, Handle, Deliver

LEMMA AlwaysTyped == Spec => []TypeOK
  BY TypeInit, TypeNext, AlwaysOnce, PTL DEF Spec

\* Every reachable state of the billing webhooks is well typed: what a commit
\* merges into a row that changed meanwhile is again a row.
THEOREM TypesHold == Spec => []TypeOK
  BY AlwaysTyped

\* What a session decided of the status and of the anchor.
AnchorJudged(h) ==
  LET j == job[h]
  IN /\ ~j.wrote => j.new.status = row.status /\ j.new.since = row.since
     /\ j.wrote => /\ IsTold(j.event) /\ ~Stale(j.event)
                   /\ j.new.status = StatusOf(j.event)
                   /\ j.new.since = Anchor(row.since, j.event)

\* The anchor opens the spell of past_due under way; between two spells the
\* newest of the applied events says something else.
Spell ==
  /\ \A n \in applied : n \in stored /\ IsTold(n)
  /\ row.since # 0 <=> row.status = "past_due"
  /\ row.since = 0 =>
       \A m \in applied : \E n \in applied : m <= n /\ StatusOf(n) # "past_due"
  /\ row.since # 0 =>
       /\ row.since \in applied
       /\ \A n \in applied : n >= row.since => StatusOf(n) = "past_due"
       /\ \A m \in applied : m < row.since =>
            \E n \in applied : /\ m <= n /\ n < row.since
                               /\ StatusOf(n) # "past_due"

Spells == ~overlap => Spell /\ \A h \in Sessions : Decides(h) => AnchorJudged(h)

\* The invariants the anchor rests on.
Base == Once /\ Alone /\ TypeOK

\* A step of one session that leaves the row and the applied events alone.
LEMMA SpellsQuiet ==
  ASSUME Base, Spells, ~overlap, ~overlap', NEW h \in Sessions, Busy(h),
         \A g \in Sessions \ {h} : job'[g] = job[g],
         UNCHANGED <<sent, row, applied>>, stored \subseteq stored',
         Decides(h)' => AnchorJudged(h)'
  PROVE  Spells'
<1>1. \A g \in Sessions \ {h} : ~Busy(g)
  BY DEF Base, Alone
<1>2. \A g \in Sessions \ {h} : ~Decides(g)'
  BY <1>1 DEF Decides, Busy
<1>3. Spell'
  BY DEF Spells, Spell, IsTold, StatusOf
<1>4. QED
  BY <1>2, <1>3 DEF Spells

\* The commit of the one session at work.
LEMMA SpellsCommit ==
  ASSUME Base, Spells, ~overlap, NEW h \in Sessions, Commit(h)
  PROVE  Spells'
<1> DEFINE n == job[h].event
           wrote == job[h].wrote
<1>1. /\ Decides(h) /\ Busy(h) /\ job[h].read = row
      /\ \A g \in Sessions \ {h} : ~Busy(g)
  BY DEF Base, Alone, Commit, Decides, Busy
<1>2. /\ job'[h] = Idle /\ \A g \in Sessions \ {h} : job'[g] = job[g]
      /\ sent' = sent /\ stored' = stored \cup {n}
      /\ applied' = IF wrote THEN applied \cup {n} ELSE applied
  BY GotoShape DEF Commit, external, Base, Once
<1>3. \A g \in Sessions : ~Decides(g)'
  BY <1>1, <1>2 DEF Decides, Busy, Idle
<1>4. /\ job[h].new \in Rows /\ job[h].read \in Rows /\ row \in Rows
      /\ n \in EventIds
  BY <1>1, JobTypes DEF Decided, TypeOK, Base, Decides
<1>5. row'.status = job[h].new.status /\ row'.since = job[h].new.since
  BY <1>1, <1>4, MergedType DEF Commit
<1>6. AnchorJudged(h) /\ Spell
  BY <1>1 DEF Spells
<1>7. \A m \in Nat : IsTold(m)' = IsTold(m) /\ StatusOf(m)' = StatusOf(m)
  BY <1>2 DEF IsTold, StatusOf
<1>8. /\ stored \subseteq Nat /\ applied \subseteq stored /\ n \in Nat /\ n # 0
      /\ row.since \in Nat
  BY <1>4, <1>6, NatAssumption DEF TypeOK, Base, Spell, EventIds, Rows
<1>9. CASE ~wrote
  <2>1. row'.status = row.status /\ row'.since = row.since /\ applied' = applied
    BY <1>2, <1>5, <1>6, <1>9 DEF AnchorJudged
  <2>2. Spell'
    BY <1>2, <1>6, <1>7, <1>8, <2>1 DEF Spell
  <2>3. QED
    BY <1>3, <2>2 DEF Spells
<1>10. CASE wrote
  <2>1. /\ IsTold(n) /\ ~Stale(n)
        /\ row'.status = StatusOf(n) /\ row'.since = Anchor(row.since, n)
        /\ applied' = applied \cup {n}
    BY <1>2, <1>5, <1>6, <1>10 DEF AnchorJudged
  <2> HIDE DEF n, wrote
  <2>2. \A m \in applied : m <= n /\ IsTold(m) /\ m \in Nat
    BY <1>6, <1>8, <2>1 DEF Spell, Stale, IsTold
  <2>3. CASE StatusOf(n) # "past_due"
    <3>1. row'.since = 0 /\ row'.status # "past_due"
      BY <2>1, <2>3 DEF Anchor
    <3>2. Spell'
      BY <1>2, <1>7, <1>8, <2>1, <2>2, <2>3, <3>1, <1>6 DEF Spell
    <3>3. QED
      BY <1>3, <3>2 DEF Spells
  <2>4. CASE StatusOf(n) = "past_due" /\ row.since = 0
    <3>1. row'.since = n /\ row'.status = "past_due"
      BY <2>1, <2>4 DEF Anchor
    <3>2. n \notin applied
      BY <1>1, <1>8 DEF Base, Once, Holds, n
    <3>3. \A m \in applied : m < n
      BY <1>8, <2>2, <3>2
    <3>4. Spell'
      BY <1>2, <1>6, <1>7, <1>8, <2>1, <2>2, <2>4, <3>1, <3>3 DEF Spell
    <3>5. QED
      BY <1>3, <3>4 DEF Spells
  <2>5. CASE StatusOf(n) = "past_due" /\ row.since # 0
    <3>1. row'.since = row.since /\ row'.status = "past_due"
      BY <2>1, <2>5 DEF Anchor
    <3>2. Spell'
      BY <1>2, <1>6, <1>7, <1>8, <2>1, <2>2, <2>5, <3>1 DEF Spell
    <3>3. QED
      BY <1>3, <3>2 DEF Spells
  <2>6. QED
    BY <2>3, <2>4, <2>5
<1>11. wrote \in BOOLEAN
  BY <1>1, JobTypes DEF Decided, Base, Decides
<1>12. QED
  BY <1>9, <1>10

LEMMA SpellsInit == Init => Spells
  BY DEF Init, Spells, Spell, Decides, Idle

LEMMA SpellsNext == Base /\ Spells /\ [Next]_vars => Spells'
<1> SUFFICES ASSUME Base, Spells, [Next]_vars, ~overlap' PROVE Spells'
  BY DEF Spells
<1>0. Shape
  BY DEF Base, Once
<1>1. CASE UNCHANGED vars
  BY <1>1 DEF vars, external, history, Spells, Spell, AnchorJudged, Decides,
     IsTold, Stale, StatusOf, Anchor
<1>2. CASE ConvertByHand
  <2>1. /\ row'.status = row.status /\ row'.since = row.since
        /\ ~overlap /\ \A h \in Sessions : ~Busy(h)
        /\ UNCHANGED <<sent, stored, job, applied>>
    BY <1>2 DEF ConvertByHand, external, Base, TypeOK, Rows
  <2>2. \A h \in Sessions : ~Decides(h)'
    BY <2>1 DEF Decides, Busy
  <2>3. QED
    BY <2>1, <2>2 DEF Spells, Spell, IsTold, StatusOf
<1>3. ASSUME NEW s \in Subs,
             \/ CreateCheckout(s) \/ Pay(s) \/ PaymentFails(s)
             \/ PaymentRecovers(s) \/ SubscriptionEnds(s) \/ Update(s)
      PROVE  Spells'
  <2>1. /\ sent' \in Seq(Events) /\ Len(sent) <= Len(sent')
        /\ \A i \in 1 .. Len(sent) : sent'[i] = sent[i]
        /\ UNCHANGED <<stored, row, job, applied, overlap>>
    BY <1>0, <1>3, PaddleSteps DEF history
  <2>2. \A n \in 1 .. Len(sent) : /\ IsTold(n)' = IsTold(n)
                                  /\ StatusOf(n)' = StatusOf(n)
                                  /\ Stale(n)' = Stale(n)
    BY <1>0, <2>1, SentGrows
  <2>3. ~overlap /\ Spell /\ \A n \in stored : n \in 1 .. Len(sent)
    BY <1>0, <2>1 DEF Shape, Spells
  <2>4. \A n \in applied : n \in 1 .. Len(sent)
    BY <2>3 DEF Spell
  <2>5. Spell'
    BY <2>1, <2>2, <2>3, <2>4 DEF Spell
  <2>6. ASSUME NEW h \in Sessions, Decides(h)' PROVE AnchorJudged(h)'
    <3>1. AnchorJudged(h) /\ job[h].event \in 1 .. Len(sent)
      BY <1>0, <2>1, <2>3, <2>6 DEF Spells, Decides, Shape, Busy
    <3> DEFINE n == job[h].event
    <3>2. IsTold(n)' = IsTold(n) /\ StatusOf(n)' = StatusOf(n) /\ Stale(n)' = Stale(n)
      BY <2>1, <2>2, <3>1
    <3>3. QED
      BY <2>1, <3>1, <3>2 DEF AnchorJudged, Anchor
  <2>7. QED
    BY <2>5, <2>6 DEF Spells
<1>4. ASSUME NEW h \in Sessions, NEW n \in EventIds, Receive(h, n) PROVE Spells'
  <2>1. /\ ~overlap /\ \A g \in Sessions : ~Busy(g)
        /\ UNCHANGED <<sent, stored, row, applied>>
    BY <1>4 DEF Receive, external
  <2>2. /\ job'[h] = [pc |-> "read", event |-> n, read |-> row]
        /\ \A g \in Sessions \ {h} : job'[g] = job[g]
    BY <1>0, <1>4, GotoShape DEF Receive
  <2>3. \A g \in Sessions : ~Decides(g)'
    BY <2>1, <2>2 DEF Decides, Busy
  <2>4. QED
    BY <2>1, <2>3 DEF Spells, Spell, IsTold, StatusOf
<1>5. ASSUME NEW h \in Sessions, Duplicate(h) \/ Rollback(h) \/ Reinsert(h)
      PROVE  Spells'
  <2>1. /\ Busy(h) /\ ~overlap /\ UNCHANGED <<sent, row, applied>>
        /\ stored \subseteq stored'
    BY <1>5 DEF Duplicate, Rollback, Reinsert, Busy, external, history
  <2>2. /\ job'[h].pc # "decided" /\ \A g \in Sessions \ {h} : job'[g] = job[g]
    BY <1>0, <1>5, GotoShape DEF Duplicate, Rollback, Reinsert, Idle
  <2>3. QED
    BY <2>1, <2>2, SpellsQuiet DEF Decides
<1>6. ASSUME NEW h \in Sessions, Decide(h) PROVE Spells'
  <2>1. PICK o \in Outcomes(job[h].read, job[h].event) :
          Goto(h, [pc |-> "decided", event |-> job[h].event, read |-> job[h].read,
                   new |-> o.new, looked |-> o.looked, wrote |-> o.wrote])
    BY <1>6 DEF Decide
  <2>2. Busy(h) /\ ~overlap /\ UNCHANGED <<sent, stored, row, applied>>
    BY <1>6 DEF Decide, Busy, external, history
  <2>3. /\ job'[h] = [pc |-> "decided", event |-> job[h].event, read |-> job[h].read,
                      new |-> o.new, looked |-> o.looked, wrote |-> o.wrote]
        /\ \A g \in Sessions \ {h} : job'[g] = job[g]
    BY <1>0, <2>1, GotoShape
  <2>4. /\ job[h].event \in 1 .. Len(sent) /\ job[h].read = row /\ row \in Rows
    BY <1>0, <2>2 DEF Base, Alone, Shape, TypeOK
  <2>5. /\ ~o.wrote => o.new.status = row.status /\ o.new.since = row.since
        /\ o.wrote => /\ IsTold(job[h].event) /\ ~Stale(job[h].event)
                      /\ o.new.status = StatusOf(job[h].event)
                      /\ o.new.since = Anchor(row.since, job[h].event)
    BY <1>0, <2>4, OutcomeAnchor
  <2>6. AnchorJudged(h)'
    BY <2>2, <2>3, <2>5 DEF AnchorJudged, IsTold, Stale, StatusOf, Anchor
  <2>7. QED
    BY <2>2, <2>3, <2>6, SpellsQuiet
<1>7. ASSUME NEW h \in Sessions, Commit(h) PROVE Spells'
  BY <1>7, SpellsCommit DEF Commit
<1>8. QED
  BY <1>1, <1>2, <1>3, <1>4, <1>5, <1>6, <1>7 DEF Next, Handle, Deliver

LEMMA AlwaysSpells == Spec => []Spells
<1>1. Base /\ Spells /\ [Next]_vars => Spells'
  BY SpellsNext
<1>2. QED
  BY <1>1, SpellsInit, AlwaysOnce, AlwaysAlone, AlwaysTyped, PTL DEF Spec, Base

\* The grace period counts from the first past_due of the spell under way,
\* whatever the order of delivery, one at a time, for any number of events
\* (billing_manager.py:655-666).
THEOREM AnchorHolds == Spec => []FirstAppliedAnchors
<1>1. Spells => FirstAppliedAnchors
  BY DEF Spells, Spell, FirstAppliedAnchors
<1>2. QED
  BY <1>1, AlwaysSpells, PTL
=============================================================================
