-------------------------- MODULE BillingWebhooks --------------------------
(***************************************************************************)
(* The webhooks of Paddle for one agency: handle_webhook, _dispatch and    *)
(* the handlers of src/billing/billing_manager.py, the guards of           *)
(* create_checkout, the conversion by hand of src/agencies.                *)
(*                                                                         *)
(* Paddle is external: subscriptions live their life, each change is an    *)
(* event with an instant, and an event is delivered until it is answered,  *)
(* in any order, several deliveries at once.  A session handles a delivery *)
(* in the steps the database sees: the SELECTs of event and agency, the    *)
(* INSERT of the event that the next SELECT flushes, the search for newer  *)
(* events, the COMMIT.  The ORM writes the columns that differ from those  *)
(* it has read.  transaction.completed goes to the ledger: SignatureLedger.*)
(***************************************************************************)
EXTENDS Integers, Sequences

CONSTANTS
  MaxSubs,    \* bound: subscriptions ever bought, numbered as they are
  Catalogs,   \* what may be wrong with each subscription
  MaxSessions, \* bound: requests handled at once
  MaxEvents,  \* bound: events Paddle ever emits
  MaxCrowded, \* bound: events there are when transactions overlap
  Readers     \* committed readers of the agency, invitations included

ASSUME NatAssumption ==
  /\ {MaxSubs, MaxSessions, MaxEvents, MaxCrowded, Readers} \subseteq Nat
  /\ MaxCrowded <= MaxEvents

Subs == 1 .. MaxSubs
NoSub == 0
Sessions == 1 .. MaxSessions

\* The environment does not know its price ids, or its customer is bound to
\* another agency.
ASSUME CatalogAssumption == Catalogs \subseteq [Subs -> {"fine", "unpriced", "taken"}]

VARIABLES
  paddle,   \* external: the state of each subscription
  catalog,  \* external: what is wrong with each subscription
  sent,     \* external: the events, in the order of their occurred_at
  stored,   \* event_ids of paddle_webhook_event
  row,      \* the columns of agency that billing writes
  job,      \* what each session is doing
  times,    \* history: times the effects of each event were committed
  ignored,  \* history: events stored without being looked at
  applied,  \* history: the status events that were written
  overlap   \* history: two transactions were once open together

external == <<paddle, catalog, sent>>
history == <<times, ignored, applied, overlap>>
vars == <<external, stored, row, job, history>>

EventIds == 1 .. MaxEvents
Statuses == {"active", "past_due", "canceled"}
StatusEvents == {"activated", "past_due", "canceled", "resumed", "updated"}
Events == [type : StatusEvents \cup {"created"}, sub : Subs, status : Statuses]

Rows == [mode : {"manual", "paddle"}, status : Statuses \cup {"none"},
         since : 0 .. MaxEvents, sub : Subs \cup {NoSub},
         customer : Subs \cup {NoSub},
         converted : {"no", "paddle", "hand"}, pool : 0 .. Readers]

Idle == [pc |-> "idle"]
Jobs == [pc : {"read", "retry"}, event : EventIds, read : Rows]
Decided == [pc : {"decided"}, event : EventIds, read : Rows, new : Rows,
            looked : BOOLEAN, wrote : BOOLEAN]

TypeOK ==
  /\ paddle \in [Subs -> Statuses \cup {"none", "checkout"}]
  /\ catalog \in Catalogs
  /\ sent \in Seq(Events) /\ Len(sent) <= MaxEvents
  /\ stored \in SUBSET EventIds
  /\ row \in Rows
  /\ job \in [Sessions -> {Idle} \cup Jobs \cup Decided]
  /\ times \in [EventIds -> Nat]
  /\ ignored \in SUBSET EventIds
  /\ applied \in SUBSET EventIds
  /\ overlap \in BOOLEAN

Init ==
  /\ paddle = [s \in Subs |-> "none"]
  /\ catalog \in Catalogs
  /\ sent = <<>>
  /\ stored = {}
  /\ row = [mode |-> "manual", status |-> "none", since |-> 0, sub |-> NoSub,
            customer |-> NoSub, converted |-> "no", pool |-> 0]
  /\ job = [h \in Sessions |-> Idle]
  /\ times = [n \in EventIds |-> 0]
  /\ ignored = {}
  /\ applied = {}
  /\ overlap = FALSE

(***************************************************************************)
(* Paddle, external, and the agency's own gestures.                        *)
(***************************************************************************)

Emit(events) ==
  /\ Len(sent) + Len(events) <= IF overlap THEN MaxCrowded ELSE MaxEvents
  /\ sent' = sent \o events

\* The walls of create_checkout.
CheckoutOpen ==
  IF row.mode = "paddle" THEN row.sub = NoSub \/ row.status = "canceled"
                         ELSE row.converted = "no"

CreateCheckout(s) ==
  /\ CheckoutOpen
  /\ paddle[s] = "none" /\ \A u \in Subs : u < s => paddle[u] # "none"
  /\ paddle' = [paddle EXCEPT ![s] = "checkout"]
  /\ UNCHANGED <<catalog, sent, stored, row, job, history>>

\* A change of a subscription and the events it causes, in their order.
Moves(s, from, to, types) ==
  /\ paddle[s] \in from
  /\ Emit([i \in 1 .. Len(types) |->
             [type |-> types[i], sub |-> s, status |-> to]])
  /\ paddle' = [paddle EXCEPT ![s] = to]
  /\ UNCHANGED <<catalog, stored, row, job, history>>

Pay(s) == Moves(s, {"checkout"}, "active", <<"created", "activated">>)
PaymentFails(s) == Moves(s, {"active"}, "past_due", <<"past_due">>)
PaymentRecovers(s) ==
  \E type \in {"resumed", "updated"} :
    Moves(s, {"past_due"}, "active", <<type>>)
SubscriptionEnds(s) ==
  Moves(s, {"active", "past_due"}, "canceled", <<"canceled">>)
\* Any other change of the subscription, told with the status it has.
Update(s) == \E status \in Statuses : Moves(s, {status}, status, <<"updated">>)

Busy(h) == job[h].pc # "idle"

\* update_subscription, apply_conversion: the superadmin converts by hand.
ConvertByHand ==
  /\ row.mode # "paddle"
  /\ row.converted = "no"
  /\ row' = [row EXCEPT !.converted = "hand",
                        !.pool = IF Readers > @ THEN Readers ELSE @]
  /\ overlap' = (overlap \/ \E h \in Sessions : Busy(h))
  /\ UNCHANGED <<external, stored, job, times, ignored, applied>>

(***************************************************************************)
(* What a handler computes from the agency r it has read and the event n.  *)
(***************************************************************************)

\* Mutant: the type of the event is written where its status is meant.
StatusByName(n) == sent[n].type

\* _STATUS_BY_EVENT; `updated` brings the status in its data.
StatusOf(n) ==
  IF sent[n].type = "updated" THEN sent[n].status
  ELSE IF sent[n].type \in {"activated", "resumed"} THEN "active"
  ELSE sent[n].type

\* Mutant: the event finds itself and takes itself for a newer one.
StaleOrSame(n) ==
  \E m \in stored \cup {n} : m >= n /\ sent[m].type \in StatusEvents

\* _status_is_stale: a newer status event of the agency is on file, whatever
\* became of it.  The event itself is already inserted.
Stale(n) == \E m \in stored \cup {n} : m > n /\ sent[m].type \in StatusEvents

\* Mutant: each past_due event moves the anchor of the grace period.
ApplyStatusAnew(r, n) ==
  [r EXCEPT !.status = StatusOf(n),
            !.since = IF StatusOf(n) = "past_due" THEN n ELSE 0]

\* _apply_status: past_due_since is set once, and cleared by any other status.
ApplyStatus(r, n) ==
  [r EXCEPT !.status = StatusOf(n),
            !.since = IF StatusOf(n) # "past_due" THEN 0
                      ELSE IF @ = 0 THEN n ELSE @]

\* The guard of _dispatch: the superadmin keeps the hand.
Guarded(r, n) ==
  /\ r.mode # "paddle"
  /\ ~(sent[n].type \in {"created", "activated"} /\ r.converted = "no")

StoreLink(r, s) ==
  [r EXCEPT !.sub = IF @ = NoSub THEN s ELSE @,
            !.customer = IF @ = NoSub THEN s ELSE @]

\* _on_activated up to the status: the ids are adopted whatever the order of
\* the events, and the first activation converts.
Adopt(r, s) == [r EXCEPT !.sub = s, !.customer = s, !.mode = "paddle"]
Unpriced(r, s) == r.converted = "no" /\ catalog[s] = "unpriced"
Convert(r, s) ==
  [Adopt(r, s) EXCEPT !.converted = IF @ = "no" THEN "paddle" ELSE @,
                      !.pool = IF Readers > @ THEN Readers ELSE @]

\* What becomes of the agency: the row, whether the order of the events was
\* looked at, and whether the status was written.
Outcome(new, looked, wrote) == [new |-> new, looked |-> looked, wrote |-> wrote]
InOrder(r, n) ==
  IF Stale(n) THEN Outcome(r, TRUE, FALSE)
              ELSE Outcome(ApplyStatus(r, n), TRUE, TRUE)

\* The quantities of `updated` echo ours, or not: then nothing is written.
Outcomes(r, n) ==
  LET s == sent[n].sub
  IN IF Guarded(r, n) THEN {Outcome(r, FALSE, FALSE)}
     ELSE CASE sent[n].type = "created" -> {Outcome(StoreLink(r, s), TRUE, FALSE)}
            [] sent[n].type = "activated" ->
                 IF Unpriced(r, s) THEN {Outcome(Adopt(r, s), FALSE, FALSE)}
                                   ELSE {InOrder(Convert(r, s), n)}
            [] sent[n].type = "updated" ->
                 {Outcome(r, FALSE, FALSE), InOrder(r, n)}
            [] OTHER -> {InOrder(r, n)}

(***************************************************************************)
(* handle_webhook, in the steps of its transaction.                        *)
(***************************************************************************)

Goto(h, next) == job' = [job EXCEPT ![h] = next]

\* Another session has inserted this event and not committed: the unique
\* index makes this one wait.
HeldElsewhere(h, n) ==
  \E g \in Sessions \ {h} : job[g].pc = "decided" /\ job[g].event = n

\* The row of the agency is locked from the flush of the adopted ids on.
RowLocked(h) ==
  \E g \in Sessions \ {h} :
    job[g].pc = "decided" /\ job[g].new.sub # job[g].read.sub

\* The SELECTs: the event is not on file (a duplicate is answered at once),
\* the agency is read.  Sessions have no name: the first free one is taken.
Receive(h, n) ==
  /\ ~Busy(h) /\ \A g \in Sessions : g < h => Busy(g)
  /\ n <= Len(sent)
  /\ n \notin stored
  /\ (\E g \in Sessions : Busy(g)) => Len(sent) <= MaxCrowded
  /\ Goto(h, [pc |-> "read", event |-> n, read |-> row])
  /\ overlap' = (overlap \/ \E g \in Sessions : Busy(g))
  /\ UNCHANGED <<external, stored, row, times, ignored, applied>>

\* Mutant: event_id is not unique in the database.
StoredAlreadyNever(n) == FALSE

StoredAlready(n) == n \in stored

\* Both INSERTs meet the event another delivery has stored: "duplicate".
Duplicate(h) ==
  /\ job[h].pc \in {"read", "retry"}
  /\ StoredAlready(job[h].event)
  /\ Goto(h, Idle)
  /\ UNCHANGED <<external, stored, row, history>>

\* The first query flushes the INSERT, then the handler reads what it needs.
Decide(h) ==
  /\ job[h].pc = "read"
  /\ ~StoredAlready(job[h].event)
  /\ ~HeldElsewhere(h, job[h].event)
  /\ ~RowLocked(h)
  /\ \E o \in Outcomes(job[h].read, job[h].event) :
       Goto(h, [pc |-> "decided", event |-> job[h].event, read |-> job[h].read,
                new |-> o.new, looked |-> o.looked, wrote |-> o.wrote])
  /\ UNCHANGED <<external, stored, row, history>>

\* The UPDATE the ORM sends: the columns that are not what it read.
Merged(j) ==
  [f \in DOMAIN row |-> IF j.new[f] # j.read[f] THEN j.new[f] ELSE row[f]]

\* paddle_customer_id is unique: the customer pays for another agency.
Violates(j) == 
  /\ j.new.customer # j.read.customer
  /\ catalog[j.new.customer] = "taken"

Commit(h) ==
  LET j == job[h]
  IN /\ j.pc = "decided"
     /\ ~RowLocked(h)
     /\ ~Violates(j)
     /\ row' = Merged(j)
     /\ stored' = stored \cup {j.event}
     /\ times' = [times EXCEPT ![j.event] = @ + 1]
     /\ ignored' = IF j.looked THEN ignored ELSE ignored \cup {j.event}
     /\ applied' = IF j.wrote THEN applied \cup {j.event} ELSE applied
     /\ Goto(h, Idle)
     /\ UNCHANGED <<external, overlap>>

Rollback(h) ==
  /\ job[h].pc = "decided"
  /\ Violates(job[h])
  /\ Goto(h, [pc |-> "retry", event |-> job[h].event, read |-> job[h].read])
  /\ UNCHANGED <<external, stored, row, history>>

\* After the rollback the event alone is stored, for a human to settle.
Reinsert(h) ==
  LET n == job[h].event
  IN /\ job[h].pc = "retry"
     /\ ~StoredAlready(n)
     /\ ~HeldElsewhere(h, n)
     /\ stored' = stored \cup {n}
     /\ ignored' = ignored \cup {n}
     /\ Goto(h, Idle)
     /\ UNCHANGED <<external, row, times, applied, overlap>>

Handle(h) ==
  Duplicate(h) \/ Decide(h) \/ Commit(h) \/ Rollback(h) \/ Reinsert(h)

Deliver == \E h \in Sessions, n \in EventIds : Receive(h, n)

Next ==
  \/ ConvertByHand
  \/ \E s \in Subs :
       \/ CreateCheckout(s)
       \/ Pay(s)
       \/ PaymentFails(s)
       \/ PaymentRecovers(s)
       \/ SubscriptionEnds(s)
       \/ Update(s)
  \/ \E h \in Sessions : Handle(h)
  \/ Deliver

Spec == Init /\ [][Next]_vars

(***************************************************************************)
(* Properties.  Those that name overlap hold as long as no two             *)
(* transactions were ever open together; the others always.                *)
(***************************************************************************)

\* "event_id UNIQUE: a re-delivery is a no-op": the effects of an event are
\* committed at most once, whatever is delivered at once, and an event that
\* had effects is on file.
EffectsOnce == \A n \in EventIds : times[n] <= 1 /\ (times[n] = 1 => n \in stored)

\* _apply_status sets past_due_since once a spell.  The grace period is anchored
\* at the first past_due that was APPLIED in the spell under way: it is set
\* exactly while the agency is past due, no event applied later moves it, and
\* before it the newest applied event said something else.  It need not be the
\* first past_due Paddle told: when an `updated` that echoes past_due is
\* delivered before the past_due it echoes, that one is stale for ever and the
\* anchor stays at the echo, against the words of the docstring.
FirstAppliedAnchors ==
  ~overlap =>
    /\ row.since # 0 <=> row.status = "past_due"
    /\ row.since # 0 =>
         /\ row.since \in applied
         /\ \A n \in applied : n >= row.since => StatusOf(n) = "past_due"
         /\ \A m \in applied : m < row.since =>
              \E n \in applied : /\ m <= n /\ n < row.since
                                 /\ StatusOf(n) # "past_due"

\* Once every event was handled, and none was put aside (a conversion by hand,
\* quantities that diverge, unknown prices, a customer of another agency), the
\* status is the one the newest status event tells, in any order of delivery.
Converges ==
  LET told == {n \in 1 .. Len(sent) : sent[n].type \in StatusEvents}
  IN ~overlap /\ ignored = {} /\ told \subseteq stored =>
       \A n \in told : (\A m \in told : m <= n) => row.status = StatusOf(n)

=============================================================================
