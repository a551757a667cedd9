-------------------------- MODULE CampaignSequence --------------------------
(***************************************************************************)
(* One email campaign and its sequence at Lemlist: the Sync and the Launch *)
(* of src/email_campaigns/email_sync.py, the gestures on campaign, steps   *)
(* and recipients of email_manager.py.                                     *)
(*                                                                         *)
(* A sync holds the campaign row for one transaction and calls Lemlist     *)
(* many times: a call may fail, or take effect and lose its answer, and    *)
(* the sync may die, which undoes its writes here and nothing there.       *)
(* Lemlist sends emails all along.  What the session of the sync has read  *)
(* and written is in the record `sync`.  An agent's request that pauses or *)
(* resumes recipients does not hold the campaign row: it reads, calls      *)
(* Lemlist, and writes its rows at the end.                                *)
(*                                                                         *)
(* Lemlist has one shell per step, in order, and a lead's own email for it *)
(* or else its placeholder.  Texts, schedules and versions are left out.   *)
(***************************************************************************)
EXTENDS Integers, Sequences, FiniteSets, SequencesExt

CONSTANTS
  Leads,     \* the memberships of the campaign
  MaxSteps,  \* bound: steps of the sequence at once
  MaxIds,    \* bound: steps ever created
  MaxFaults, \* bound: calls that fail or lose their answer, syncs that die
  Requests   \* pauses and resumptions of one recipient under way at once

ASSUME BoundAssumption ==
  /\ MaxSteps \in Nat \ {0} /\ MaxIds \in Nat \ {0}
  /\ MaxFaults \in Nat
ASSUME LeadsAssumption == IsFiniteSet(Leads)

Ids == 1 .. MaxIds
Positions == 1 .. MaxSteps
NoId == 0

VARIABLES
  campaign, \* EmailCampaign.status
  steps,    \* ids of the steps, by position
  created,  \* steps ever created
  placed,   \* steps that have a provider_step_id: the first ones
  member,   \* the memberships
  render,   \* step each render pushed to Lemlist is for, by position
  sync,     \* the sync or launch under way
  runs,     \* Lemlist: who started the campaign, or "no" while it is paused
  remote,   \* Lemlist: the shells of the sequence
  lead,     \* Lemlist: its leads
  own,      \* Lemlist: step each personalization of a lead was written for
  request,  \* what each request of an agent has read of its recipient
  faults,   \* history: calls that went wrong
  unseen    \* history: a resumption met a sync or was told by Lemlist, or a
            \* pause was written for a lead Lemlist may send to

lemlist == <<runs, remote, lead, own>>
vars == <<campaign, steps, created, placed, member, render, sync, lemlist,
          request, faults, unseen>>

\* "paused" by an agent or by Lemlist, "held" by a sync (needs_render).
Paused == {"paused", "held"}
Running == {"queued", "active"}
MemberStatuses == {"ready", "completed"} \cup Paused \cup Running

Members == [status : MemberStatuses, step : 0 .. MaxSteps, heard : 0 .. MaxSteps,
            known : BOOLEAN, launched : BOOLEAN]
Renders == [Positions -> Ids \cup {NoId}]
LemlistLeads == [stage : {"none", "review", "launched", "done"},
                 paused : BOOLEAN, at : 0 .. MaxSteps]

NoSync == [pc |-> "idle"]
Syncs == [pc : {"append", "place", "render", "refresh", "launch", "finish"},
          inUse : BOOLEAN, launching : BOOLEAN, unsafe : BOOLEAN,
          placed : 0 .. MaxSteps, member : [Leads -> Members],
          render : [Leads -> Renders], dirty : SUBSET Leads, todo : SUBSET Leads]

NoRequest == [pc |-> "none"]
PendingRequests == [pc : {"call", "write"}, lead : Leads,
                    to : {"paused", "ready"} \cup Running]

TypeOK ==
  /\ campaign \in {"DRAFT", "ACTIVE", "PAUSED"}
  /\ steps \in Seq(Ids) /\ Len(steps) <= MaxSteps
  /\ created \in 0 .. MaxIds
  /\ placed \in 0 .. Len(steps) /\ placed <= Len(remote)
  /\ member \in [Leads -> Members]
  /\ render \in [Leads -> Renders]
  /\ sync \in Syncs \cup {NoSync}
  /\ runs \in {"no", "sync", "agent"}
  /\ remote \in Seq({"live", "parked"}) /\ Len(remote) <= MaxSteps
  /\ lead \in [Leads -> LemlistLeads]
  /\ own \in [Leads -> Renders]
  /\ request \in [Requests -> PendingRequests \cup {NoRequest}]
  /\ faults \in 0 .. MaxFaults
  /\ unseen \in BOOLEAN

\* A campaign whose only step its first sync has placed.
Init ==
  /\ campaign = "DRAFT"
  /\ steps = <<1>> /\ created = 1 /\ placed = 1
  /\ member = [l \in Leads |-> [status |-> "ready", step |-> 0, heard |-> 0,
                                known |-> FALSE, launched |-> FALSE]]
  /\ render = [l \in Leads |-> [k \in Positions |-> NoId]]
  /\ sync = NoSync
  /\ runs = "no"
  /\ remote = <<"live">>
  /\ lead = [l \in Leads |-> [stage |-> "none", paused |-> FALSE, at |-> 0]]
  /\ own = [l \in Leads |-> [k \in Positions |-> NoId]]
  /\ request = [q \in Requests |-> NoRequest]
  /\ faults = 0
  /\ unseen = FALSE

Larger(m, n) == IF m > n THEN m ELSE n

\* A call to Lemlist is answered, fails, or takes effect and is not answered.
Answers == {"ok", "failed", "lost"}

Call(answer) ==
  /\ faults' = IF answer = "ok" THEN faults ELSE faults + 1
  /\ faults' <= MaxFaults

\* The step is a race on this condition: what it relies on has changed, or may.
Race(condition) == unseen' = (unseen \/ condition)

(***************************************************************************)
(* Lemlist.                                                                *)
(***************************************************************************)

\* Lemlist may send to the lead.
Open(l) == lead[l].stage = "launched" /\ ~lead[l].paused

\* Lemlist sends a lead its next step.
Send(l) ==
  LET k == lead[l].at + 1
  IN /\ runs # "no"
     /\ Open(l)
     /\ k <= Len(remote) /\ remote[k] = "live"
     /\ lead' = [lead EXCEPT ![l].at = k]
     /\ UNCHANGED <<campaign, steps, created, placed, member, render, sync, runs,
                    remote, own, faults, unseen, request>>

\* A lead at the end of the sequence may be over for Lemlist.
EndLead(l) ==
  /\ lead[l].stage = "launched" /\ lead[l].at = Len(remote)
  /\ lead' = [lead EXCEPT ![l].stage = "done"]
  /\ UNCHANGED <<campaign, steps, created, placed, member, render, sync, runs,
                 remote, own, faults, unseen, request>>

\* update_step, and create_step or a spare shell for the steps up to n.
ShellsUpTo(n) ==
  [k \in 1 .. Larger(Len(remote), n) |-> IF k <= n THEN "live" ELSE remote[k]]

(***************************************************************************)
(* Events: each is stored once, a SENT moves its membership.               *)
(***************************************************************************)

\* The events of a lead not stored yet, applied to its membership.
Ingested(m, at) ==
  LET status == IF m.status \in {"ready", "queued"} THEN "active" ELSE m.status
  IN CASE at = m.heard -> m
       [] m.status = "completed" -> [m EXCEPT !.heard = at]
       [] OTHER ->
            [m EXCEPT !.heard = at, !.step = Larger(@, at),
               !.status = IF status = "active" /\ at >= Len(steps)
                            THEN "completed" ELSE status]

\* The status a recipient gets back once it runs again.
Resumed(m) == IF m.step > 0 THEN "active" ELSE "queued"

\* A row the sync has written is locked until it commits.
Unlocked(l) == sync.pc # "idle" => l \notin sync.dirty

Webhook(l) ==
  /\ Unlocked(l)
  /\ lead[l].at > member[l].heard
  /\ member' = [member EXCEPT ![l] = Ingested(@, lead[l].at)]
  /\ UNCHANGED <<campaign, steps, created, placed, render, sync, lemlist,
                 faults, unseen, request>>

\* A PAUSED or RESUMED event, or the job: Lemlist has been asked for the lead,
\* and what it told is mirrored, which may not be so any more.
MirrorPause(l, paused) ==
  /\ Unlocked(l)
  /\ member[l].known
  /\ IF paused
       THEN /\ member[l].status \in {"ready"} \cup Running
            /\ member' = [member EXCEPT ![l].status = "paused"]
       ELSE /\ member[l].status \in Paused
            /\ member' = [member EXCEPT ![l].status = Resumed(member[l])]
  /\ Race(~paused \/ Open(l))
  /\ UNCHANGED <<campaign, steps, created, placed, render, sync, lemlist,
                 request, faults>>

(***************************************************************************)
(* The sync.                                                               *)
(***************************************************************************)

\* The provider holds a lead: the sequence only grows at its end.
InUse == \E l \in Leads : member[l].known

\* What a query of the sync finds: its own writes, else what is committed.
Status(s, l) == IF l \in s.dirty THEN s.member[l].status ELSE member[l].status

\* The memberships as the ORM loads them, kept until the end of the sync.
Load(s) ==
  [s EXCEPT !.member = [l \in Leads |-> IF l \in s.dirty THEN @[l] ELSE member[l]]]

InFlight(s) ==
  {l \in Leads : s.member[l].known /\ Status(s, l) \in Running \cup Paused}

\* The steps at Lemlist a lead has not passed and has no email of its own for.
Missing(m, pushed, n) ==
  {k \in 1 .. n : k > m.step /\ pushed[k] # steps[k]}

Outdated(s) ==
  {l \in InFlight(s) : Missing(s.member[l], s.render[l], s.placed) # {}}

ToLaunch(s) ==
  {l \in Leads : s.launching /\ Status(s, l) = "ready" /\ ~s.member[l].launched}

\* The phases follow one another, each through its leads.
Finishing(s) == [s EXCEPT !.pc = "finish", !.todo = {}]
Launching(s) ==
  IF ToLaunch(s) = {} THEN Finishing(s)
                      ELSE [s EXCEPT !.pc = "launch", !.todo = ToLaunch(s)]
Refreshing(s) ==
  IF Outdated(s) = {} THEN Launching(s)
                      ELSE [s EXCEPT !.pc = "refresh", !.todo = Outdated(s)]
Appending(s) ==
  IF s.inUse /\ s.placed < Len(steps) THEN [s EXCEPT !.pc = "append"]
                                      ELSE Refreshing(Load(s))

\* The next lead of the phase, or the next phase.
Advance(s, l) ==
  LET rest == [s EXCEPT !.todo = @ \ {l}]
  IN IF rest.todo # {} THEN rest
     ELSE CASE s.pc = "render" -> IF s.placed < Len(steps) THEN [rest EXCEPT !.pc = "place"]
                                                           ELSE Refreshing(rest)
            [] s.pc = "refresh" -> Launching(rest)
            [] s.pc = "launch" -> Finishing(rest)

\* A request that sets its recipient running again is under way.
Resuming(q) == request[q].pc # "none" /\ request[q].to # "paused"

\* _push_campaign went through, and the events since the last read are applied.
BeginSync(launching) ==
  /\ sync.pc = "idle"
  /\ launching => campaign = "ACTIVE"
  /\ steps # <<>>
  /\ LET n == IF InUse THEN placed ELSE Len(steps)
     IN \E pulled \in {"ok", "failed"} :
          /\ Call(pulled)
          /\ remote' = ShellsUpTo(n)
          /\ runs' = IF ~InUse /\ campaign = "ACTIVE" THEN "sync" ELSE runs
          /\ LET heard == IF pulled = "ok"
                            THEN [l \in Leads |-> Ingested(member[l], lead[l].at)]
                            ELSE member
             IN sync' = Appending(
                  [pc |-> "append", inUse |-> InUse, launching |-> launching,
                   unsafe |-> FALSE, placed |-> n, member |-> heard,
                   render |-> render, todo |-> {},
                   dirty |-> {l \in Leads : heard[l] # member[l]}])
  /\ Race(\E q \in Requests : Resuming(q))
  /\ UNCHANGED <<campaign, steps, created, placed, member, render, lead, own,
                 request>>

\* A call of _push_campaign does not answer: the steps placed before it are
\* committed with the error, or forgotten if the sync dies.
PushFails(launching) ==
  /\ sync.pc = "idle"
  /\ launching => campaign = "ACTIVE"
  /\ LET last == IF InUse THEN placed ELSE Len(steps)
     IN \E n \in 0 .. last, answer \in {"failed", "lost"}, dies \in BOOLEAN :
          /\ Call(answer)
          /\ placed' = IF dies THEN placed ELSE Larger(placed, n)
          /\ remote' = ShellsUpTo(IF answer = "lost" /\ n < last THEN n + 1 ELSE n)
          /\ runs' = IF answer = "lost" /\ n = last /\ ~InUse /\ campaign = "ACTIVE"
                       THEN "sync" ELSE runs
  /\ UNCHANGED <<campaign, steps, created, member, render, sync, lead, own,
                 unseen, request>>

\* The rollback of a sync that dies: what it did at Lemlist stays.
Crash ==
  /\ sync.pc # "idle"
  /\ Call("failed")
  /\ sync' = NoSync
  /\ UNCHANGED <<campaign, steps, created, placed, member, render, lemlist,
                 unseen, request>>

\* _append_steps, first half: the campaign is paused, and so are the leads
\* that completed the sequence and that Lemlist has in progress.
ToHold == {l \in Leads : /\ Status(sync, l) = "completed" /\ sync.member[l].known
                         /\ ~lead[l].paused /\ lead[l].stage # "done"}

HoldCompleted ==
  /\ sync.pc = "append"
  /\ runs' = IF campaign = "ACTIVE" THEN "no" ELSE runs
  /\ \E failed \in SUBSET ToHold : \E lost \in SUBSET failed :
       /\ faults' = faults + Cardinality(failed)
       /\ faults' <= MaxFaults
       /\ lead' = [l \in Leads |-> IF l \in (ToHold \ failed) \cup lost
                                     THEN [lead[l] EXCEPT !.paused = TRUE] ELSE lead[l]]
       /\ sync' = [Load(sync) EXCEPT !.pc = "place", !.unsafe = failed # {}]
  /\ UNCHANGED <<campaign, steps, created, placed, member, render, remote, own,
                 unseen, request>>

\* A new step is not written yet, or the campaign could not be paused or read.
AppendNothing ==
  /\ sync.pc = "append"
  /\ \/ Call("ok") /\ UNCHANGED runs
     \/ \E answer \in {"failed", "lost"} :
          /\ Call(answer)
          /\ runs' = IF answer = "lost" /\ campaign = "ACTIVE" THEN "no" ELSE runs
  /\ sync' = Refreshing(Load(sync))
  /\ UNCHANGED <<campaign, steps, created, placed, member, render, remote, lead,
                 own, unseen, request>>

\* _place_step: the next step has its shell; who can still reach it is rendered.
PlaceStep ==
  /\ sync.pc = "place"
  /\ LET k == sync.placed + 1
         new == [sync EXCEPT !.placed = k, !.pc = "render",
                   !.todo = {l \in InFlight(sync) : sync.member[l].step < k}]
     IN \E answer \in Answers :
          /\ Call(answer)
          /\ remote' = IF answer = "failed" THEN remote ELSE ShellsUpTo(k)
          /\ sync' = IF answer # "ok" THEN Refreshing(sync)
                     ELSE IF new.todo = {} THEN Advance(new, CHOOSE l \in Leads : TRUE)
                     ELSE new
  /\ UNCHANGED <<campaign, steps, created, placed, member, render, runs, lead,
                 own, unseen, request>>

\* set_step_content for the steps K of a lead: Lemlist refuses those it has
\* reached, which the membership then counts as sent.
Accepted(l, K) == {k \in K : lead[l].at < k}
Written(r, K) == [k \in Positions |-> IF k \in K THEN steps[k] ELSE r[k]]
Personalize(l, K) == own' = [own EXCEPT ![l] = Written(@, Accepted(l, K))]

\* Mutant: a refused email counts as pushed.
RenderedAll(s, l, K) ==
  [s EXCEPT !.render[l] = Written(@, K),
            !.member[l].step = Max({@} \cup (K \ Accepted(l, K)))]

Rendered(s, l, K) ==
  [s EXCEPT !.render[l] = Written(@, Accepted(l, K)),
            !.member[l].step = Max({@} \cup (K \ Accepted(l, K)))]

\* The sync writes the status of a membership.
Mark(s, l, status) ==
  [s EXCEPT !.member[l].status = status, !.dirty = @ \cup {l}]

PauseLead(l) == lead' = [lead EXCEPT ![l].paused = TRUE]
ResumeLead(l) == lead' = [lead EXCEPT ![l].paused = FALSE]

\* Mutant: a lead beyond the batch of this sync is left for the next one.
HoldNobody(l) ==
  /\ sync' = Advance(sync, l)
  /\ UNCHANGED <<lead, faults>>

\* _hold: a lead whose email is not there is paused, unless it is already.
Hold(l) ==
  IF sync.member[l].status \in Paused
    THEN /\ sync' = Advance(sync, l)
         /\ UNCHANGED <<lead, faults>>
    ELSE \E answer \in Answers :
           /\ Call(answer)
           /\ IF answer = "failed" THEN UNCHANGED lead ELSE PauseLead(l)
           /\ sync' = Advance(IF answer = "ok" THEN Mark(sync, l, "held")
                                               ELSE [sync EXCEPT !.unsafe = TRUE], l)

\* _render_new_step: a lead gets its email for the new step, or is held: not
\* rendered, refused by Lemlist, or beyond the batch.
RenderNewStep(l) ==
  /\ sync.pc = "render" /\ l \in sync.todo
  /\ \/ /\ Personalize(l, {sync.placed})
        /\ sync' = Advance(Rendered(sync, l, {sync.placed}), l)
        /\ UNCHANGED <<lead, faults>>
     \/ /\ Hold(l)
        /\ UNCHANGED own
  /\ UNCHANGED <<campaign, steps, created, placed, member, render, runs,
                 remote, unseen, request>>

\* Who a sync resumes: it held the lead, and has all its emails now.
Released(s, l) ==
  Mark(s, l, Resumed(s.member[l]))

Resumes(l) == sync.member[l].status = "held"

\* _refresh_in_flight: a lead gets the emails that changed, then its resumption
\* if a sync held it.  It may fail on the way, or wait for the next sync.
RefreshLead(l) ==
  /\ sync.pc = "refresh" /\ l \in sync.todo
  /\ LET K == Missing(sync.member[l], sync.render[l], sync.placed)
     IN \/ /\ sync' = Advance(sync, l)
           /\ UNCHANGED <<lead, own, faults>>
        \/ /\ Personalize(l, K)
           /\ IF Resumes(l)
                THEN \E answer \in Answers :
                       /\ Call(answer)
                       /\ IF answer = "failed" THEN UNCHANGED lead ELSE ResumeLead(l)
                       /\ sync' = Advance(IF answer = "ok"
                                            THEN Released(Rendered(sync, l, K), l)
                                            ELSE Rendered(sync, l, K), l)
                ELSE /\ sync' = Advance(Rendered(sync, l, K), l)
                     /\ UNCHANGED <<lead, faults>>
        \/ \E n \in 1 .. sync.placed :
             /\ Call("failed")
             /\ Personalize(l, K \cap 1 .. n)
             /\ sync' = Advance(Rendered(sync, l, K \cap 1 .. n), l)
             /\ UNCHANGED lead
  /\ UNCHANGED <<campaign, steps, created, placed, member, render, runs,
                 remote, unseen, request>>

\* _push_ready, _push_member: a READY lead is added, or the one added before
\* taken up, each step personalized, and the lead launched.
Known(s, l) == [s EXCEPT !.member[l].known = TRUE]
Queued(s, l) ==
  Mark([s EXCEPT !.member[l].launched = TRUE], l, "queued")

AddLead(l, stage) ==
  lead' = [lead EXCEPT ![l].stage = IF @ \in {"none", "review"} THEN stage ELSE @]

PushMember(l) ==
  /\ sync.pc = "launch" /\ l \in sync.todo
  /\ LET K == {k \in DOMAIN steps : sync.render[l][k] # steps[k]}
         stops == {k \in K : k > sync.placed \/ lead[l].at >= k}
         upTo(n) == {k \in K : k <= n /\ \A j \in stops : k < j}
     IN \/ \* refused by the rules, not rendered, or beyond the batch
           /\ sync' = Advance(sync, l)
           /\ UNCHANGED <<lead, own, faults>>
        \/ \* add_contact fails, or its answer is lost
           /\ ~sync.member[l].known
           /\ \E answer \in {"failed", "lost"} :
                /\ Call(answer)
                /\ IF answer = "lost" THEN AddLead(l, "review") ELSE UNCHANGED lead
           /\ sync' = Advance(sync, l)
           /\ UNCHANGED own
        \/ \* STEP_MISSING, STEP_REACHED, or a call that fails before the launch
           \E n \in 0 .. Len(steps) :
             /\ Call(IF stops # {} /\ n = Len(steps) THEN "ok" ELSE "failed")
             /\ AddLead(l, "review")
             /\ Personalize(l, upTo(n))
             /\ sync' = Advance(Known(Rendered(sync, l, upTo(n)), l), l)
        \/ /\ stops = {}
           /\ \E answer \in {"ok", "lost"} :
                /\ Call(answer)
                /\ sync' = Advance(IF answer = "ok"
                                     THEN Queued(Known(Rendered(sync, l, K), l), l)
                                     ELSE Known(Rendered(sync, l, K), l), l)
           /\ AddLead(l, "launched")
           /\ Personalize(l, K)
  /\ UNCHANGED <<campaign, steps, created, placed, member, render, runs,
                 remote, unseen, request>>

\* Mutant: only a pause that failed stops the campaign, not the missing emails.
ExposedIgnored(s) == s.unsafe

\* _exposed, and the pauses of this sync that failed.
Unsafe(s) ==
  \/ s.unsafe
  \/ \E l \in InFlight(s) : s.member[l].status \in Running
                              /\ Missing(s.member[l], s.render[l], s.placed) # {}

\* _run_if_safe, then the commit: a row the sync did not write stays as others
\* left it, and of two steps sent the later is kept.
Finish ==
  /\ sync.pc = "finish"
  /\ IF sync.inUse /\ campaign = "ACTIVE"
       THEN \E answer \in Answers :
              /\ Call(answer)
              /\ runs' = IF answer = "failed" THEN runs
                         ELSE IF Unsafe(sync) THEN "no" ELSE "sync"
       ELSE UNCHANGED <<runs, faults>>
  /\ member' = [l \in Leads |->
       [sync.member[l] EXCEPT !.status = Status(sync, l),
          !.step = Larger(@, member[l].step), !.heard = Larger(@, member[l].heard)]]
  /\ render' = sync.render
  /\ placed' = sync.placed
  /\ sync' = NoSync
  /\ UNCHANGED <<campaign, steps, created, remote, lead, own, unseen, request>>

(***************************************************************************)
(* Agents: the campaign and its steps, under the lock of the campaign row. *)
(***************************************************************************)

\* _transition: Lemlist first; a refusal or a lost answer changes nothing here.
SetStatus(target) ==
  /\ sync.pc = "idle"
  /\ <<campaign, target>> \in
       {<<"DRAFT", "ACTIVE">>, <<"ACTIVE", "PAUSED">>, <<"PAUSED", "ACTIVE">>}
  /\ target = "ACTIVE" => steps # <<>>
  /\ \E answer \in Answers :
       /\ Call(answer)
       /\ runs' = IF answer = "failed" THEN runs
                  ELSE IF target = "ACTIVE" THEN "agent" ELSE "no"
       /\ campaign' = IF answer = "ok" THEN target ELSE campaign
  /\ UNCHANGED <<steps, created, placed, member, render, sync, remote, lead,
                 own, unseen, request>>

\* create_step: at the end once the sequence is in use, anywhere before that.
CreateStep(k) ==
  /\ sync.pc = "idle"
  /\ Len(steps) < MaxSteps /\ created < MaxIds
  /\ k \in 1 .. Len(steps) + 1
  /\ InUse => k = Len(steps) + 1
  /\ created' = created + 1
  /\ steps' = InsertAt(steps, k, created')
  /\ UNCHANGED <<campaign, placed, member, render, sync, lemlist, faults,
                 unseen, request>>

\* Mutant: the step leaves Lemlist, and the count of the steps there stays.
DropFreeKept(k) ==
  /\ ~InUse
  /\ remote' = IF placed = Len(steps) THEN RemoveAt(remote, placed) ELSE remote
  /\ UNCHANGED <<placed, member>>

\* _drop_free: the other steps take the first shells, the last one is deleted
\* at Lemlist, which refuses while it holds a lead.
DropFree(k) ==
  /\ ~InUse
  /\ IF placed = Len(steps)
       THEN /\ \A l \in Leads : lead[l].stage = "none"
            /\ remote' = RemoveAt(remote, placed)
            /\ placed' = placed - 1
       ELSE UNCHANGED <<remote, placed>>
  /\ UNCHANGED member

\* Recipients sent the new last step have finished.
CompleteWaiting(last) ==
  [l \in Leads |-> IF /\ member[l].status \in {"active"} \cup Paused
                      /\ member[l].step >= last
                     THEN [member[l] EXCEPT !.status = "completed"] ELSE member[l]]

\* _drop_in_use: a step that is not at Lemlist, or the last one there if
\* nobody got it, which is parked.
DropInUse(k) ==
  /\ InUse
  /\ IF k > placed
       THEN UNCHANGED <<remote, placed, member>>
       ELSE /\ k > 1 /\ k = placed
            /\ \A l \in Leads : member[l].step < k
            /\ remote' = [remote EXCEPT ![k] = "parked"]
            /\ placed' = placed - 1
            /\ member' = CompleteWaiting(k - 1)

DeleteStep(k) ==
  /\ sync.pc = "idle"
  /\ k \in DOMAIN steps
  /\ DropFree(k) \/ DropInUse(k)
  /\ steps' = RemoveAt(steps, k)
  /\ UNCHANGED <<campaign, created, render, sync, runs, lead, own, faults,
                 unseen, request>>

(***************************************************************************)
(* Agents: one recipient, without the lock of the campaign row.  What a    *)
(* request has read of the recipient stands until it writes.  A batch is a *)
(* request for each of its recipients, that begins with the batch: it      *)
(* reads the rows and the steps once.                                      *)
(***************************************************************************)

\* Lemlist is called when it has the lead.
Asked(l, to) ==
  [pc |-> IF member[l].known THEN "call" ELSE "write", lead |-> l, to |-> to]

BeginPause(q, l) ==
  /\ request[q] = NoRequest
  /\ member[l].status \in {"ready"} \cup Running
  /\ request' = [request EXCEPT ![q] = Asked(l, "paused")]
  /\ UNCHANGED <<campaign, steps, created, placed, member, render, sync, lemlist,
                 faults, unseen>>

\* Refused while a step at Lemlist has no email of the recipient's own.
BeginResume(q, l) ==
  /\ request[q] = NoRequest
  /\ member[l].status \in Paused
  /\ member[l].known => Missing(member[l], render[l], placed) = {}
  /\ request' = [request EXCEPT ![q] =
       Asked(l, IF member[l].known THEN Resumed(member[l]) ELSE "ready")]
  /\ Race(sync.pc # "idle")
  /\ UNCHANGED <<campaign, steps, created, placed, member, render, sync, lemlist,
                 faults>>

\* _lead_at_provider: when the call fails, the recipient is left as it is.
CallLemlist(q) ==
  /\ request[q].pc = "call"
  /\ LET l == request[q].lead
     IN \E answer \in Answers :
          /\ Call(answer)
          /\ lead' = IF answer = "failed" THEN lead
                     ELSE [lead EXCEPT ![l].paused = request[q].to = "paused"]
          /\ request' = [request EXCEPT ![q] =
               IF answer = "ok" THEN [@ EXCEPT !.pc = "write"] ELSE NoRequest]
  /\ UNCHANGED <<campaign, steps, created, placed, member, render, sync, runs,
                 remote, own, unseen>>

\* The commit of the batch, over what the row has become since it was read.
WriteStatus(q) ==
  /\ request[q].pc = "write"
  /\ LET l == request[q].lead
     IN /\ Unlocked(l)
        /\ member' = [member EXCEPT ![l].status = request[q].to]
        /\ Race(request[q].to = "paused" /\ Open(l))
  /\ request' = [request EXCEPT ![q] = NoRequest]
  /\ UNCHANGED <<campaign, steps, created, placed, render, sync, lemlist, faults>>

Next ==
  \/ \E l \in Leads :
       \/ Send(l) \/ EndLead(l) \/ Webhook(l)
       \/ \E paused \in BOOLEAN : MirrorPause(l, paused)
       \/ RenderNewStep(l) \/ RefreshLead(l) \/ PushMember(l)
  \/ \E q \in Requests :
       \/ \E l \in Leads : BeginPause(q, l) \/ BeginResume(q, l)
       \/ CallLemlist(q) \/ WriteStatus(q)
  \/ \E launching \in BOOLEAN : BeginSync(launching) \/ PushFails(launching)
  \/ HoldCompleted \/ AppendNothing \/ PlaceStep \/ Finish \/ Crash
  \/ \E target \in {"ACTIVE", "PAUSED"} : SetStatus(target)
  \/ \E k \in Positions : CreateStep(k) \/ DeleteStep(k)

Spec == Init /\ [][Next]_vars

(***************************************************************************)
(* Properties.                                                             *)
(***************************************************************************)

\* The step whose email a lead is sent, and whether it is its own email.
Sent(l, k) == lead'[l].at = k /\ lead[l].at # k
OwnEmail(l, k) == k \in DOMAIN steps /\ own[l][k] = steps[k]

\* While every call is answered, nobody is ever sent a placeholder or the
\* email of a deleted step, however syncs, launches, edits of the sequence,
\* pauses, resumptions and sendings alternate.  Until `unseen` tells of one of
\* three races, which the code does not prevent: the request of a resumption
\* overlaps a sync, although the docstring of resume says it is refused while a
\* step has no email of the recipient's own; a pause is written, or mirrored,
\* for a lead that Lemlist runs again, or was launched since; and Lemlist tells
\* of a lead that somebody resumed there.
OwnEmailsOnly ==
  [][\A l \in Leads, k \in Positions :
       Sent(l, k) /\ faults = 0 /\ ~unseen => OwnEmail(l, k)]_vars

\* When calls fail, lose their answers or the sync dies, a wrong email goes to
\* a lead or a step Nidria does not know of, to a lead that completed the
\* sequence or whose resumption was lost, or follows a restart by hand: never
\* to a lead that a sync looked at and let run, the same races apart.
Excused(l, k) ==
  \/ k > placed \/ ~member[l].launched
  \/ member[l].status \in {"completed"} \cup Paused
  \/ runs = "agent"

SafeLeadsGetTheirOwn ==
  [][\A l \in Leads, k \in Positions :
       Sent(l, k) /\ ~unseen => OwnEmail(l, k) \/ Excused(l, k)]_vars

\* What Nidria counts as pushed is at Lemlist, whatever was lost or undone:
\* else no sync would ever push it again.
RenderedIsPersonalized ==
  \A l \in Leads : \A k \in DOMAIN steps :
    render[l][k] = steps[k] => own[l][k] = steps[k]
=============================================================================
