--------------------------- MODULE CampaignEvents ---------------------------
(***************************************************************************)
(* What Lemlist tells of one client, and what its memberships and the      *)
(* opposition list of the agency become: the ingestion of events and the   *)
(* Email Sync job of src/email_campaigns/email_sync.py, the gestures on a  *)
(* recipient of email_manager.py and the rules of readiness.py.            *)
(*                                                                         *)
(* An activity of Lemlist reaches Nidria by its webhook, at any time, any  *)
(* number of times or never, and by the job, which reads each campaign     *)
(* from its checkpoint in one transaction that may fail.  Both lock the    *)
(* membership.  A gesture of an agent reads it without a lock, calls       *)
(* Lemlist, then writes: it may write over what came between.              *)
(***************************************************************************)
EXTENDS Integers, Sequences, FiniteSets, SequencesExt

CONSTANTS
  Members,    \* the membership of the client in each campaign
  MaxLog      \* bound: activities of all its leads

ASSUME BoundAssumption == MaxLog \in Nat
ASSUME MemberAssumption == "contact" \notin Members

VARIABLES
  member,     \* EmailCampaignMember: status, started_at and removed_at as facts
  list,       \* EmailSuppression: the reason the client's address is listed
  stored,     \* EmailProviderEvent: the activities on file
  checkpoint, \* EmailCampaign.last_activity_sync_at, as a place in the log
  job,        \* the transaction of the job
  agent,      \* the gesture under way
  lead,       \* Lemlist: the lead of each membership
  log,        \* Lemlist: the activities of each lead, in order
  whole,      \* Lemlist: the whole contact unsubscribed
  overlap     \* history: a gesture wrote over what it had not read

database == <<member, list, stored, checkpoint>>
lemlist == <<lead, log, whole>>
vars == <<database, job, agent, lemlist, overlap>>

Live == {"ready", "queued", "active", "paused"}
Blocking == {"bounced", "unsubscribed"}
Terminal == Blocking \cup {"replied", "completed", "removed"}

\* The first email, the last one, and what follows.
Kinds == {"sent", "last", "replied", "bounced", "unsubscribed"}
Contact == <<"contact", "unsubscribed">> \* of the whole contact, in no campaign
Events == (Members \X Kinds) \cup {Contact}

MemberRows == [status : {"none"} \cup Live \cup Terminal, started : BOOLEAN,
               removed : BOOLEAN]
Leads == [present : BOOLEAN, paused : BOOLEAN, unsubscribed : BOOLEAN]

NoLead == [present |-> FALSE, paused |-> FALSE, unsubscribed |-> FALSE]
NoJob == [pc |-> "idle"]
NoGesture == [op |-> "none"]
Ops == {"add", "launch", "pause", "resume", "remove", "move"}
LockingOps == {"add", "launch"} \* these lock the campaign, as the job does

\* The job, or a Sync asked for, at one campaign: the leads it listed.
Jobs == {NoJob} \cup [pc : {"listed"}, m : Members, from : Nat, seen : Leads]

TypeOK ==
  /\ member \in [Members -> MemberRows]
  /\ list \in {"no"} \cup Blocking
  /\ stored \in SUBSET Events
  /\ checkpoint \in [Members -> Nat]
  /\ \A m \in Members : checkpoint[m] <= Len(log[m])
  /\ job \in Jobs
  /\ agent = NoGesture \/ (agent.op \in Ops /\ agent.m \in Members)
  /\ lead \in [Members -> Leads]
  /\ \A m \in Members : lead[m].present => member[m].status # "none" /\ ~member[m].removed
  /\ log \in [Members -> Seq(Kinds)]
  /\ \A m \in Members : IsInjective(log[m])
  /\ whole \in BOOLEAN
  /\ overlap \in BOOLEAN

Init ==
  /\ member = [m \in Members |->
                 [status |-> "none", started |-> FALSE, removed |-> FALSE]]
  /\ list = "no"
  /\ stored = {}
  /\ checkpoint = [m \in Members |-> 0]
  /\ job = NoJob
  /\ agent = NoGesture
  /\ lead = [m \in Members |-> NoLead]
  /\ log = [m \in Members |-> <<>>]
  /\ whole = FALSE
  /\ overlap = FALSE

(***************************************************************************)
(* Lemlist.                                                                *)
(***************************************************************************)

Happened(m) == Range(log[m])
Stops == {"last", "replied", "bounced", "unsubscribed"}

Activities == FoldSet(LAMBDA m, n : n + Len(log[m]), 0, Members)

\* An email leaves while the sequence runs; the answers come whenever, even
\* once the lead was removed.
Happens(m, kind) ==
  /\ kind \notin Happened(m) /\ Activities < MaxLog
  /\ CASE kind = "sent" -> /\ lead[m].present /\ ~lead[m].paused
                           /\ ~lead[m].unsubscribed
       [] kind = "last" -> /\ lead[m].present /\ ~lead[m].paused
                           /\ ~lead[m].unsubscribed
                           /\ "sent" \in Happened(m) /\ Happened(m) \cap Stops = {}
       [] OTHER -> "sent" \in Happened(m)
  /\ log' = [log EXCEPT ![m] = Append(@, kind)]
  /\ lead' = IF kind = "unsubscribed" /\ lead[m].present
               THEN [lead EXCEPT ![m].unsubscribed = TRUE] ELSE lead
  /\ UNCHANGED <<database, job, agent, whole, overlap>>

\* The contact unsubscribes from everything.
ContactUnsubscribes ==
  /\ ~whole
  /\ \E m \in Members : "sent" \in Happened(m)
  /\ whole' = TRUE
  /\ lead' = [m \in Members |-> [lead[m] EXCEPT !.unsubscribed = lead[m].present]]
  /\ UNCHANGED <<database, job, agent, log, overlap>>

(***************************************************************************)
(* Ingestion: an activity is stored once, and applied when it is stored.   *)
(***************************************************************************)

Ended(row) == row.removed \/ row.status \in Terminal

\* Mutant: a reply lifts the block.
ReplyLiftsBlock(row, kind) ==
  CASE kind = "sent" /\ ~Ended(row) /\ row.status \in {"ready", "queued"} -> "active"
    [] kind = "last" /\ ~Ended(row) /\ row.status # "paused" -> "completed"
    [] kind = "replied" /\ ~row.removed -> "replied"
    [] kind = "bounced" /\ row.status # "unsubscribed" -> "bounced"
    [] kind = "unsubscribed" -> "unsubscribed"
    [] OTHER -> row.status

\* _apply: a blocked membership stays so, and an unsubscribe outranks a bounce.
Told(row, kind) ==
  CASE kind = "sent" /\ ~Ended(row) /\ row.status \in {"ready", "queued"} -> "active"
    [] kind = "last" /\ ~Ended(row) /\ row.status # "paused" -> "completed"
    [] kind = "replied" /\ ~row.removed /\ row.status \notin Blocking -> "replied"
    [] kind = "bounced" /\ row.status # "unsubscribed" -> "bounced"
    [] kind = "unsubscribed" -> "unsubscribed"
    [] OTHER -> row.status

\* Mutant: the last reason told is the one kept.
LastReasonWins(listed, reason) == IF reason = "no" THEN listed ELSE reason

\* suppress: the address is listed, or stays so, for the stronger reason.
Suppressed(listed, reason) ==
  IF reason = "no" \/ listed = "unsubscribed" THEN listed ELSE reason

Ingest(w, event) ==
  LET m == event[1]
      kind == event[2]
      row == w.member[m]
      status == Told(row, kind)
      started == row.started \/ (kind \in {"sent", "last"} /\ ~Ended(row))
  IN IF event \in w.stored THEN w
     ELSE [member |-> [w.member EXCEPT
                         ![m] = [row EXCEPT !.status = status, !.started = started]],
           list |-> Suppressed(w.list, IF kind \in Blocking THEN status ELSE "no"),
           stored |-> w.stored \cup {event}]

World == [member |-> member, list |-> list, stored |-> stored]
Becomes(w) == member' = w.member /\ list' = w.list /\ stored' = w.stored

Webhook(m, kind) ==
  /\ kind \in Happened(m) /\ <<m, kind>> \notin stored
  /\ Becomes(Ingest(World, <<m, kind>>))
  /\ UNCHANGED <<checkpoint, job, agent, lemlist, overlap>>

\* member_for_contact: a live membership, else an open one, else any.
Filed ==
  LET added == {m \in Members : member[m].status # "none"}
      live == {m \in added : member[m].status \in Live}
      open == {m \in added : ~member[m].removed}
  IN IF live # {} THEN live ELSE IF open # {} THEN open ELSE added

\* _unsubscribe_contact: the live memberships of the contact end with it.
ContactWebhook ==
  /\ whole /\ Contact \notin stored
  /\ \E filed \in Filed :
       LET told == {m \in Members : m = filed \/ member[m].status \in Live}
       IN member' = [m \in Members |->
                       IF m \in told THEN [member[m] EXCEPT !.status = "unsubscribed"]
                       ELSE member[m]]
  /\ list' = Suppressed(list, "unsubscribed")
  /\ stored' = stored \cup {Contact}
  /\ UNCHANGED <<checkpoint, job, agent, lemlist, overlap>>

(***************************************************************************)
(* The job: reconcile_campaign, one campaign after the other.              *)
(***************************************************************************)

\* list_contacts; `started` was taken before.
ReadLeads(m) ==
  /\ job = NoJob
  /\ agent.op \in LockingOps => agent.m # m
  /\ job' = [pc |-> "listed", m |-> m, from |-> Len(log[m]), seen |-> lead[m]]
  /\ UNCHANGED <<database, agent, lemlist, overlap>>

\* set_paused: the pause Lemlist tells.
Mirrored(row, paused) ==
  CASE paused /\ row.status \in Live -> "paused"
    [] ~paused /\ row.status = "paused" -> IF row.started THEN "active" ELSE "queued"
    [] OTHER -> row.status

\* _reconcile_leads: the word of the listing on a membership that is not over.
Heard(w) ==
  LET m == job.m
      row == w.member[m]
      heard == row.status \in Live /\ job.seen.present /\ ~row.removed
  IN CASE heard /\ job.seen.unsubscribed ->
            [w EXCEPT !.member[m].status = "unsubscribed",
                      !.list = Suppressed(@, "unsubscribed")]
       [] heard /\ ~job.seen.unsubscribed ->
            [w EXCEPT !.member[m].status = Mirrored(row, job.seen.paused)]
       [] OTHER -> w

\* sync_campaign and ingest: the activities since the checkpoint, in order.
IngestSince(w) ==
  LET m == job.m
      after[n \in checkpoint[m] .. Len(log[m])] ==
        IF n = checkpoint[m] THEN w ELSE Ingest(after[n - 1], <<m, log[m][n]>>)
  IN after[Len(log[m])]

\* The rows are locked from here to the commit: one step.
Reconcile ==
  /\ job.pc = "listed"
  /\ Becomes(IngestSince(Heard(World)))
  /\ checkpoint' = [checkpoint EXCEPT ![job.m] = job.from]
  /\ job' = NoJob
  /\ UNCHANGED <<agent, lemlist, overlap>>

\* Mutant: the checkpoint moves on, whatever the read came to.
FailAndMoveOn ==
  /\ job.pc = "listed"
  /\ job' = NoJob
  /\ checkpoint' = [checkpoint EXCEPT ![job.m] = job.from]
  /\ UNCHANGED <<member, list, stored, agent, lemlist, overlap>>

\* A read fails: nothing of this run is kept for the campaign.
FailJob ==
  /\ job.pc = "listed"
  /\ job' = NoJob
  /\ UNCHANGED <<database, agent, lemlist, overlap>>

(***************************************************************************)
(* The gestures of an agent, one in flight: rows read without a lock, then *)
(* the call to Lemlist, then the write.                                    *)
(***************************************************************************)

\* durable_block and _live_elsewhere: the rules every enrolment asks.
Blocked == list # "no" \/ \E m \in Members : member[m].status \in Blocking
LiveElsewhere(m) == \E n \in Members \ {m} : member[n].status \in Live

Allowed(op, m, to) ==
  LET row == member[m]
  IN CASE op = "add" -> row.status = "none" /\ ~Blocked /\ ~LiveElsewhere(m)
       [] op = "launch" -> row.status = "ready" /\ ~Blocked /\ ~LiveElsewhere(m)
       [] op = "pause" -> row.status \in {"ready", "queued", "active"}
       [] op = "resume" -> row.status = "paused"
       [] op = "remove" -> row.status # "none" /\ ~row.removed
       [] op = "move" -> /\ row.status # "none" /\ ~Blocked /\ ~LiveElsewhere(m)
                         /\ m # to /\ member[to].status = "none"

Begin(op, m, to) ==
  /\ agent = NoGesture
  /\ op # "move" => to = m
  /\ Allowed(op, m, to)
  /\ op \in LockingOps /\ job # NoJob => job.m # m
  /\ agent' = [op |-> op, m |-> m, to |-> to, read |-> member[m], list |-> list]
  /\ UNCHANGED <<database, job, lemlist, overlap>>

\* The call to Lemlist fails.
Abandon ==
  /\ agent # NoGesture
  /\ agent' = NoGesture
  /\ UNCHANGED <<database, job, lemlist, overlap>>

\* What the gesture writes over was not what it read.
OverUnread ==
  \/ member[agent.m] # agent.read
  \/ agent.op \in {"add", "launch", "move"} /\ list # agent.list

Written(status) == [member EXCEPT ![agent.m].status = status]

\* The write of a gesture: the rows, the list, and what Lemlist now holds.
Ends(rows, listed, leads) ==
  /\ agent # NoGesture
  /\ member' = rows /\ list' = listed /\ lead' = leads
  /\ overlap' = (overlap \/ OverUnread)
  /\ agent' = NoGesture
  /\ UNCHANGED <<stored, checkpoint, job, log, whole>>

Add == agent.op = "add" /\ Ends(Written("ready"), list, lead)

\* _push_member: Lemlist refuses an unsubscribed address, and one that is a
\* lead of another campaign.
Launch ==
  LET m == agent.m
      refused == whole \/ \E n \in Members : "unsubscribed" \in Happened(n)
  IN /\ agent.op = "launch"
     /\ \A n \in Members : ~lead[n].present
     /\ IF refused
          THEN Ends(Written("unsubscribed"), Suppressed(list, "unsubscribed"), lead)
          ELSE Ends(Written("queued"), list, [lead EXCEPT ![m].present = TRUE])

Paused(paused) ==
  IF lead[agent.m].present THEN [lead EXCEPT ![agent.m].paused = paused] ELSE lead

Pause == agent.op = "pause" /\ Ends(Written("paused"), list, Paused(TRUE))

Resume ==
  /\ agent.op = "resume"
  /\ Ends(Written(CASE ~lead[agent.m].present -> "ready"
                    [] lead[agent.m].present /\ agent.read.started -> "active"
                    [] OTHER -> "queued"), list, Paused(FALSE))

\* _end keeps the status of a blocked membership, as it was read.
Over(added) ==
  [n \in Members |->
     CASE n = agent.m -> [member[n] EXCEPT !.removed = TRUE,
                            !.status = IF agent.read.status \in Blocking THEN @ ELSE "removed"]
       [] n \in added -> [member[n] EXCEPT !.status = "ready"]
       [] OTHER -> member[n]]

\* Mutant: the lead of an ended membership is left at Lemlist.
EndLeavesLead(op, added) ==
  /\ agent.op = op
  /\ Ends(Over(added), list,
          IF agent.read.status \in Terminal THEN lead ELSE [lead EXCEPT ![agent.m] = NoLead])

End(op, added) ==
  /\ agent.op = op
  /\ Ends(Over(added), list, [lead EXCEPT ![agent.m] = NoLead])

TakeOut == End("remove", {})
Move == End("move", {agent.to})

Finish == Add \/ Launch \/ Pause \/ Resume \/ TakeOut \/ Move

Next ==
  \/ \E m \in Members, kind \in Kinds : Happens(m, kind) \/ Webhook(m, kind)
  \/ ContactUnsubscribes \/ ContactWebhook
  \/ \E op \in Ops, m \in Members, to \in Members : Begin(op, m, to)
  \/ Finish \/ Abandon
  \/ (\E m \in Members : ReadLeads(m)) \/ Reconcile \/ FailJob

\* The job comes back to every campaign, its read of one does not fail for
\* ever, and a gesture ends.
Fairness ==
  /\ \A m \in Members : SF_vars(ReadLeads(m)) /\ SF_vars(Reconcile /\ job.m = m)
  /\ WF_vars(Finish \/ Abandon)

Spec == Init /\ [][Next]_vars /\ Fairness

(***************************************************************************)
(* Properties.                                                             *)
(***************************************************************************)

\* In whatever order Lemlist's activities are applied, and however often
\* they are told, a membership no gesture wrote over ends where the gravest
\* one puts it: an unsubscribe above a bounce, both above a reply, and no
\* bounce shows that Lemlist did not tell (email_sync.py:1003-1033).
StatusFollowsEvents ==
  overlap \/
  \A m \in Members :
    LET row == member[m]
        told == {kind \in Kinds : <<m, kind>> \in stored}
    IN /\ "unsubscribed" \in told => row.status = "unsubscribed"
       /\ "bounced" \in told => row.status \in Blocking
       /\ "replied" \in told /\ ~row.removed => row.status \in Blocking \cup {"replied"}
       /\ row.status = "bounced" => "bounced" \in told
       /\ Contact \in stored => row.status \notin Live

\* The list of the agency never says less than its memberships and its
\* activities: whoever unsubscribed is listed as unsubscribed, whoever
\* bounced is listed, whatever a gesture wrote over the status since
\* (suppression.py:8, email_repository.py:304).
OppositionIsComplete ==
  /\ (\E m \in Members : member[m].status = "unsubscribed") => list = "unsubscribed"
  /\ (\E event \in stored : event[2] = "unsubscribed") => list = "unsubscribed"
  /\ (\E m \in Members : member[m].status = "bounced") => list # "no"
  /\ (\E event \in stored : event[2] = "bounced") => list # "no"

\* Every webhook lost, reads of the job failed: an unsubscribe from a
\* campaign still reaches the list, and no lead that unsubscribed stays a
\* running membership (email_sync.py:1248-1329, 1429-1433).
OppositionArrives ==
  []<> /\ (\E m \in Members : "unsubscribed" \in Happened(m)) => list = "unsubscribed"
       /\ \A m \in Members :
            lead[m].present /\ lead[m].unsubscribed /\ ~member[m].removed
              => member[m].status \notin Live
=============================================================================
