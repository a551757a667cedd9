----------------------------- MODULE Reminders -----------------------------
(***************************************************************************)
(* The reminders of one live case: the gestures of the agency              *)
(* (src/reminders/reminders_manager.py), the two pipelines that create and *)
(* send them (src/reminders/reminders_jobs.py) and the wrapper that runs   *)
(* the pipelines (src/core/job_wrapper.py).                                *)
(*                                                                         *)
(* A gesture reads the row and writes it later, without a lock.  A tick of *)
(* the dispatcher selects its rows FOR UPDATE SKIP LOCKED, but every line  *)
(* it logs is a COMMIT: the first one gives all its locks back, and what   *)
(* the tick has read stays in its memory, where another run (the scheduler *)
(* starts one at a time, an agent any number by hand) may take the same    *)
(* rows.  Every approved reminder is due.                                  *)
(***************************************************************************)
EXTENDS Naturals, FiniteSets

CONSTANTS
  Rows,        \* reminders of the case
  Automatic,   \* those the auto_reminders pipeline creates
  WhatsApp,    \* those the dispatcher never takes
  Silent,      \* those sent without a mail: in-app, or client mail turned off
  Groups,      \* rows that share a mail: automatic ones for one recipient
  Steps, NoStep, StepOf,  \* the step each row is about, or none
  MaxAgents,   \* bound: concurrent requests of the agency
  MaxTicks,    \* bound: concurrent runs of the dispatcher
  Editable,    \* bound: rows the agency edits
  Contended,   \* bound: rows on which requests of the agency overlap
  MaxEdits,    \* bound: edits of each of them
  Together,    \* bound: sets of reminders that are created together
  MaxMishaps   \* bound: runs that die or take rows that another one has

ASSUME RowAssumption ==
  /\ Rows # {}
  /\ Automatic \cup WhatsApp \cup Silent \subseteq Rows
  /\ Automatic \cap WhatsApp = {} /\ Silent \cap WhatsApp = {}
  /\ NoStep \notin Steps
  /\ StepOf \in [Rows -> Steps \cup {NoStep}]
  /\ \A r \in Automatic : StepOf[r] \in Steps
ASSUME GroupAssumption ==
  /\ Groups \subseteq SUBSET Rows
  /\ \A r \in Rows : \E g \in Groups : r \in g
  /\ \A g, h \in Groups : g # h => g \cap h = {}
  /\ \A g \in Groups : Cardinality(g) > 1 => g \subseteq Automatic
ASSUME BoundAssumption ==
  /\ Editable \cup Contended \subseteq Rows
  /\ {MaxEdits, MaxAgents, MaxTicks, MaxMishaps} \subseteq Nat

VARIABLES
  status,     \* reminder.status ("none": no row yet)
  content,    \* version of message_body
  approved,   \* versions somebody, or the regime of the agency, approved
  approvals,  \* times the row was approved
  mailed,     \* versions of the row that were mailed
  mails,      \* mails that carried the row
  done,       \* steps that are DONE
  unreachable,\* groups without an address, nor an owner to write to
  gesture,    \* what each request of the agency has read
  tick,       \* what each run of the dispatcher has in memory
  crashes,    \* runs that failed
  slipped,    \* history: texts an edit wrote on a row approved since its read
  shares      \* history: runs that took a row while another still had it

books == <<approved, approvals, mailed, mails, slipped, shares>>
vars == <<status, content, books, done, unreachable, gesture, tick, crashes>>

Agents == 1 .. MaxAgents
Ticks == 1 .. MaxTicks
Kinds == {"none", "approve", "cancel", "edit", "mark_sent"}
Statuses == {"none", "to_approve", "approved", "sent", "cancelled"}
Contents == 0 .. MaxEdits
NoTick == [drop |-> {}, look |-> {}, send |-> {}, record |-> {}, locked |-> {},
           body |-> [r \in Rows |-> 0]]

TypeOK ==
  /\ status \in [Rows -> Statuses]
  /\ content \in [Rows -> Contents]
  /\ approved \in [Rows -> SUBSET Contents]
  /\ approvals \in [Rows -> Nat]
  /\ mailed \in [Rows -> SUBSET Contents]
  /\ mails \in [Rows -> Nat]
  /\ done \in SUBSET Steps
  /\ unreachable \in SUBSET Groups
  /\ gesture \in [Agents -> [kind : Kinds, row : Rows, was_approved : BOOLEAN]]
  /\ tick \in [Ticks -> [drop : SUBSET Rows, look : SUBSET Rows,
                         send : SUBSET Rows, record : SUBSET Rows,
                         locked : SUBSET Rows, body : [Rows -> Contents]]]
  /\ \A t \in Ticks : tick[t].record \subseteq tick[t].send
  /\ crashes \in Nat
  /\ slipped \in [Rows -> SUBSET Contents]
  /\ shares \in Nat

NoGesture == [kind |-> "none", row |-> CHOOSE r \in Rows : TRUE,
              was_approved |-> FALSE]

Init ==
  /\ status = [r \in Rows |-> "none"]
  /\ content = [r \in Rows |-> 0]
  /\ approved = [r \in Rows |-> {}]
  /\ approvals = [r \in Rows |-> 0]
  /\ mailed = [r \in Rows |-> {}]
  /\ mails = [r \in Rows |-> 0]
  /\ done = {}
  /\ unreachable = {}
  /\ gesture = [a \in Agents |-> NoGesture]
  /\ tick = [t \in Ticks |-> NoTick]
  /\ crashes = 0
  /\ slipped = [r \in Rows |-> {}]
  /\ shares = 0

Locked == UNION {tick[t].locked : t \in Ticks}

\* The rows a run may still send, or has sent and not recorded; and those it
\* has in memory.
MaySend(t) == tick[t].look \cup tick[t].send
Has(t) == tick[t].drop \cup MaySend(t)
Idle(t) == Has(t) = {}

(***************************************************************************)
(* Creation.                                                               *)
(***************************************************************************)

\* The row is approved as it stands.
Approve(r) ==
  /\ status' = [status EXCEPT ![r] = "approved"]
  /\ approved' = [approved EXCEPT ![r] = @ \cup {content[r]}]
  /\ approvals' = [approvals EXCEPT ![r] = @ + 1]

Room(r) ==
  \E rows \in Together : {r} \cup {s \in Rows : status[s] # "none"} \subseteq rows

\* create_reminder: whoever writes it, a hand-written one is to approve.
CreateReminder(r) ==
  /\ r \notin Automatic
  /\ status[r] = "none" /\ Room(r)
  /\ status' = [status EXCEPT ![r] = "to_approve"]
  /\ UNCHANGED <<content, books, done, unreachable, gesture, tick, crashes>>

\* create_auto_reminders, once for each step, threshold and recipient (the
\* unique index), for a step that is not done; the agency has chosen whether
\* its follow-ups wait for an approval.
CreateAutoReminder(r) ==
  /\ r \in Automatic
  /\ status[r] = "none" /\ Room(r)
  /\ StepOf[r] \notin done
  /\ \/ status' = [status EXCEPT ![r] = "to_approve"] /\ UNCHANGED books
     \/ Approve(r) /\ UNCHANGED <<mailed, mails, slipped, shares>>
  /\ UNCHANGED <<content, done, unreachable, gesture, tick, crashes>>

(***************************************************************************)
(* Gestures of the agency: a read with its guards, then a blind write.  A  *)
(* bulk gesture does the same to each of its rows.                         *)
(***************************************************************************)

MayStart(kind, r) ==
  \/ kind = "approve" /\ status[r] = "to_approve" /\ StepOf[r] \notin done
  \/ kind = "cancel" /\ status[r] \in {"to_approve", "approved"}
  \/ /\ kind = "edit" /\ status[r] \in {"to_approve", "approved"}
     /\ r \in Editable /\ content[r] < MaxEdits
  \/ kind = "mark_sent" /\ r \in WhatsApp /\ status[r] = "approved"

Read(a, kind, r) ==
  /\ gesture[a].kind = "none"
  /\ \A b \in Agents : b < a => gesture[b].kind # "none"
  /\ MayStart(kind, r)
  /\ \A b \in Agents : gesture[b].kind # "none" =>
       {gesture[b].row, r} \subseteq Contended
  /\ gesture' = [gesture EXCEPT
       ![a] = [kind |-> kind, row |-> r,
               was_approved |-> status[r] = "approved"]]
  /\ UNCHANGED <<status, content, books, done, unreachable, tick, crashes>>

\* Mutant: an edit keeps the approval.
EditKeepsApproval(r, was_approved) ==
  /\ content[r] < MaxEdits
  /\ content' = [content EXCEPT ![r] = @ + 1]
  /\ UNCHANGED <<status, approved, approvals, slipped>>

\* The new text of an approved reminder is to approve; the status of one that
\* was read as to approve is not written, and a row that was approved since
\* the read keeps the approval for a text nobody has approved.
Edit(r, was_approved) ==
  /\ content[r] < MaxEdits
  /\ content' = [content EXCEPT ![r] = @ + 1]
  /\ IF was_approved THEN status' = [status EXCEPT ![r] = "to_approve"]
                     ELSE UNCHANGED status
  /\ slipped' = IF ~was_approved /\ status[r] = "approved"
                  THEN [slipped EXCEPT ![r] = @ \cup {content[r] + 1}]
                  ELSE slipped
  /\ UNCHANGED <<approved, approvals>>

\* The UPDATE waits for a tick that has the row locked.
Write(a) ==
  LET r == gesture[a].row
      kind == gesture[a].kind
  IN /\ kind # "none"
     /\ r \notin Locked
     /\ \/ kind = "approve" /\ Approve(r) /\ UNCHANGED <<content, slipped>>
        \/ kind = "edit" /\ Edit(r, gesture[a].was_approved)
        \/ /\ kind \in {"cancel", "mark_sent"}
           /\ status' = [status EXCEPT
                ![r] = IF kind = "cancel" THEN "cancelled" ELSE "sent"]
           /\ UNCHANGED <<content, approved, approvals, slipped>>
     /\ gesture' = [gesture EXCEPT ![a] = NoGesture]
     /\ UNCHANGED <<mailed, mails, shares, done, unreachable, tick, crashes>>

\* A gesture that fails, or whose row another one has edited to the bound.
Abandon(a) ==
  /\ gesture[a].kind # "none"
  /\ gesture' = [gesture EXCEPT ![a] = NoGesture]
  /\ UNCHANGED <<status, content, books, done, unreachable, tick, crashes>>

(***************************************************************************)
(* The dispatcher.                                                         *)
(***************************************************************************)

\* Rows a tick may take.
Due == {r \in Rows \ (WhatsApp \cup Locked) : status[r] = "approved"}

\* What a tick remembers of the rows it takes; 0 for the others.
TextOf(rows) == [r \in Rows |-> IF r \in rows THEN content[r] ELSE 0]

\* The rows of Due that another run has and may send.
Shared(t) == Due \cap UNION {MaySend(u) : u \in Ticks \ {t}}

\* Runs have no name, like requests: the first free one begins.
MayBegin(t) ==
  /\ Idle(t) /\ \A u \in Ticks : u < t => ~Idle(u)
  /\ Due # {}
  /\ Shared(t) = {} \/ crashes + shares < MaxMishaps

Taken(t, drop, look, send) ==
  /\ tick' = [tick EXCEPT
       ![t] = [drop |-> drop, look |-> look, send |-> send, record |-> {},
               locked |-> Due, body |-> TextOf(Due)]]
  /\ shares' = IF Shared(t) = {} THEN shares ELSE shares + 1
  /\ UNCHANGED <<content, approved, approvals, mailed, mails, slipped, done,
                 unreachable, gesture, crashes>>

\* Mutant: rows are marked as sent when they are taken.
ClaimFirst(t) ==
  /\ MayBegin(t)
  /\ status' = [r \in Rows |-> IF r \in Due THEN "sent" ELSE status[r]]
  /\ Taken(t, {}, Due \ Silent, Due \cap Silent)

\* The SELECT of dispatch_due_reminders, then _done_step_ids; the rows left
\* are looked at one by one.
Select(t) ==
  LET live == {r \in Due : StepOf[r] \notin done}
  IN /\ MayBegin(t)
     /\ Taken(t, Due \ live, live \ Silent, live \cap Silent)
     /\ UNCHANGED status

\* A log line about r is a COMMIT: the run goes on without its locks.
Log(t, r, drop, look, send, record) ==
  tick' = [tick EXCEPT
    ![t] = [drop |-> drop, look |-> look, send |-> send, record |-> record,
            locked |-> {}, body |-> [tick[t].body EXCEPT ![r] = 0]]]

\* Mutant: the row of a validated step is left as it is.
SkipDone(t, r) ==
  /\ r \in tick[t].drop
  /\ Log(t, r, tick[t].drop \ {r}, tick[t].look, tick[t].send, {})
  /\ UNCHANGED <<status, content, books, done, unreachable, gesture, crashes>>

\* The row of a validated step is cancelled; the log line commits.
CancelDone(t, r) ==
  /\ r \in tick[t].drop
  /\ status' = [status EXCEPT ![r] = "cancelled"]
  /\ Log(t, r, tick[t].drop \ {r}, tick[t].look, tick[t].send, {})
  /\ UNCHANGED <<content, books, done, unreachable, gesture, crashes>>

Reachable(r) == \A g \in unreachable : r \notin g

\* _recipient finds an address: the row will be mailed.
Address(t, r) ==
  /\ r \in tick[t].look
  /\ Reachable(r)
  /\ tick' = [tick EXCEPT ![t] =
       [tick[t] EXCEPT !.look = @ \ {r}, !.send = @ \cup {r}]]
  /\ UNCHANGED <<status, content, books, done, unreachable, gesture, crashes>>

\* No recipient nor owner: the row is left approved; the log line commits.
LeaveApproved(t, r) ==
  /\ r \in tick[t].look
  /\ ~Reachable(r)
  /\ Log(t, r, tick[t].drop, tick[t].look \ {r}, tick[t].send, {})
  /\ UNCHANGED <<status, content, books, done, unreachable, gesture, crashes>>

\* Mutant: the digest lists the group, not the rows the tick has taken.
MailGroup(t, g) ==
  LET rows == g \ Silent
  IN /\ tick[t].drop \cup tick[t].look = {} /\ tick[t].record = {}
     /\ g \cap (tick[t].send \ Silent) # {}
     /\ mails' = [r \in Rows |-> IF r \in rows THEN mails[r] + 1 ELSE mails[r]]
     /\ mailed' = [r \in Rows |-> IF r \in rows
                                    THEN mailed[r] \cup {tick[t].body[r]}
                                    ELSE mailed[r]]
     /\ tick' = [tick EXCEPT ![t] = [tick[t] EXCEPT !.record = rows]]
     /\ UNCHANGED <<status, content, approved, approvals, slipped, shares,
                    done, unreachable, gesture, crashes>>

\* One mail for the rows of a group that this tick has.  The groups, then the
\* others, in any order.
Mail(t, g) ==
  LET rows == g \cap (tick[t].send \ Silent)
  IN /\ tick[t].drop \cup tick[t].look = {} /\ tick[t].record = {}
     /\ rows # {}
     /\ mails' = [r \in Rows |-> IF r \in rows THEN mails[r] + 1 ELSE mails[r]]
     /\ mailed' = [r \in Rows |-> IF r \in rows
                                    THEN mailed[r] \cup {tick[t].body[r]}
                                    ELSE mailed[r]]
     /\ tick' = [tick EXCEPT ![t] = [tick[t] EXCEPT !.record = rows]]
     /\ UNCHANGED <<status, content, approved, approvals, slipped, shares,
                    done, unreachable, gesture, crashes>>

\* Mutant: one row of a grouped mail is recorded, the others are not.
RecordOne(t, r) ==
  /\ r \in tick[t].record
  /\ status' = [status EXCEPT ![r] = "sent"]
  /\ Log(t, r, {}, {}, tick[t].send \ tick[t].record, {})
  /\ UNCHANGED <<content, books, done, unreachable, gesture, crashes>>

\* _record of a mailed row, or of a row without a mail once all the mails are
\* out; the log line commits.
Record(t, r) ==
  /\ \/ r \in tick[t].record
     \/ r \in tick[t].send /\ Has(t) \subseteq tick[t].send \cap Silent
  /\ status' = [status EXCEPT ![r] = "sent"]
  /\ Log(t, r, {}, {}, tick[t].send \ {r}, tick[t].record \ {r})
  /\ UNCHANGED <<content, books, done, unreachable, gesture, crashes>>

\* The mail provider refuses, or the process dies: run_job rolls back what
\* no log line has committed.
Crash(t) ==
  /\ ~Idle(t)
  /\ crashes + shares < MaxMishaps
  /\ crashes' = crashes + 1
  /\ tick' = [tick EXCEPT ![t] = NoTick]
  /\ UNCHANGED <<status, content, books, done, unreachable, gesture>>

\* A step of the journey is closed or reopened (see StepProgress).
MoveStep(s) ==
  /\ done' = IF s \in done THEN done \ {s} ELSE done \cup {s}
  /\ UNCHANGED <<status, content, books, unreachable, gesture, tick, crashes>>

\* An address, or the owner of the case, is removed or filled in.
MoveAddress(g) ==
  /\ g \ (Silent \cup WhatsApp) # {}
  /\ unreachable' = IF g \in unreachable THEN unreachable \ {g}
                                         ELSE unreachable \cup {g}
  /\ UNCHANGED <<status, content, books, done, gesture, tick, crashes>>

Next ==
  \/ \E r \in Rows : CreateReminder(r) \/ CreateAutoReminder(r)
  \/ \E a \in Agents :
       \/ \E kind \in Kinds, r \in Rows : Read(a, kind, r)
       \/ Write(a) \/ Abandon(a)
  \/ \E t \in Ticks :
       \/ Select(t) \/ Crash(t)
       \/ \E r \in Rows : \/ CancelDone(t, r) \/ Address(t, r)
                         \/ LeaveApproved(t, r) \/ Record(t, r)
       \/ \E g \in Groups : Mail(t, g)
  \/ \E s \in Steps : MoveStep(s)
  \/ \E g \in Groups : MoveAddress(g)

Spec == Init /\ [][Next]_vars

\* The scheduler starts a tick whenever its cron says, and a tick goes on.
TickStep(t) ==
  \/ Select(t)
  \/ \E r \in Rows : \/ CancelDone(t, r) \/ Address(t, r)
                    \/ LeaveApproved(t, r) \/ Record(t, r)
  \/ \E g \in Groups : Mail(t, g)

Fairness == \A t \in Ticks : WF_vars(TickStep(t))

FairSpec == Spec /\ Fairness

(***************************************************************************)
(* Properties.                                                             *)
(***************************************************************************)

\* "Nothing leaves without an approval", as far as the code holds it: a text
\* that is mailed was approved, by somebody or by the regime of the agency,
\* whatever edits, approvals and runs race.  The exception is the text of an
\* edit that had read the row as to approve and wrote it once the row was
\* approved (update_reminder looks at the status it has read).
OnlySlippedTextsLeave ==
  \A r \in Rows : mailed[r] \subseteq approved[r] \cup slipped[r]

\* One approval sends one mail, however many runs overlap: a mail is repeated
\* only by a run that died, or by one that took the row while another still
\* had it (the locks are gone at the first line that is logged).
MailedOncePerApproval ==
  \A r \in Rows : mails[r] <= approvals[r] + crashes + shares

\* "Sent" is true: a run that dies marks nothing that has not left.
SentHasLeft ==
  \A r \in Rows : status[r] = "sent" => mails[r] > 0 \/ r \in Silent \cup WhatsApp

\* No dead queue: an approved reminder whose recipient, or the owner of whose
\* case, can be written to from some time on does not stay approved.
ApprovedIsHandled ==
  \A r \in Rows \ WhatsApp :
    <>[]Reachable(r) => (status[r] = "approved" ~> status[r] # "approved")

=============================================================================
