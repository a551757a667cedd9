-------------------------- MODULE RemindersProofs --------------------------
(***************************************************************************)
(* Theorems about Reminders, for any number of rows, of concurrent         *)
(* requests and of overlapping runs of the dispatcher.                     *)
(***************************************************************************)
EXTENDS Reminders, FiniteSetTheorems, TLAPS

\* A run only records what it has mailed.
RecordedWasMailed ==
  \A t \in Ticks : \A r \in tick[t].record : mails[r] > 0

\* Only WhatsApp reminders are marked as sent by hand.
MarksWhatsApp ==
  \A a \in Agents : gesture[a].kind = "mark_sent" => gesture[a].row \in WhatsApp

IInv == TypeOK /\ RecordedWasMailed /\ MarksWhatsApp /\ SentHasLeft

Memory == [drop : SUBSET Rows, look : SUBSET Rows, send : SUBSET Rows,
           record : SUBSET Rows, locked : SUBSET Rows, body : [Rows -> Contents]]

LEMMA NoTickType == NoTick \in Memory
  BY BoundAssumption DEF NoTick, Memory, Contents

LEMMA NoGestureType ==
  NoGesture \in [kind : Kinds, row : Rows, was_approved : BOOLEAN]
  BY RowAssumption DEF NoGesture, Kinds

LEMMA InitIInv == Init => IInv
<1> SUFFICES ASSUME Init PROVE IInv
  OBVIOUS
<1>1. TypeOK
  BY NoGestureType, NoTickType, BoundAssumption
     DEF Init, TypeOK, Statuses, Contents, Memory, NoTick
<1>2. QED
  BY <1>1 DEF Init, IInv, RecordedWasMailed, MarksWhatsApp, SentHasLeft,
     NoTick, NoGesture

\* The creations and the gestures of the agency.
LEMMA GestureIInv ==
  ASSUME IInv,
         \/ \E r \in Rows : CreateReminder(r) \/ CreateAutoReminder(r)
         \/ \E a \in Agents :
              \/ \E kind \in Kinds, r \in Rows : Read(a, kind, r)
              \/ Write(a) \/ Abandon(a)
  PROVE  IInv'
<1> USE DEF IInv
<1>1. ASSUME NEW r \in Rows, Approve(r)
      PROVE  /\ status' \in [Rows -> Statuses]
             /\ approved' \in [Rows -> SUBSET Contents]
             /\ approvals' \in [Rows -> Nat]
             /\ \A x \in Rows : status'[x] = "sent" => status[x] = "sent"
  BY <1>1 DEF Approve, TypeOK, Statuses
<1>2. ASSUME NEW r \in Rows, CreateReminder(r) \/ CreateAutoReminder(r)
      PROVE  IInv'
  <2>1. /\ status' \in [Rows -> Statuses]
        /\ approved' \in [Rows -> SUBSET Contents]
        /\ approvals' \in [Rows -> Nat]
        /\ \A x \in Rows : status'[x] = "sent" => status[x] = "sent"
    BY <1>1, <1>2 DEF CreateReminder, CreateAutoReminder, TypeOK, Statuses,
       books
  <2>2. UNCHANGED <<content, mailed, mails, slipped, shares, done, unreachable,
                   gesture, tick, crashes>>
    BY <1>2 DEF CreateReminder, CreateAutoReminder, books
  <2>3. QED
    BY <2>1, <2>2 DEF TypeOK, RecordedWasMailed, MarksWhatsApp, SentHasLeft
<1>3. ASSUME NEW a \in Agents, NEW kind \in Kinds, NEW r \in Rows,
             Read(a, kind, r)
      PROVE  IInv'
  <2>1. kind = "mark_sent" => r \in WhatsApp
    BY <1>3 DEF Read, MayStart
  <2>2. /\ gesture' \in [Agents ->
             [kind : Kinds, row : Rows, was_approved : BOOLEAN]]
        /\ \A b \in Agents :
             gesture'[b].kind = "mark_sent" => gesture'[b].row \in WhatsApp
    BY <1>3, <2>1 DEF Read, TypeOK, MarksWhatsApp
  <2>3. QED
    BY <1>3, <2>2 DEF Read, TypeOK, RecordedWasMailed, MarksWhatsApp,
       SentHasLeft, books
<1>4. ASSUME NEW a \in Agents, Write(a) \/ Abandon(a)
      PROVE  /\ MarksWhatsApp'
             /\ gesture' \in [Agents ->
                  [kind : Kinds, row : Rows, was_approved : BOOLEAN]]
  <2>1. gesture' = [gesture EXCEPT ![a] = NoGesture]
    BY <1>4 DEF Write, Abandon
  <2>2. NoGesture.kind = "none"
    BY DEF NoGesture
  <2>3. QED
    BY <2>1, <2>2, NoGestureType DEF TypeOK, MarksWhatsApp
<1>5. ASSUME NEW a \in Agents, Abandon(a)
      PROVE  IInv'
  BY <1>4, <1>5 DEF Abandon, TypeOK, RecordedWasMailed, SentHasLeft, books
<1>6. ASSUME NEW a \in Agents, Write(a)
      PROVE  IInv'
  <2> DEFINE r == gesture[a].row
  <2>1. r \in Rows /\ content \in [Rows -> Contents]
    BY DEF TypeOK
  <2>2. CASE Approve(r) /\ UNCHANGED <<content, slipped>>
    <3>1. /\ status' \in [Rows -> Statuses]
          /\ approved' \in [Rows -> SUBSET Contents]
          /\ approvals' \in [Rows -> Nat]
          /\ \A x \in Rows : status'[x] = "sent" => status[x] = "sent"
      BY <1>1, <2>1, <2>2
    <3>2. QED
      BY <1>4, <1>6, <2>2, <3>1
         DEF Write, TypeOK, RecordedWasMailed, SentHasLeft
  <2>3. CASE Edit(r, gesture[a].was_approved)
    <3>1. /\ status' \in [Rows -> Statuses]
          /\ \A x \in Rows : status'[x] = "sent" => status[x] = "sent"
      BY <2>1, <2>3 DEF Edit, TypeOK, Statuses
    <3>2. /\ content' \in [Rows -> Contents]
          /\ slipped' \in [Rows -> SUBSET Contents]
      <4>1. content[r] + 1 \in Contents
        BY <2>1, <2>3, BoundAssumption DEF Edit, Contents
      <4>2. QED
        BY <2>1, <2>3, <4>1 DEF Edit, TypeOK
    <3>3. QED
      BY <1>4, <1>6, <2>3, <3>1, <3>2
         DEF Write, Edit, TypeOK, RecordedWasMailed, SentHasLeft
  <2>4. CASE gesture[a].kind = "cancel"
    BY <1>4, <1>6, <2>1, <2>4
       DEF Write, TypeOK, Statuses, RecordedWasMailed, SentHasLeft
  <2>5. CASE gesture[a].kind = "mark_sent"
    <3>1. r \in WhatsApp
      BY <2>5 DEF MarksWhatsApp
    <3>2. QED
      BY <1>4, <1>6, <2>1, <2>5, <3>1
         DEF Write, TypeOK, Statuses, RecordedWasMailed, SentHasLeft
  <2>6. QED
    BY <1>6, <2>2, <2>3, <2>4, <2>5 DEF Write
<1>7. QED
  BY <1>2, <1>3, <1>5, <1>6

\* The runs of the dispatcher.
LEMMA TickIInv ==
  ASSUME IInv, NEW t \in Ticks,
         \/ Select(t) \/ Crash(t)
         \/ \E r \in Rows : \/ CancelDone(t, r) \/ Address(t, r)
                           \/ LeaveApproved(t, r) \/ Record(t, r)
         \/ \E g \in Groups : Mail(t, g)
  PROVE  IInv'
<1> USE DEF IInv
<1>0. tick \in [Ticks -> Memory]
  BY DEF TypeOK, Memory
<1> DEFINE Kept ==
      /\ tick' \in [Ticks -> Memory]
      /\ \A u \in Ticks : tick'[u].record \subseteq tick'[u].send
      /\ \A u \in Ticks : tick'[u].record \subseteq
           tick[u].record \cup {r \in Rows : mails'[r] > 0}
<1>1. CASE Select(t)
  <2>1. Due \in SUBSET Rows /\ TextOf(Due) \in [Rows -> Contents]
    BY BoundAssumption DEF Due, TextOf, TypeOK, Contents
  <2>2. Kept
    BY <1>0, <1>1, <2>1 DEF Select, Taken, TypeOK, Memory
  <2>3. shares' \in Nat
    BY <1>1 DEF Select, Taken, TypeOK
  <2>4. QED
    BY <1>1, <2>2, <2>3 DEF Select, Taken, TypeOK, Memory, RecordedWasMailed,
       MarksWhatsApp, SentHasLeft, books
<1>2. CASE Crash(t)
  <2>1. Kept
    BY <1>0, <1>2, NoTickType DEF Crash, TypeOK, NoTick
  <2>2. crashes' \in Nat
    BY <1>2 DEF Crash, TypeOK
  <2>3. QED
    BY <1>2, <2>1, <2>2 DEF Crash, TypeOK, Memory, RecordedWasMailed,
       MarksWhatsApp, SentHasLeft, books
<1>3. ASSUME NEW r \in Rows, CancelDone(t, r)
      PROVE  IInv'
  <2>1. Kept
    BY <1>0, <1>3, BoundAssumption DEF CancelDone, Log, TypeOK, Memory, Contents
  <2>2. QED
    BY <1>3, <2>1 DEF CancelDone, TypeOK, Memory, Statuses, RecordedWasMailed,
       MarksWhatsApp, SentHasLeft, books
<1>4. ASSUME NEW r \in Rows, Record(t, r)
      PROVE  IInv'
  <2>1. Kept
    BY <1>0, <1>4, BoundAssumption DEF Record, Log, TypeOK, Memory, Contents
  <2>2. mails[r] > 0 \/ r \in Silent
    BY <1>4 DEF Record, RecordedWasMailed, Has, MaySend
  <2>3. QED
    BY <1>4, <2>1, <2>2 DEF Record, TypeOK, Memory, Statuses,
       RecordedWasMailed, MarksWhatsApp, SentHasLeft, books
<1>5. ASSUME NEW g \in Groups, Mail(t, g)
      PROVE  IInv'
  <2> DEFINE rows == g \cap (tick[t].send \ Silent)
  <2>0. rows \in SUBSET Rows
    BY <1>0 DEF Memory
  <2>1. /\ mails' \in [Rows -> Nat]
        /\ \A r \in Rows : mails'[r] >= mails[r]
        /\ \A r \in rows : mails'[r] > 0
    <3>1. mails' = [r \in Rows |-> IF r \in rows THEN mails[r] + 1
                                              ELSE mails[r]]
      BY <1>5 DEF Mail
    <3> HIDE DEF rows
    <3>2. QED
      BY <2>0, <3>1 DEF TypeOK
  <2>2. mailed' \in [Rows -> SUBSET Contents]
    BY <1>0, <1>5 DEF Mail, TypeOK, Memory
  <2>3. /\ tick' \in [Ticks -> Memory]
        /\ \A u \in Ticks : tick'[u].record \subseteq tick'[u].send
        /\ \A u \in Ticks : \A r \in tick'[u].record :
             r \in tick[u].record \/ r \in rows
    <3>1. tick' = [tick EXCEPT ![t] = [tick[t] EXCEPT !.record = rows]]
      BY <1>5 DEF Mail
    <3>2. rows \subseteq tick[t].send
      OBVIOUS
    <3> HIDE DEF rows
    <3>3. /\ tick'[t] = [tick[t] EXCEPT !.record = rows]
          /\ \A u \in Ticks : u # t => tick'[u] = tick[u]
      BY <1>0, <3>1
    <3>4. tick'[t] \in Memory /\ tick'[t].record = rows /\ tick'[t].send = tick[t].send
      BY <1>0, <2>0, <3>3 DEF Memory
    <3>5. tick' \in [Ticks -> Memory]
      BY <1>0, <3>1, <3>3, <3>4
    <3>6. QED
      BY <3>2, <3>3, <3>4, <3>5 DEF TypeOK
  <2> HIDE DEF rows
  <2>4. ASSUME NEW u \in Ticks, NEW r \in tick'[u].record
        PROVE  mails'[r] > 0
    <3>1. r \in Rows
      BY <2>3 DEF Memory
    <3>2. CASE r \in rows
      BY <2>1, <3>2
    <3>3. CASE r \in tick[u].record
      BY <2>1, <3>1, <3>3 DEF RecordedWasMailed, TypeOK
    <3>4. QED
      BY <2>3, <3>2, <3>3
  <2>5. SentHasLeft'
    BY <1>5, <2>1 DEF Mail, SentHasLeft, TypeOK
  <2>6. TypeOK' /\ MarksWhatsApp'
    BY <1>5, <2>1, <2>2, <2>3 DEF Mail, TypeOK, Memory, MarksWhatsApp
  <2>7. QED
    BY <2>4, <2>5, <2>6 DEF RecordedWasMailed
<1>6. ASSUME NEW r \in Rows, Address(t, r)
      PROVE  IInv'
  <2>1. /\ tick' = [tick EXCEPT ![t] = tick'[t]]
        /\ tick'[t] \in Memory
        /\ tick'[t].record = tick[t].record
        /\ tick[t].send \subseteq tick'[t].send
    <3>1. tick'[t] = [tick[t] EXCEPT !.look = @ \ {r}, !.send = @ \cup {r}]
      BY <1>0, <1>6 DEF Address
    <3>2. tick' = [tick EXCEPT ![t] = tick'[t]]
      BY <1>6, <3>1 DEF Address
    <3>3. tick[t] \in Memory
      BY <1>0
    <3>4. /\ tick'[t].record = tick[t].record
          /\ tick'[t].send = tick[t].send \cup {r}
      BY <3>1, <3>3 DEF Memory
    <3>5. tick'[t] \in Memory
      <4>1. /\ tick[t].look \ {r} \in SUBSET Rows
            /\ tick[t].send \cup {r} \in SUBSET Rows
        BY <3>3 DEF Memory
      <4>2. QED
        BY <3>1, <3>3, <4>1 DEF Memory
    <3>6. QED
      BY <3>2, <3>4, <3>5
  <2>2. Kept
    BY <1>0, <2>1 DEF TypeOK
  <2>3. QED
    BY <1>6, <2>2 DEF Address, TypeOK, Memory, RecordedWasMailed,
       MarksWhatsApp, SentHasLeft, books
<1>7. ASSUME NEW r \in Rows, LeaveApproved(t, r)
      PROVE  IInv'
  <2>1. Kept
    BY <1>0, <1>7, BoundAssumption DEF LeaveApproved, Log, TypeOK, Memory, Contents
  <2>2. QED
    BY <1>7, <2>1 DEF LeaveApproved, TypeOK, Memory, RecordedWasMailed,
       MarksWhatsApp, SentHasLeft, books
<1>8. QED
  BY <1>1, <1>2, <1>3, <1>4, <1>5, <1>6, <1>7

LEMMA NextIInv == IInv /\ [Next]_vars => IInv'
<1> SUFFICES ASSUME IInv, [Next]_vars PROVE IInv'
  OBVIOUS
<1>1. ASSUME NEW s \in Steps, MoveStep(s)
      PROVE  IInv'
  BY <1>1 DEF MoveStep, IInv, TypeOK, RecordedWasMailed, MarksWhatsApp,
     SentHasLeft, books
<1>2. ASSUME NEW g \in Groups, MoveAddress(g)
      PROVE  IInv'
  BY <1>2 DEF MoveAddress, IInv, TypeOK, RecordedWasMailed, MarksWhatsApp,
     SentHasLeft, books
<1>3. CASE UNCHANGED vars
  BY <1>3 DEF IInv, TypeOK, RecordedWasMailed, MarksWhatsApp, SentHasLeft,
     books, vars
<1>4. QED
  BY <1>1, <1>2, <1>3, GestureIInv, TickIInv DEF Next

LEMMA Invariance == Spec => []IInv
  BY InitIInv, NextIInv, PTL DEF Spec

\* Every reachable state of the reminders is well typed; a run records only
\* rows it still has to send.
THEOREM TypeCorrect == Spec => []TypeOK
<1>1. IInv => TypeOK
  BY DEF IInv
<1>2. QED
  BY <1>1, Invariance, PTL

\* However many runs overlap, die and race the agency, a reminder that is
\* marked as sent was mailed, or is of a kind that is sent without a mail.
THEOREM SentIsTrue == Spec => []SentHasLeft
<1>1. IInv => SentHasLeft
  BY DEF IInv
<1>2. QED
  BY <1>1, Invariance, PTL

(***************************************************************************)
(* A step of the agency or of the journey, as the runs of the dispatcher   *)
(* see it, and a step of a run, as the agency sees it.                     *)
(***************************************************************************)

AgencyStep ==
  \/ \E r \in Rows : CreateReminder(r) \/ CreateAutoReminder(r)
  \/ \E a \in Agents :
       \/ \E kind \in Kinds, r \in Rows : Read(a, kind, r)
       \/ Write(a) \/ Abandon(a)
  \/ \E s \in Steps : MoveStep(s)
  \/ \E g \in Groups : MoveAddress(g)

RunStep(t) ==
  \/ Select(t) \/ Crash(t)
  \/ \E r \in Rows : \/ CancelDone(t, r) \/ Address(t, r)
                    \/ LeaveApproved(t, r) \/ Record(t, r)
  \/ \E g \in Groups : Mail(t, g)

LEMMA NextSplit == Next => AgencyStep \/ \E t \in Ticks : RunStep(t)
  BY Zenon DEF Next, AgencyStep, RunStep

LEMMA ApproveEffect ==
  ASSUME TypeOK, NEW x \in Rows, Approve(x)
  PROVE  \A r \in Rows :
           /\ approved[r] \subseteq approved'[r]
           /\ approvals'[r] >= approvals[r]
           /\ r # x => status'[r] = status[r]
           /\ r = x => /\ approvals'[r] = approvals[r] + 1
                       /\ content[r] \in approved'[r]
                       /\ status'[r] = "approved"
  BY DEF TypeOK, Approve

\* The agency adds approvals, and a row is approved by nothing else.
LEMMA AgencyEffect ==
  ASSUME TypeOK, AgencyStep
  PROVE  /\ UNCHANGED <<mailed, mails, shares, tick, crashes>>
         /\ \A r \in Rows :
              /\ approved[r] \subseteq approved'[r]
              /\ slipped[r] \subseteq slipped'[r]
              /\ approvals'[r] >= approvals[r]
              /\ status'[r] = "approved" =>
                   status[r] = "approved" \/ approvals'[r] = approvals[r] + 1
<1>1. ASSUME NEW x \in Rows, CreateReminder(x)
      PROVE  /\ UNCHANGED <<books, tick, crashes>>
             /\ \A r \in Rows : status'[r] = "approved" => status[r] = "approved"
  BY <1>1 DEF CreateReminder, TypeOK
<1>2. ASSUME NEW x \in Rows, CreateAutoReminder(x)
      PROVE  /\ UNCHANGED <<mailed, mails, slipped, shares, tick, crashes>>
             /\ \/ Approve(x)
                \/ /\ UNCHANGED <<approved, approvals>>
                   /\ \A r \in Rows :
                        status'[r] = "approved" => status[r] = "approved"
  BY <1>2 DEF CreateAutoReminder, TypeOK, books
<1>3. ASSUME NEW a \in Agents, NEW kind \in Kinds, NEW x \in Rows,
             Read(a, kind, x)
      PROVE  UNCHANGED <<status, books, tick, crashes>>
  BY <1>3 DEF Read
<1>4. ASSUME NEW a \in Agents, Write(a)
      PROVE  /\ UNCHANGED <<mailed, mails, shares, tick, crashes>>
             /\ \A r \in Rows : slipped[r] \subseteq slipped'[r]
             /\ \/ Approve(gesture[a].row)
                \/ /\ UNCHANGED <<approved, approvals>>
                   /\ \A r \in Rows :
                        status'[r] = "approved" => status[r] = "approved"
  BY <1>4 DEF Write, Edit, TypeOK
<1>5. ASSUME NEW a \in Agents, Abandon(a)
      PROVE  UNCHANGED <<status, books, tick, crashes>>
  BY <1>5 DEF Abandon
<1>6. ASSUME (\E s \in Steps : MoveStep(s)) \/ (\E g \in Groups : MoveAddress(g))
      PROVE  UNCHANGED <<status, books, tick, crashes>>
  BY <1>6 DEF MoveStep, MoveAddress
<1>7. \A a \in Agents : gesture[a].row \in Rows
  BY DEF TypeOK
<1>8. \A r \in Rows : approvals[r] \in Nat
  BY DEF TypeOK
<1>9. QED
  BY <1>1, <1>2, <1>3, <1>4, <1>5, <1>6, <1>7, <1>8, ApproveEffect
     DEF AgencyStep, books

\* A run approves nothing and writes no text, and it has its own memory.
LEMMA RunEffect ==
  ASSUME TypeOK, NEW t \in Ticks, RunStep(t)
  PROVE  /\ UNCHANGED <<content, approved, approvals, slipped>>
         /\ \A u \in Ticks : u # t => tick'[u] = tick[u]
         /\ \A r \in Rows : status'[r] = "approved" => status[r] = "approved"
<1> USE DEF TypeOK
<1>1. CASE Select(t) \/ Crash(t)
  BY <1>1 DEF Select, Taken, Crash, books
<1>2. ASSUME NEW x \in Rows, CancelDone(t, x)
      PROVE  /\ UNCHANGED <<content, approved, approvals, slipped>>
             /\ \A u \in Ticks : u # t => tick'[u] = tick[u]
             /\ status' = [status EXCEPT ![x] = "cancelled"]
  BY <1>2 DEF CancelDone, Log, books
<1>3. ASSUME NEW x \in Rows, Record(t, x)
      PROVE  /\ UNCHANGED <<content, approved, approvals, slipped>>
             /\ \A u \in Ticks : u # t => tick'[u] = tick[u]
             /\ status' = [status EXCEPT ![x] = "sent"]
  BY <1>3 DEF Record, Log, books
<1>4. ASSUME NEW g \in Groups, Mail(t, g)
      PROVE  /\ UNCHANGED <<status, content, approved, approvals, slipped>>
             /\ \A u \in Ticks : u # t => tick'[u] = tick[u]
  BY <1>4 DEF Mail
<1>5. ASSUME NEW x \in Rows, Address(t, x) \/ LeaveApproved(t, x)
      PROVE  /\ UNCHANGED <<status, content, approved, approvals, slipped>>
             /\ \A u \in Ticks : u # t => tick'[u] = tick[u]
  BY <1>5 DEF Address, LeaveApproved, Log, books
<1>6. QED
  BY <1>1, <1>2, <1>3, <1>4, <1>5 DEF RunStep

(***************************************************************************)
(* What each step of a run does to its memory.                             *)
(***************************************************************************)

LEMMA SelectMemory ==
  ASSUME TypeOK, NEW t \in Ticks, Select(t)
  PROVE  /\ tick'[t].drop = {r \in Due : StepOf[r] \in done}
         /\ tick'[t].look = {r \in Due : StepOf[r] \notin done} \ Silent
         /\ tick'[t].send = {r \in Due : StepOf[r] \notin done} \cap Silent
         /\ tick'[t].record = {}
         /\ tick'[t].body = TextOf(Due)
         /\ \A r \in Due : r \in Rows /\ status[r] = "approved"
<1>1. tick'[t] = [drop |-> Due \ {r \in Due : StepOf[r] \notin done},
                  look |-> {r \in Due : StepOf[r] \notin done} \ Silent,
                  send |-> {r \in Due : StepOf[r] \notin done} \cap Silent,
                  record |-> {}, locked |-> Due, body |-> TextOf(Due)]
  BY DEF Select, Taken, TypeOK
<1>2. QED
  BY <1>1 DEF Due

LEMMA CancelMemory ==
  ASSUME TypeOK, NEW t \in Ticks, NEW x \in Rows, CancelDone(t, x)
  PROVE  /\ x \in tick[t].drop
         /\ tick'[t].drop = tick[t].drop \ {x}
         /\ tick'[t].look = tick[t].look
         /\ tick'[t].send = tick[t].send
         /\ tick'[t].record = {}
         /\ tick'[t].body = [tick[t].body EXCEPT ![x] = 0]
  BY DEF CancelDone, Log, TypeOK

LEMMA AddressMemory ==
  ASSUME TypeOK, NEW t \in Ticks, NEW x \in Rows, Address(t, x)
  PROVE  /\ x \in tick[t].look
         /\ tick'[t].drop = tick[t].drop
         /\ tick'[t].look = tick[t].look \ {x}
         /\ tick'[t].send = tick[t].send \cup {x}
         /\ tick'[t].record = tick[t].record
         /\ tick'[t].body = tick[t].body
<1>1. tick'[t] = [tick[t] EXCEPT !.look = @ \ {x}, !.send = @ \cup {x}]
  BY DEF Address, TypeOK
<1>2. tick[t] \in Memory
  BY DEF TypeOK, Memory
<1>3. QED
  BY <1>1, <1>2 DEF Address, Memory

LEMMA LeaveMemory ==
  ASSUME TypeOK, NEW t \in Ticks, NEW x \in Rows, LeaveApproved(t, x)
  PROVE  /\ x \in tick[t].look
         /\ tick'[t].drop = tick[t].drop
         /\ tick'[t].look = tick[t].look \ {x}
         /\ tick'[t].send = tick[t].send
         /\ tick'[t].record = {}
         /\ tick'[t].body = [tick[t].body EXCEPT ![x] = 0]
  BY DEF LeaveApproved, Log, TypeOK

LEMMA MailMemory ==
  ASSUME TypeOK, NEW t \in Ticks, NEW g \in Groups, Mail(t, g)
  PROVE  /\ tick[t].record = {}
         /\ tick'[t].drop = tick[t].drop
         /\ tick'[t].look = tick[t].look
         /\ tick'[t].send = tick[t].send
         /\ tick'[t].record = g \cap (tick[t].send \ Silent)
         /\ tick'[t].body = tick[t].body
<1>1. tick'[t] = [tick[t] EXCEPT !.record = g \cap (tick[t].send \ Silent)]
  BY DEF Mail, TypeOK
<1>2. tick[t] \in Memory
  BY DEF TypeOK, Memory
<1>3. QED
  BY <1>1, <1>2 DEF Mail, Memory

LEMMA RecordMemory ==
  ASSUME TypeOK, NEW t \in Ticks, NEW x \in Rows, Record(t, x)
  PROVE  /\ tick'[t].drop = {}
         /\ tick'[t].look = {}
         /\ tick'[t].send = tick[t].send \ {x}
         /\ tick'[t].record = tick[t].record \ {x}
         /\ tick'[t].body = [tick[t].body EXCEPT ![x] = 0]
  BY DEF Record, Log, TypeOK

(***************************************************************************)
(* A run looks at each row once, and mails when it has looked at all.      *)
(***************************************************************************)

Apart ==
  \A t \in Ticks :
    /\ tick[t].drop \cap MaySend(t) = {}
    /\ tick[t].look \cap tick[t].send = {}
    /\ tick[t].drop \cup tick[t].look # {} => tick[t].record = {}

LEMMA RunApart ==
  ASSUME TypeOK, Apart, NEW t \in Ticks, RunStep(t)
  PROVE  Apart'
<1>1. \A u \in Ticks : u # t => tick'[u] = tick[u]
  BY RunEffect
<1> DEFINE Fine == /\ tick'[t].drop \cap (tick'[t].look \cup tick'[t].send) = {}
                   /\ tick'[t].look \cap tick'[t].send = {}
                   /\ \/ tick'[t].drop \cup tick'[t].look = {}
                      \/ tick'[t].record = {}
<1>2. CASE Select(t)
  <2>1. Fine
    BY <1>2, SelectMemory
  <2>2. QED
    BY <1>1, <2>1 DEF Apart, MaySend
<1>3. CASE Crash(t)
  <2>1. tick'[t] = NoTick
    BY <1>3 DEF Crash, TypeOK
  <2>2. Fine
    BY <2>1 DEF NoTick
  <2>3. QED
    BY <1>1, <2>2 DEF Apart, MaySend
<1>4. ASSUME NEW x \in Rows, CancelDone(t, x) PROVE Fine
  BY <1>4, CancelMemory DEF Apart, MaySend
<1>5. ASSUME NEW x \in Rows, Address(t, x) PROVE Fine
  BY <1>5, AddressMemory DEF Apart, MaySend
<1>6. ASSUME NEW x \in Rows, LeaveApproved(t, x) PROVE Fine
  BY <1>6, LeaveMemory DEF Apart, MaySend
<1>7. ASSUME NEW x \in Rows, Record(t, x) PROVE Fine
  BY <1>7, RecordMemory
<1>8. ASSUME NEW g \in Groups, Mail(t, g) PROVE Fine
  <2>1. tick[t].drop \cup tick[t].look = {}
    BY <1>8 DEF Mail
  <2>2. QED
    BY <1>8, <2>1, MailMemory
<1>9. CASE Fine
  BY <1>1, <1>9 DEF Apart, MaySend
<1>10. QED
  BY <1>2, <1>3, <1>4, <1>5, <1>6, <1>7, <1>8, <1>9 DEF RunStep

(***************************************************************************)
(* What is mailed was approved, or an edit slipped it under an approval.   *)
(***************************************************************************)

Vouched(r) == approved[r] \cup slipped[r]

ApprovedText ==
  \A r \in Rows : status[r] = "approved" => content[r] \in Vouched(r)

CarriesVouched ==
  \A t \in Ticks : \A r \in MaySend(t) : tick[t].body[r] \in Vouched(r)

TextInv == /\ IInv /\ Apart
           /\ OnlySlippedTextsLeave /\ ApprovedText /\ CarriesVouched

LEMMA AgencyText ==
  ASSUME TextInv, AgencyStep
  PROVE  TextInv'
<1> USE DEF TextInv, IInv
<1>1. Apart' /\ OnlySlippedTextsLeave' /\ CarriesVouched'
  <2>1. \A r \in Rows : Vouched(r) \subseteq Vouched(r)'
    BY AgencyEffect DEF Vouched
  <2>2. \A t \in Ticks : MaySend(t) \subseteq Rows
    BY DEF MaySend, TypeOK
  <2>3. UNCHANGED <<mailed, tick>>
    BY AgencyEffect
  <2>4. Apart'
    BY <2>3 DEF Apart, MaySend
  <2>5. OnlySlippedTextsLeave'
    BY <2>1, <2>3 DEF OnlySlippedTextsLeave, Vouched
  <2>6. CarriesVouched'
    BY <2>1, <2>2, <2>3 DEF CarriesVouched, MaySend
  <2>7. QED
    BY <2>4, <2>5, <2>6
<1>2. ASSUME NEW x \in Rows, CreateReminder(x) \/ CreateAutoReminder(x)
      PROVE  ApprovedText'
  <2>1. /\ UNCHANGED <<content, slipped>>
        /\ \/ Approve(x)
           \/ status' = [status EXCEPT ![x] = "to_approve"] /\ UNCHANGED approved
    BY <1>2 DEF CreateReminder, CreateAutoReminder, books
  <2>2. \A r \in Rows :
          /\ r # x => status'[r] = status[r]
          /\ approved[r] \subseteq approved'[r]
          /\ status'[r] = "approved" /\ r = x => content[r] \in approved'[r]
    BY <2>1, ApproveEffect DEF TypeOK
  <2>3. QED
    BY <2>1, <2>2 DEF ApprovedText, Vouched
<1>3. ASSUME UNCHANGED <<status, content, approved, slipped>>
      PROVE  ApprovedText'
  BY <1>3 DEF ApprovedText, Vouched
<1>4. ASSUME NEW a \in Agents, Write(a)
      PROVE  ApprovedText'
  <2> DEFINE x == gesture[a].row
  <2>1. x \in Rows
    BY DEF TypeOK
  <2>2. CASE Approve(x) /\ UNCHANGED <<content, slipped>>
    BY <2>1, <2>2, ApproveEffect DEF ApprovedText, Vouched
  <2>3. CASE Edit(x, gesture[a].was_approved)
    <3>1. /\ UNCHANGED approved
          /\ \A r \in Rows : r # x => status'[r] = status[r] /\ content'[r] = content[r]
          /\ \A r \in Rows : slipped[r] \subseteq slipped'[r]
      BY <2>1, <2>3 DEF Edit, TypeOK
    <3>2. status'[x] = "approved" => content'[x] \in slipped'[x]
      BY <2>1, <2>3 DEF Edit, TypeOK
    <3>3. QED
      BY <3>1, <3>2 DEF ApprovedText, Vouched
  <2>4. CASE gesture[a].kind \in {"cancel", "mark_sent"}
    <3>1. /\ UNCHANGED <<content, approved, slipped>>
          /\ \A r \in Rows : status'[r] = "approved" => status[r] = "approved"
      BY <1>4, <2>1, <2>4 DEF Write, TypeOK
    <3>2. QED
      BY <3>1 DEF ApprovedText, Vouched
  <2>5. QED
    BY <1>4, <2>2, <2>3, <2>4 DEF Write
<1>5. ApprovedText'
  BY <1>2, <1>3, <1>4, Zenon
     DEF AgencyStep, Read, Abandon, MoveStep, MoveAddress, books
<1>6. IInv'
  BY NextIInv, Zenon DEF Next, AgencyStep
<1>7. QED
  BY <1>1, <1>5, <1>6

LEMMA RunText ==
  ASSUME TextInv, NEW t \in Ticks, RunStep(t)
  PROVE  TextInv'
<1> USE DEF TextInv, IInv
<1>1. /\ ApprovedText'
      /\ \A r \in Rows : Vouched(r)' = Vouched(r)
      /\ \A u \in Ticks : u # t => tick'[u] = tick[u]
  BY RunEffect DEF ApprovedText, Vouched
<1>2. \A u \in Ticks : MaySend(u) \subseteq Rows
  BY DEF MaySend, TypeOK
<1>3. tick[t].body \in [Rows -> Contents]
  BY DEF TypeOK
<1>4. ASSUME \A r \in MaySend(t)' : /\ r \in Rows
                                    /\ tick'[t].body[r] \in Vouched(r)
      PROVE  CarriesVouched'
  BY <1>1, <1>2, <1>4 DEF CarriesVouched, MaySend
<1>5. ASSUME MaySend(t)' \subseteq MaySend(t),
             \A r \in MaySend(t)' : tick'[t].body[r] = tick[t].body[r]
      PROVE  CarriesVouched'
  BY <1>2, <1>4, <1>5 DEF CarriesVouched
<1>6. ASSUME Select(t)
      PROVE  CarriesVouched' /\ OnlySlippedTextsLeave'
  <2>1. \A r \in Due : TextOf(Due)[r] \in Vouched(r) /\ r \in Rows
    BY DEF TextOf, Due, ApprovedText
  <2>2. /\ MaySend(t)' \subseteq Due
        /\ tick'[t].body = TextOf(Due)
    BY <1>6, SelectMemory DEF MaySend
  <2>3. CarriesVouched'
    BY <1>4, <2>1, <2>2
  <2>4. OnlySlippedTextsLeave'
    BY <1>1, <1>6 DEF Select, Taken, OnlySlippedTextsLeave, Vouched
  <2>5. QED
    BY <2>3, <2>4
<1>7. ASSUME Crash(t)
      PROVE  CarriesVouched' /\ OnlySlippedTextsLeave'
  <2>1. tick'[t] = NoTick
    BY <1>7 DEF Crash, TypeOK
  <2>2. MaySend(t)' = {}
    BY <2>1 DEF MaySend, NoTick
  <2>3. CarriesVouched'
    BY <1>5, <2>2
  <2>4. OnlySlippedTextsLeave'
    BY <1>1, <1>7 DEF Crash, books, OnlySlippedTextsLeave, Vouched
  <2>5. QED
    BY <2>3, <2>4
<1>8. ASSUME NEW x \in Rows, CancelDone(t, x)
      PROVE  CarriesVouched' /\ UNCHANGED mailed
  <2>1. MaySend(t)' = MaySend(t) /\ x \notin MaySend(t)
    BY <1>8, CancelMemory DEF MaySend, Apart
  <2>2. tick'[t].body = [tick[t].body EXCEPT ![x] = 0]
    BY <1>8, CancelMemory
  <2>3. \A r \in MaySend(t)' : tick'[t].body[r] = tick[t].body[r]
    BY <1>2, <1>3, <2>1, <2>2
  <2>4. QED
    BY <1>5, <1>8, <2>1, <2>3 DEF CancelDone, books
<1>9. ASSUME NEW x \in Rows, Address(t, x)
      PROVE  CarriesVouched' /\ UNCHANGED mailed
  <2>1. MaySend(t)' = MaySend(t)
    BY <1>9, AddressMemory DEF MaySend
  <2>2. QED
    BY <1>5, <1>9, <2>1, AddressMemory DEF Address, books
<1>10. ASSUME NEW x \in Rows, LeaveApproved(t, x)
       PROVE  CarriesVouched' /\ UNCHANGED mailed
  <2>1. /\ tick'[t].look = tick[t].look \ {x} /\ tick'[t].send = tick[t].send
        /\ tick'[t].body = [tick[t].body EXCEPT ![x] = 0]
        /\ x \notin tick[t].send
    BY <1>10, LeaveMemory DEF Apart
  <2>2. MaySend(t)' \subseteq MaySend(t) /\ x \notin MaySend(t)'
    BY <2>1 DEF MaySend
  <2>3. \A r \in MaySend(t)' : tick'[t].body[r] = tick[t].body[r]
    BY <1>2, <1>3, <2>1, <2>2
  <2>4. QED
    BY <1>5, <1>10, <2>2, <2>3 DEF LeaveApproved, books
<1>11. ASSUME NEW x \in Rows, Record(t, x)
       PROVE  CarriesVouched' /\ UNCHANGED mailed
  <2>1. /\ tick'[t].look = {} /\ tick'[t].send = tick[t].send \ {x}
        /\ tick'[t].body = [tick[t].body EXCEPT ![x] = 0]
    BY <1>11, RecordMemory
  <2>2. MaySend(t)' \subseteq MaySend(t) /\ x \notin MaySend(t)'
    BY <2>1 DEF MaySend
  <2>3. \A r \in MaySend(t)' : tick'[t].body[r] = tick[t].body[r]
    BY <1>2, <1>3, <2>1, <2>2
  <2>4. QED
    BY <1>5, <1>11, <2>2, <2>3 DEF Record, books
<1>12. ASSUME NEW g \in Groups, Mail(t, g)
       PROVE  CarriesVouched' /\ OnlySlippedTextsLeave'
  <2> DEFINE rows == g \cap (tick[t].send \ Silent)
  <2>1. mailed' = [r \in Rows |-> IF r \in rows
                                    THEN mailed[r] \cup {tick[t].body[r]}
                                    ELSE mailed[r]]
    BY <1>12 DEF Mail
  <2>2. \A r \in rows : r \in Rows /\ tick[t].body[r] \in Vouched(r)
    BY <1>2 DEF CarriesVouched, MaySend
  <2>3. CarriesVouched'
    BY <1>5, <1>12, MailMemory DEF MaySend
  <2> HIDE DEF rows
  <2>4. OnlySlippedTextsLeave'
    BY <1>1, <2>1, <2>2 DEF OnlySlippedTextsLeave, Vouched
  <2>5. QED
    BY <2>3, <2>4
<1>13. CarriesVouched' /\ OnlySlippedTextsLeave'
  <2>1. ASSUME UNCHANGED mailed PROVE OnlySlippedTextsLeave'
    BY <1>1, <2>1 DEF OnlySlippedTextsLeave, Vouched
  <2>2. QED
    BY <1>6, <1>7, <1>8, <1>9, <1>10, <1>11, <1>12, <2>1 DEF RunStep
<1>14. QED
  BY <1>1, <1>13, RunApart, NextIInv, Zenon DEF Next, RunStep

LEMMA TextInvariance == Spec => []TextInv
<1>1. Init => TextInv
  <2> SUFFICES ASSUME Init PROVE TextInv
    OBVIOUS
  <2>1. \A t \in Ticks : tick[t] = NoTick
    BY DEF Init
  <2>2. Apart /\ CarriesVouched
    BY <2>1 DEF Apart, CarriesVouched, MaySend, NoTick
  <2>3. OnlySlippedTextsLeave /\ ApprovedText
    BY DEF Init, OnlySlippedTextsLeave, ApprovedText
  <2>4. QED
    BY <2>2, <2>3, InitIInv DEF TextInv
<1>2. TextInv /\ [Next]_vars => TextInv'
  <2>1. ASSUME TextInv, UNCHANGED vars PROVE TextInv'
    BY <2>1, NextIInv DEF TextInv, vars, books, OnlySlippedTextsLeave,
       ApprovedText, CarriesVouched, Vouched, Apart, MaySend
  <2>2. QED
    BY <2>1, NextSplit, AgencyText, RunText
<1>3. QED
  BY <1>1, <1>2, PTL DEF Spec

\* Whatever requests and runs race, for any number of rows: every text that
\* is mailed was approved, or was written by an edit on a row approved since
\* that edit had read it.
THEOREM MailsApproved == Spec => []OnlySlippedTextsLeave
<1>1. TextInv => OnlySlippedTextsLeave
  BY DEF TextInv
<1>2. QED
  BY <1>1, TextInvariance, PTL

(***************************************************************************)
(* One approval sends one mail.  The runs that have still to mail a row    *)
(* are counted: more than one takes a row only by sharing it.              *)
(***************************************************************************)

ToMail(r) == {t \in Ticks : r \in MaySend(t) /\ r \notin tick[t].record}

\* The row waits for a run.
Awaits(r) == status[r] = "approved" /\ \A t \in Ticks : r \notin MaySend(t)

Owed(r) == Cardinality(ToMail(r)) + (IF Awaits(r) THEN 1 ELSE 0)

\* Every approval, death and sharing is spent on a mail, or owes at most one.
OneOwed ==
  \A r \in Rows : mails[r] + Owed(r) <= approvals[r] + crashes + shares

LEMMA OneElement ==
  ASSUME NEW S, NEW T, NEW t, IsFiniteSet(S), S \ {t} = T \ {t}
  PROVE  /\ Cardinality(S) \in Nat
         /\ Cardinality(T) \in Nat
         /\ Cardinality(T) <= Cardinality(S) + 1
         /\ t \notin T \/ t \in S => Cardinality(T) <= Cardinality(S)
         /\ t \in S /\ t \notin T => Cardinality(T) + 1 = Cardinality(S)
<1> DEFINE R == S \ {t}
<1>1. IsFiniteSet(R)
  BY FS_RemoveElement
<1>2. S = IF t \in S THEN R \cup {t} ELSE R
  OBVIOUS
<1>3. T = IF t \in T THEN R \cup {t} ELSE R
  OBVIOUS
<1>4. t \notin R
  OBVIOUS
<1>5. Cardinality(R) \in Nat
  BY <1>1, FS_CardinalityType
<1> HIDE DEF R
<1>6. Cardinality(R \cup {t}) = Cardinality(R) + 1
  BY <1>1, <1>4, FS_AddElement
<1>7. Cardinality(S) = Cardinality(R) + (IF t \in S THEN 1 ELSE 0)
  BY <1>2, <1>5, <1>6
<1>8. Cardinality(T) = Cardinality(R) + (IF t \in T THEN 1 ELSE 0)
  <2>1. CASE t \in T
    BY <1>3, <1>6, <2>1
  <2>2. CASE t \notin T
    <3>1. T = R
      BY <1>3, <2>2
    <3>2. QED
      BY <1>5, <2>2, <3>1
  <2>3. QED
    BY <2>1, <2>2
<1>9. QED
  BY <1>5, <1>7, <1>8

LEMMA ToMailFinite == \A r \in Rows : IsFiniteSet(ToMail(r))
<1>1. IsFiniteSet(Ticks)
  <2>1. 1 \in Int /\ MaxTicks \in Int
    BY BoundAssumption
  <2>2. QED
    BY <2>1, FS_Interval DEF Ticks
<1>2. \A r \in Rows : ToMail(r) \in SUBSET Ticks
  BY DEF ToMail
<1>3. QED
  BY <1>1, <1>2, FS_Subset

LEMMA AgencyOwes ==
  ASSUME IInv, OneOwed, AgencyStep, IInv'
  PROVE  OneOwed'
<1> SUFFICES ASSUME NEW r \in Rows
             PROVE  mails'[r] + Owed(r)' <= approvals'[r] + crashes' + shares'
  BY DEF OneOwed
<1>1. /\ mails[r] \in Nat /\ approvals[r] \in Nat
      /\ crashes \in Nat /\ shares \in Nat
      /\ approvals'[r] \in Nat
  BY DEF IInv, TypeOK
<1>2. /\ UNCHANGED <<mailed, mails, shares, tick, crashes>>
      /\ approvals'[r] >= approvals[r]
      /\ status'[r] = "approved" =>
           status[r] = "approved" \/ approvals'[r] = approvals[r] + 1
  BY AgencyEffect DEF IInv
<1>3. mails[r] + Owed(r) <= approvals[r] + crashes + shares
  BY DEF OneOwed
<1>4. ToMail(r)' = ToMail(r)
  BY <1>2 DEF ToMail, MaySend
<1>5. Cardinality(ToMail(r)) \in Nat
  BY ToMailFinite, FS_CardinalityType
<1>6. Awaits(r)' => Awaits(r) \/ approvals'[r] = approvals[r] + 1
  BY <1>2 DEF Awaits, MaySend
<1>7. QED
  BY <1>1, <1>2, <1>3, <1>4, <1>5, <1>6 DEF Owed

LEMMA RunOwes ==
  ASSUME IInv, Apart, OneOwed, NEW t \in Ticks, RunStep(t)
  PROVE  OneOwed'
<1> SUFFICES ASSUME NEW r \in Rows
             PROVE  mails'[r] + Owed(r)' <= approvals'[r] + crashes' + shares'
  BY DEF OneOwed
<1> USE DEF IInv
<1>1. /\ mails[r] \in Nat /\ approvals[r] \in Nat
      /\ crashes \in Nat /\ shares \in Nat
  BY DEF TypeOK
<1>2. mails[r] + Owed(r) <= approvals[r] + crashes + shares
  BY DEF OneOwed
<1>3. /\ UNCHANGED approvals
      /\ \A u \in Ticks : u # t => tick'[u] = tick[u]
      /\ status'[r] = "approved" => status[r] = "approved"
  BY RunEffect
<1> DEFINE S == ToMail(r)
           T == ToMail(r)'
           n == Cardinality(S)
           m == Cardinality(T)
<1>4. S \ {t} = T \ {t}
  BY <1>3 DEF ToMail, MaySend
<1>5. /\ n \in Nat /\ m \in Nat /\ m <= n + 1
      /\ t \notin T \/ t \in S => m <= n
      /\ t \in S /\ t \notin T => m + 1 = n
  BY <1>4, ToMailFinite, OneElement
<1>6. /\ t \in S <=> r \in MaySend(t) /\ r \notin tick[t].record
      /\ t \in T <=> r \in MaySend(t)' /\ r \notin tick'[t].record
  BY DEF ToMail
<1>7. /\ Owed(r) = n + (IF Awaits(r) THEN 1 ELSE 0)
      /\ Owed(r)' = m + (IF Awaits(r)' THEN 1 ELSE 0)
  BY DEF Owed
<1> HIDE DEF S, T, n, m
<1>8. ASSUME UNCHANGED <<mails, crashes, shares>>,
             t \notin T \/ t \in S,
             Awaits(r)' => Awaits(r) \/ (t \in S /\ t \notin T)
      PROVE  mails'[r] + Owed(r)' <= approvals'[r] + crashes' + shares'
  BY <1>1, <1>2, <1>3, <1>5, <1>7, <1>8
<1>9. ASSUME Awaits(r)', r \notin MaySend(t)
      PROVE  Awaits(r)
  BY <1>3, <1>9 DEF Awaits, MaySend
<1>10. CASE Select(t)
  <2>1. /\ UNCHANGED <<status, mails, crashes>>
        /\ shares' = IF Shared(t) = {} THEN shares ELSE shares + 1
        /\ MaySend(t) = {}
    BY <1>10 DEF Select, Taken, MayBegin, Idle, Has
  <2>2. /\ r \in MaySend(t)' => r \in Due
        /\ r \in Due => status[r] = "approved"
    BY <1>10, SelectMemory DEF MaySend
  <2>3. CASE r \notin MaySend(t)'
    <3>1. UNCHANGED shares \/ shares' = shares + 1
      BY <2>1
    <3>2. t \notin T /\ (Awaits(r)' => Awaits(r))
      BY <1>6, <1>9, <2>1, <2>3
    <3>3. QED
      BY <1>1, <1>2, <1>3, <1>5, <1>7, <2>1, <3>1, <3>2
  <2>4. CASE r \in MaySend(t)'
    <3>1. ~Awaits(r)'
      BY <2>4 DEF Awaits
    <3>2. CASE Awaits(r)
      <4>1. shares' = shares \/ shares' = shares + 1
        BY <2>1
      <4>2. QED
        BY <1>1, <1>2, <1>3, <1>5, <1>7, <2>1, <3>1, <3>2, <4>1
    <3>3. CASE ~Awaits(r)
      <4>1. PICK u \in Ticks : r \in MaySend(u)
        BY <2>2, <2>4, <3>3 DEF Awaits
      <4>2. r \in Shared(t)
        BY <2>1, <2>2, <2>4, <4>1 DEF Shared
      <4>3. shares' = shares + 1
        BY <2>1, <4>2
      <4>4. QED
        BY <1>1, <1>2, <1>3, <1>5, <1>7, <2>1, <3>1, <3>3, <4>3
    <3>4. QED
      BY <3>2, <3>3
  <2>5. QED
    BY <2>3, <2>4
<1>11. CASE Crash(t)
  <2>1. crashes' = crashes + 1 /\ UNCHANGED <<mails, shares>>
    BY <1>11 DEF Crash, books
  <2>2. tick'[t] = NoTick
    BY <1>11 DEF Crash, TypeOK
  <2>3. t \notin T
    BY <1>6, <2>2 DEF MaySend, NoTick
  <2>4. QED
    BY <1>1, <1>2, <1>3, <1>5, <1>7, <2>1, <2>3
<1>12. ASSUME NEW x \in Rows, CancelDone(t, x)
       PROVE  mails'[r] + Owed(r)' <= approvals'[r] + crashes' + shares'
  <2>1. UNCHANGED <<mails, crashes, shares>> /\ MaySend(t)' = MaySend(t)
    BY <1>12, CancelMemory DEF CancelDone, books, MaySend
  <2>2. tick[t].record = {}
    BY <1>12, CancelMemory DEF Apart
  <2>3. t \notin T \/ t \in S
    BY <1>6, <2>1, <2>2
  <2>4. Awaits(r)' => Awaits(r)
    BY <1>9, <2>1 DEF Awaits
  <2>5. QED
    BY <1>8, <2>1, <2>3, <2>4
<1>13. ASSUME NEW x \in Rows, Address(t, x)
       PROVE  mails'[r] + Owed(r)' <= approvals'[r] + crashes' + shares'
  <2>1. UNCHANGED <<mails, crashes, shares>> /\ MaySend(t)' = MaySend(t)
    BY <1>13, AddressMemory DEF Address, books, MaySend
  <2>2. tick'[t].record = tick[t].record
    BY <1>13, AddressMemory
  <2>3. t \notin T \/ t \in S
    BY <1>6, <2>1, <2>2
  <2>4. Awaits(r)' => Awaits(r)
    BY <1>9, <2>1 DEF Awaits
  <2>5. QED
    BY <1>8, <2>1, <2>3, <2>4
<1>14. ASSUME NEW x \in Rows, LeaveApproved(t, x)
       PROVE  mails'[r] + Owed(r)' <= approvals'[r] + crashes' + shares'
  <2>1. /\ UNCHANGED <<mails, crashes, shares>>
        /\ tick'[t].look = tick[t].look \ {x}
        /\ tick'[t].send = tick[t].send
    BY <1>14, LeaveMemory DEF LeaveApproved, books
  <2>2. tick[t].record = {}
    BY <1>14, LeaveMemory DEF Apart
  <2>3. t \notin T \/ t \in S
    BY <1>6, <2>1, <2>2 DEF MaySend
  <2>4. Awaits(r)' => Awaits(r) \/ (t \in S /\ t \notin T)
    <3>1. ASSUME Awaits(r)', r \in MaySend(t)
          PROVE  t \in S /\ t \notin T
      BY <1>6, <2>2, <3>1 DEF Awaits
    <3>2. QED
      BY <1>9, <3>1
  <2>5. QED
    BY <1>8, <2>1, <2>3, <2>4
<1>15. ASSUME NEW x \in Rows, Record(t, x)
       PROVE  mails'[r] + Owed(r)' <= approvals'[r] + crashes' + shares'
  <2>1. /\ UNCHANGED <<mails, crashes, shares>>
        /\ status' = [status EXCEPT ![x] = "sent"]
        /\ x \in tick[t].send
        /\ x \in tick[t].record \/ Has(t) \subseteq tick[t].send \cap Silent
    BY <1>15 DEF Record, books, TypeOK
  <2>2. tick[t].look = {}
    <3>1. CASE x \in tick[t].record
      BY <3>1 DEF Apart
    <3>2. CASE Has(t) \subseteq tick[t].send \cap Silent
      BY <3>2 DEF Apart, Has, MaySend
    <3>3. QED
      BY <2>1, <3>1, <3>2
  <2>3. /\ MaySend(t) = tick[t].send
        /\ MaySend(t)' = tick[t].send \ {x}
        /\ tick'[t].record = tick[t].record \ {x}
    BY <1>15, <2>2, RecordMemory DEF MaySend
  <2>4. t \notin T \/ t \in S
    BY <1>6, <2>3
  <2>5. Awaits(r)' => Awaits(r)
    <3>1. CASE r = x
      BY <2>1, <3>1 DEF Awaits, TypeOK
    <3>2. CASE r # x
      BY <1>9, <2>3, <3>2 DEF Awaits
    <3>3. QED
      BY <3>1, <3>2
  <2>6. QED
    BY <1>8, <2>1, <2>4, <2>5
<1>16. ASSUME NEW g \in Groups, Mail(t, g)
       PROVE  mails'[r] + Owed(r)' <= approvals'[r] + crashes' + shares'
  <2> DEFINE rows == g \cap (tick[t].send \ Silent)
  <2>1. /\ UNCHANGED <<status, crashes, shares>>
        /\ mails' = [x \in Rows |-> IF x \in rows THEN mails[x] + 1 ELSE mails[x]]
    BY <1>16 DEF Mail
  <2>2. /\ tick[t].record = {} /\ MaySend(t)' = MaySend(t)
        /\ tick'[t].record = rows /\ rows \subseteq MaySend(t)
    BY <1>16, MailMemory DEF MaySend
  <2> HIDE DEF rows
  <2>3. Awaits(r)' => Awaits(r)
    BY <1>9, <2>2 DEF Awaits
  <2>4. CASE r \in rows
    <3>1. mails'[r] = mails[r] + 1 /\ t \in S /\ t \notin T
      BY <1>6, <2>1, <2>2, <2>4
    <3>2. QED
      BY <1>1, <1>2, <1>3, <1>5, <1>7, <2>1, <2>3, <3>1
  <2>5. CASE r \notin rows
    <3>1. mails'[r] = mails[r] /\ (t \notin T \/ t \in S)
      BY <1>6, <2>1, <2>2, <2>5
    <3>2. QED
      BY <1>1, <1>2, <1>3, <1>5, <1>7, <2>1, <2>3, <3>1
  <2>6. QED
    BY <2>4, <2>5
<1>17. QED
  BY <1>10, <1>11, <1>12, <1>13, <1>14, <1>15, <1>16 DEF RunStep

\* However many runs overlap and requests race them, a row is mailed once for
\* each approval, and once more only for a run that died or one that took the
\* row while another still had it.
THEOREM MailedOnce == Spec => []MailedOncePerApproval
<1>1. Init => OneOwed
  <2> SUFFICES ASSUME Init, NEW r \in Rows
               PROVE  mails[r] + Owed(r) <= approvals[r] + crashes + shares
    BY DEF OneOwed
  <2>1. ToMail(r) = {} /\ ~Awaits(r)
    BY DEF Init, NoTick, ToMail, Awaits, MaySend
  <2>2. Owed(r) = 0
    BY <2>1, FS_EmptySet DEF Owed
  <2>3. QED
    BY <2>2 DEF Init
<1>2. TextInv /\ TextInv' /\ OneOwed /\ [Next]_vars => OneOwed'
  <2>1. ASSUME OneOwed, UNCHANGED vars PROVE OneOwed'
    <3>1. \A r \in Rows : ToMail(r)' = ToMail(r) /\ Awaits(r)' = Awaits(r)
      BY <2>1 DEF vars, ToMail, Awaits, MaySend
    <3>2. QED
      BY <2>1, <3>1 DEF vars, books, OneOwed, Owed
  <2>2. QED
    BY <2>1, NextSplit, AgencyOwes, RunOwes DEF TextInv
<1>3. TextInv /\ OneOwed => MailedOncePerApproval
  <2> SUFFICES ASSUME TextInv, OneOwed, NEW r \in Rows
               PROVE  mails[r] <= approvals[r] + crashes + shares
    BY DEF MailedOncePerApproval
  <2>1. /\ mails[r] \in Nat /\ approvals[r] \in Nat
        /\ crashes \in Nat /\ shares \in Nat
    BY DEF TextInv, IInv, TypeOK
  <2>2. Cardinality(ToMail(r)) \in Nat
    BY ToMailFinite, FS_CardinalityType
  <2>3. QED
    BY <2>1, <2>2 DEF OneOwed, Owed
<1>4. QED
  BY <1>1, <1>2, <1>3, TextInvariance, PTL DEF Spec
=============================================================================
