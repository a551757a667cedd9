---------------------- MODULE SignatureRequestsProofs ----------------------
(***************************************************************************)
(* Proofs about SignatureRequests for any number of persons, requests and  *)
(* credits: the ledger agrees with the requests, only resends that overlap *)
(* seat a person on two open requests, and the requests implement the      *)
(* credit contract of SignatureCredit.                                     *)
(*                                                                         *)
(* The inductive invariant has four parts.  TypeOK types the state.  Paid  *)
(* ties the status of a request to its credit and to its file.  Signed     *)
(* says the provider only knows signatures of seats that exist, so that a  *)
(* webhook never creates a seat.  Seating says seats belong to persons of  *)
(* the case, so that a late person is seated nowhere, and that open        *)
(* requests that knew each other do not share a person; a resend under way *)
(* holds nobody who has a seat on an open request it has seen.             *)
(***************************************************************************)
EXTENDS SignatureRequests, TLAPS

Paid ==
  \A r \in Requests :
    /\ Open(r) <=> credit[r] = "reserved"
    /\ status[r] = "none" <=> credit[r] = "none"
    /\ stored[r] = IF status[r] = "completed" THEN 1 ELSE 0
    /\ credit[r] = "consumed" => status[r] = "completed"

Signed ==
  \A r \in Requests :
    /\ submission[r].signed \subseteq SeatsTaken(r)
    /\ status[r] = "none" => /\ submission[r].signed = {}
                             /\ submission[r].state = "none"

\* Nobody of people sits on an open request of seen.
Unseated(people, seen) ==
  \A p \in people, q \in seen : Open(q) => seat[q][p] = "none"

\* What a resend has read still stands for the requests it has seen.
Held(x) ==
  /\ x.people \subseteq persons \cap Persons
  /\ x.known \subseteq OnFile
  /\ Unseated(x.people, x.known)

Seating ==
  /\ \A p \in Persons, r \in Requests : seat[r][p] # "none" => p \in persons
  /\ \A r \in Requests : known[r] \subseteq OnFile
  /\ \A h \in Resends : Held(resend[h])
  /\ OnlyOverlapsReseat

Inv == TypeOK /\ Paid /\ Signed /\ Seating

(***************************************************************************)
(* What a step does to the requests: most do nothing, some send, and the   *)
(* others are the actions of one request.                                  *)
(***************************************************************************)

Sends ==
  \E people \in SUBSET persons', partial \in BOOLEAN, seen \in SUBSET OnFile :
    /\ people \subseteq Persons /\ Unseated(people, seen)
    /\ SendOne(people, partial, seen)

Acts(r) ==
  \/ CancelRequest(r)
  \/ CancelLost(r)
  \/ ProviderExpire(r)
  \/ OnSubmissionEnded(r)
  \/ \E s \in Seats :
       \/ ProviderSign(r, s)
       \/ ProviderDecline(r, s)
       \/ OnFormCompleted(r, s)
       \/ OnFormDeclined(r, s)

\* A step leaves the requests alone, sends one to people who hold no seat,
\* buys credits, or is an action of one request; nobody leaves the case, and
\* what the resends have read is right about the requests before the step.
LEMMA Effects ==
  ASSUME Inv, [Next]_vars
  PROVE /\ persons \subseteq persons'
        /\ \A h \in Resends : Held(resend'[h])
        /\ \/ UNCHANGED requests
           \/ Sends
           \/ AddCredits
           \/ \E r \in Requests : Acts(r)
<1> USE DEF requests, step_vars
<1>0. resend \in [Resends -> Readings] /\ \A h \in Resends : Held(resend[h])
  BY DEF Inv, TypeOK, Seating
<1>1. CASE UNCHANGED vars
  BY <1>0, <1>1 DEF vars
<1>2. CASE AddCredits
  BY <1>0, <1>2 DEF AddCredits
<1>3. CASE ToggleSwitch
  BY <1>0, <1>3 DEF ToggleSwitch
<1>4. CASE StartStep
  <2>1. persons' = persons /\ SendForProgress(persons) /\ resend' = resend
    BY <1>4 DEF StartStep
  <2>2. CASE ~enabled \/ persons \subseteq Seated
    BY <1>0, <2>1, <2>2 DEF SendForProgress
  <2>3. CASE ~(~enabled \/ persons \subseteq Seated)
    <3>1. SendOne(persons \ Seated, FALSE, OnFile)
      BY <2>1, <2>3 DEF SendForProgress
    <3>2. persons \ Seated \in SUBSET persons' /\ persons \subseteq Persons
      BY <2>1 DEF Inv, TypeOK
    <3>3. Unseated(persons \ Seated, OnFile)
      BY <3>2 DEF Unseated, Seated, Live, OnFile
    <3>. QED BY <1>0, <2>1, <3>1, <3>2, <3>3 DEF Sends
  <2>. QED BY <2>2, <2>3
<1>5. CASE CompleteStep
  BY <1>0, <1>5 DEF CompleteStep
<1>6. CASE ReopenStep
  BY <1>0, <1>6 DEF ReopenStep
<1>7. ASSUME NEW h \in Resends, ResendRequests(h)
      PROVE /\ UNCHANGED requests /\ persons' = persons
            /\ \A g \in Resends : Held(resend'[g])
  <2> DEFINE asked == {p \in persons : row[p] # "none"} \ Seated
             reading == [people |-> asked, known |-> OnFile]
  <2>1. UNCHANGED requests /\ persons' = persons
        /\ resend' = [resend EXCEPT ![h] = reading]
    BY <1>7 DEF ResendRequests
  <2>2. Held(reading)
    BY DEF Held, Unseated, Seated, Live, OnFile, Inv, TypeOK
  <2> HIDE DEF reading
  <2>. QED BY <1>0, <2>1, <2>2
<1>8. ASSUME NEW p \in Persons, AddPerson(p)
      PROVE /\ persons \subseteq persons' /\ resend' = resend
            /\ UNCHANGED requests \/ Sends
  <2>1. p \notin persons /\ persons' = persons \cup {p} /\ resend' = resend
    BY <1>8 DEF AddPerson
  <2>2. UNCHANGED requests \/ SendOne({p}, TRUE, OnFile)
    BY <1>8 DEF AddPerson
  <2>3. {p} \in SUBSET persons' /\ Unseated({p}, OnFile)
    BY <2>1 DEF Inv, Seating, Unseated, OnFile
  <2>. QED BY <2>1, <2>2, <2>3 DEF Sends
<1>9. ASSUME NEW h \in Resends, SendAgain(h)
      PROVE /\ Sends /\ persons' = persons
            /\ resend' = [resend EXCEPT ![h] = Nothing]
  <2>1. /\ SendOne(resend[h].people, FALSE, resend[h].known)
        /\ persons' = persons /\ resend' = [resend EXCEPT ![h] = Nothing]
    BY <1>9 DEF SendAgain
  <2>2. Held(resend[h]) /\ persons \subseteq Persons
    BY <1>0 DEF Inv, TypeOK
  <2>. QED BY <2>1, <2>2 DEF Sends, Held
<1>10. ASSUME NEW h \in Resends, GiveUp(h)
       PROVE /\ UNCHANGED requests /\ persons' = persons
             /\ resend' = [resend EXCEPT ![h] = Nothing]
  BY <1>10 DEF GiveUp
<1>11. ASSUME NEW h \in Resends, resend' = [resend EXCEPT ![h] = Nothing]
       PROVE \A g \in Resends : Held(resend'[g])
  BY <1>0, <1>11 DEF Held, Unseated, Nothing
<1>12. ASSUME NEW r \in Requests, Acts(r) PROVE persons' = persons /\ resend' = resend
  BY <1>12 DEF Acts, CancelRequest, CancelLost, ProviderExpire, OnSubmissionEnded,
     ProviderSign, ProviderDecline, OnFormCompleted, OnFormDeclined
<1>13. CASE \E h \in Resends : ResendRequests(h) \/ SendAgain(h) \/ GiveUp(h)
  BY Zenon, <1>7, <1>9, <1>10, <1>11, <1>13
<1>14. CASE \E p \in Persons : AddPerson(p)
  BY <1>0, <1>8, <1>14
<1>15. CASE \E r \in Requests : Acts(r)
  BY <1>0, <1>12, <1>15
<1>. QED
  <2>1. \/ UNCHANGED vars \/ AddCredits \/ ToggleSwitch \/ StartStep
        \/ CompleteStep \/ ReopenStep
        \/ \E h \in Resends : ResendRequests(h) \/ SendAgain(h) \/ GiveUp(h)
        \/ \E p \in Persons : AddPerson(p)
        \/ \E r \in Requests : Acts(r)
    BY Zenon DEF Next, Acts
  <2>. QED BY <2>1, <1>1, <1>2, <1>3, <1>4, <1>5, <1>6, <1>13, <1>14, <1>15

(***************************************************************************)
(* Types.                                                                  *)
(***************************************************************************)

RequestsOK ==
  /\ status \in [Requests -> RequestStatuses]
  /\ seat \in [Requests -> [Seats -> {"none", "pending", "signed", "declined"}]]
  /\ stored \in [Requests -> Nat]
  /\ available \in Nat
  /\ credit \in [Requests -> {"none", "reserved", "consumed", "released"}]
  /\ submission \in [Requests -> Submissions]
  /\ known \in [Requests -> SUBSET Requests]

CaseOK ==
  /\ template \in Templates
  /\ enabled \in BOOLEAN
  /\ step \in Steps
  /\ persons \in SUBSET Persons
  /\ row \in [Persons -> {"none", "pending", "provided"}]
  /\ resend \in [Resends -> Readings]

LEMMA TypeParts == TypeOK <=> CaseOK /\ RequestsOK
BY DEF TypeOK, CaseOK, RequestsOK

LEMMA AutoCloseTypes ==
  ASSUME step \in Steps, AutoClose PROVE step' \in Steps
<1>1. step' = [status |-> "done", auto |-> TRUE] \/ step' = step
  BY Zenon DEF AutoClose
<1>2. [status |-> "done", auto |-> TRUE] \in Steps
  BY Zenon DEF Steps
<1>. QED BY <1>1, <1>2

\* The case keeps its types.
LEMMA CaseTypes ==
  ASSUME TypeOK, [Next]_vars PROVE CaseOK'
<1> USE DEF TypeOK, CaseOK
<1>1. CASE UNCHANGED vars
  BY <1>1 DEF vars
<1>2. CASE AddCredits
  BY <1>2 DEF AddCredits, step_vars
<1>3. CASE ToggleSwitch
  BY <1>3 DEF ToggleSwitch, step_vars
<1>4. CASE StartStep
  BY <1>4 DEF StartStep, Steps
<1>5. CASE CompleteStep
  BY <1>5 DEF CompleteStep, Steps
<1>6. CASE ReopenStep
  BY <1>6 DEF ReopenStep, Steps
<1>7. ASSUME NEW h \in Resends, ResendRequests(h) \/ SendAgain(h) \/ GiveUp(h)
      PROVE CaseOK'
  <2>1. UNCHANGED <<template, step, persons, row, enabled>>
    BY <1>7 DEF ResendRequests, SendAgain, GiveUp, step_vars
  <2>2. Nothing \in Readings
    BY DEF Nothing, Readings
  <2>3. OnFile \subseteq Requests /\ {p \in persons : row[p] # "none"} \ Seated \subseteq Persons
    BY DEF OnFile
  <2>4. PICK x \in Readings : resend' = [resend EXCEPT ![h] = x]
    <3> DEFINE x == [people |-> {p \in persons : row[p] # "none"} \ Seated,
                     known |-> OnFile]
    <3>1. x \in Readings
      BY <2>3 DEF Readings
    <3>2. CASE ResendRequests(h)
      BY <3>1, <3>2 DEF ResendRequests
    <3>3. CASE SendAgain(h) \/ GiveUp(h)
      BY <2>2, <3>3 DEF SendAgain, GiveUp
    <3>. QED BY <1>7, <3>2, <3>3
  <2>5. resend' \in [Resends -> Readings]
    BY <2>4
  <2>. QED BY <2>1, <2>5
<1>8. ASSUME NEW p \in Persons, AddPerson(p) PROVE CaseOK'
  BY <1>8 DEF AddPerson
<1>9. ASSUME NEW r \in Requests, NEW s \in Seats, OnFormCompleted(r, s) PROVE CaseOK'
  <2>1. step' \in Steps
    BY <1>9, AutoCloseTypes DEF OnFormCompleted
  <2>2. row' \in [Persons -> {"none", "pending", "provided"}]
    BY <1>9 DEF OnFormCompleted, RowsAfter
  <2>. QED BY <1>9, <2>1, <2>2 DEF OnFormCompleted
<1>10. ASSUME NEW r \in Requests, Acts(r), ~\E s \in Seats : OnFormCompleted(r, s)
       PROVE CaseOK'
  BY <1>10 DEF Acts, CancelRequest, CancelLost, ProviderExpire, OnSubmissionEnded,
     ProviderSign, ProviderDecline, OnFormDeclined, step_vars
<1>. QED BY Zenon, <1>1, <1>2, <1>3, <1>4, <1>5, <1>6, <1>7, <1>8, <1>9, <1>10 DEF Next, Acts

(***************************************************************************)
(* The request a step sends.                                               *)
(***************************************************************************)

States == {"none", "open", "completed", "archived", "expired"}

\* Writing the state of a submission leaves the others and who signed alone.
LEMMA StateWritten ==
  ASSUME NEW r \in Requests, NEW x \in States,
         submission \in [Requests -> Submissions],
         submission' = [submission EXCEPT ![r].state = x]
  PROVE /\ submission' \in [Requests -> Submissions]
        /\ \A q \in Requests : submission'[q].signed = submission[q].signed
        /\ \A q \in Requests : q # r => submission'[q] = submission[q]
<1> DEFINE written == [submission[r] EXCEPT !.state = x]
<1>1. submission[r] \in Submissions
  OBVIOUS
<1>2. written \in Submissions /\ written.signed = submission[r].signed
  BY <1>1 DEF Submissions, States
<1>3. submission' = [submission EXCEPT ![r] = written]
  OBVIOUS
<1> HIDE DEF written
<1>. QED BY <1>2, <1>3

\* A sent request keeps every part of the invariant.
LEMMA SendKeeps ==
  ASSUME Inv, CaseOK', persons \subseteq persons', Sends,
         \A h \in Resends : Held(resend'[h])
  PROVE RequestsOK' /\ Paid' /\ Signed' /\ Seating'
<1>1. PICK people \in SUBSET persons', partial \in BOOLEAN, seen \in SUBSET OnFile :
        /\ people \subseteq Persons /\ Unseated(people, seen)
        /\ SendOne(people, partial, seen)
  BY DEF Sends
<1>2. PICK r \in Requests :
        /\ status[r] = "none"
        /\ available >= 1
        /\ status' = [status EXCEPT ![r] = "sent"]
        /\ seat' = [seat EXCEPT ![r] =
             [s \in Seats |-> IF s \in SeatsOf(people) THEN "pending" ELSE "none"]]
        /\ available' = available - 1
        /\ credit' = [credit EXCEPT ![r] = "reserved"]
        /\ submission' = [submission EXCEPT ![r].state = "open"]
        /\ known' = [known EXCEPT ![r] = seen]
        /\ stored' = stored
  BY <1>1 DEF SendOne, Fresh
<1>3. RequestsOK
  BY TypeParts DEF Inv
<1>4. /\ submission' \in [Requests -> Submissions]
      /\ \A q \in Requests : submission'[q].signed = submission[q].signed
      /\ \A q \in Requests : q # r => submission'[q] = submission[q]
  BY <1>2, <1>3, StateWritten DEF RequestsOK, States
<1>5. RequestsOK'
  BY <1>1, <1>2, <1>3, <1>4 DEF RequestsOK, RequestStatuses, OnFile
<1>6. Paid'
  BY <1>2, <1>3 DEF RequestsOK, Paid, Open, Inv
<1>7. Signed'
  <2> SUFFICES ASSUME NEW q \in Requests
               PROVE /\ submission'[q].signed \subseteq SeatsTaken(q)'
                     /\ status'[q] = "none" => /\ submission'[q].signed = {}
                                               /\ submission'[q].state = "none"
    BY DEF Signed
  <2>1. CASE q = r
    BY <1>2, <1>3, <1>4, <2>1 DEF Signed, Inv, RequestsOK
  <2>2. CASE q # r
    BY <1>2, <1>3, <1>4, <2>2 DEF Signed, Inv, RequestsOK, SeatsTaken
  <2>. QED BY <2>1, <2>2
<1>8. \A p \in Persons : seat'[r][p] # "none" => p \in people
  BY <1>2, <1>3, PersonAssumption DEF RequestsOK, SeatsOf, Seats
<1>9. \A q \in Requests : q # r => seat'[q] = seat[q] /\ (Open(q)' <=> Open(q))
  BY <1>2, <1>3 DEF RequestsOK, Open
<1>10. r \notin OnFile /\ OnFile \subseteq OnFile'
  BY <1>2, <1>3 DEF OnFile, RequestsOK
<1>11. \A p \in Persons, q \in Requests : seat'[q][p] # "none" => p \in persons'
  BY <1>1, <1>8, <1>9 DEF Inv, Seating
<1>12. OnlyOverlapsReseat'
  <2> SUFFICES ASSUME NEW p \in Persons, NEW q1 \in Requests, NEW q2 \in Requests,
                      q1 # q2, Open(q1)', Open(q2)',
                      seat'[q1][p] # "none", seat'[q2][p] # "none"
               PROVE q1 \notin known'[q2]
    BY DEF OnlyOverlapsReseat
  <2>1. CASE q1 # r /\ q2 # r
    BY <2>1, <1>2, <1>3, <1>9 DEF Inv, Seating, OnlyOverlapsReseat, RequestsOK
  <2>2. CASE q1 = r
    BY <2>2, <1>2, <1>3, <1>10 DEF Inv, Seating, RequestsOK
  <2>3. CASE q2 = r
    <3>1. known'[q2] = seen /\ p \in people
      BY <2>3, <1>2, <1>3, <1>8 DEF RequestsOK
    <3>2. Open(q1) /\ seat[q1][p] # "none"
      BY <2>3, <1>9
    <3>. QED BY <1>1, <3>1, <3>2 DEF Unseated
  <2>. QED BY <2>1, <2>2, <2>3
<1>13. \A q \in Requests : known'[q] \subseteq OnFile'
  BY <1>1, <1>2, <1>3, <1>10 DEF Inv, Seating, RequestsOK
<1>14. ASSUME NEW h \in Resends PROVE Held(resend[h])'
  BY <1>9, <1>10 DEF Held, Unseated, OnFile
<1>. QED BY <1>5, <1>6, <1>7, <1>11, <1>12, <1>13, <1>14 DEF Seating

(***************************************************************************)
(* The actions of one request.                                             *)
(***************************************************************************)

\* A step that only settles request r, opens no request and seats nobody
\* keeps Seating.
LEMMA SeatingKept ==
  ASSUME Seating, persons \subseteq persons',
         \A h \in Resends : Held(resend'[h]), known' = known,
         \A q \in Requests : Open(q)' => Open(q),
         \A q \in Requests : status[q] # "none" => status'[q] # "none",
         \A q \in Requests, s \in Seats : seat'[q][s] # "none" => seat[q][s] # "none"
  PROVE Seating'
<1>1. OnFile \subseteq OnFile'
  BY DEF OnFile
<1>2. \A h \in Resends : Held(resend[h])'
  <2> SUFFICES ASSUME NEW h \in Resends PROVE Held(resend[h])'
    OBVIOUS
  <2>1. Held(resend'[h])
    OBVIOUS
  <2>2. resend[h]'.people \subseteq persons' \cap Persons /\ resend[h]'.known \subseteq OnFile'
    BY <1>1, <2>1 DEF Held
  <2>3. \A p \in resend'[h].people, q \in resend'[h].known :
          Open(q)' => seat'[q][p] = "none"
    <3> SUFFICES ASSUME NEW p \in resend'[h].people, NEW q \in resend'[h].known, Open(q)'
                 PROVE seat'[q][p] = "none"
      OBVIOUS
    <3>1. q \in Requests /\ p \in Persons
      BY <2>1 DEF Held, OnFile
    <3>2. Open(q) /\ seat[q][p] = "none"
      BY <2>1, <3>1 DEF Held, Unseated
    <3>. QED BY <3>1, <3>2 DEF Seats
  <2>. QED BY <2>2, <2>3 DEF Held, Unseated
<1>3. OnlyOverlapsReseat'
  BY DEF Seating, OnlyOverlapsReseat, Seats
<1>. QED BY <1>1, <1>2, <1>3 DEF Seating, Seats

\* The end of an open request keeps every part of the invariant.
LEMMA EndKeeps ==
  ASSUME Inv, persons \subseteq persons', \A h \in Resends : Held(resend'[h]),
         NEW r \in Requests,
         Open(r), NEW ended \in {"cancelled", "expired"}, EndRequest(r, ended),
         submission' = submission
           \/ submission' = [submission EXCEPT ![r].state = "archived"]
  PROVE RequestsOK' /\ Paid' /\ Signed' /\ Seating'
<1>1. RequestsOK
  BY TypeParts DEF Inv
<1>2. /\ status' = [status EXCEPT ![r] = ended]
      /\ credit' = [credit EXCEPT ![r] = "released"]
      /\ available' = available + 1
      /\ seat' = seat
      /\ stored' = stored
      /\ known' = known
  BY DEF EndRequest, CreditAfter, Refund, Inv, Paid
<1>3. /\ submission' \in [Requests -> Submissions]
      /\ \A q \in Requests : submission'[q].signed = submission[q].signed
      /\ \A q \in Requests : q # r => submission'[q] = submission[q]
  BY <1>1, StateWritten DEF RequestsOK, States
<1>4. RequestsOK'
  <2>1. ended \in RequestStatuses
    BY DEF RequestStatuses
  <2>2. status' \in [Requests -> RequestStatuses]
    BY <1>1, <1>2, <2>1 DEF RequestsOK
  <2>3. /\ available' \in Nat
        /\ credit' \in [Requests -> {"none", "reserved", "consumed", "released"}]
    BY <1>1, <1>2 DEF RequestsOK
  <2>. QED BY <1>1, <1>2, <1>3, <2>2, <2>3 DEF RequestsOK
<1>5. Paid'
  BY <1>1, <1>2 DEF RequestsOK, Paid, Open, Inv
<1>6. Signed'
  BY <1>1, <1>2, <1>3 DEF Signed, SeatsTaken, Inv, RequestsOK
<1>7. Seating'
  BY <1>1, <1>2, SeatingKept DEF Open, Inv, RequestsOK
<1>. QED BY <1>4, <1>5, <1>6, <1>7

\* The provider moves a submission, and only signs for seats that exist.
LEMMA ProviderKeeps ==
  ASSUME Inv, persons \subseteq persons', \A h \in Resends : Held(resend'[h]),
         NEW r \in Requests,
         \/ CancelLost(r) \/ ProviderExpire(r)
         \/ \E s \in Seats : ProviderSign(r, s) \/ ProviderDecline(r, s)
  PROVE RequestsOK' /\ Paid' /\ Signed' /\ Seating'
<1>1. RequestsOK
  BY TypeParts DEF Inv
<1>2. UNCHANGED <<status, seat, stored, available, credit, known>>
  BY DEF CancelLost, ProviderExpire, ProviderSign, ProviderDecline
<1>3. Seating'
  BY <1>2, SeatingKept DEF Open, Inv
<1>4. Paid'
  BY <1>2 DEF Paid, Open, Inv
<1>5. status[r] # "none"
  BY DEF CancelLost, ProviderExpire, ProviderSign, ProviderDecline, MaySign, Open, Inv, Signed
<1>6. CASE CancelLost(r) \/ ProviderExpire(r)
  <2>1. PICK x \in {"archived", "expired"} : submission' = [submission EXCEPT ![r].state = x]
    BY <1>6 DEF CancelLost, ProviderExpire
  <2>2. /\ submission' \in [Requests -> Submissions]
        /\ \A q \in Requests : submission'[q].signed = submission[q].signed
        /\ \A q \in Requests : q # r => submission'[q] = submission[q]
    BY <1>1, <2>1, StateWritten DEF RequestsOK, States
  <2>. QED BY <1>1, <1>2, <1>3, <1>4, <1>5, <2>2 DEF Inv, Signed, SeatsTaken, RequestsOK
<1>7. ASSUME NEW s \in Seats, ProviderSign(r, s) \/ ProviderDecline(r, s)
      PROVE RequestsOK' /\ Signed'
  <2>1. seat[r][s] # "none" /\ submission[r] \in Submissions
    BY <1>1, <1>7 DEF ProviderSign, ProviderDecline, MaySign, RequestsOK
  <2>2. PICK w \in Submissions :
          /\ submission' = [submission EXCEPT ![r] = w]
          /\ w.signed \subseteq submission[r].signed \cup {s}
    <3>1. CASE ProviderSign(r, s)
      <4> DEFINE w == [submission[r] EXCEPT
                  !.signed = @ \cup {s},
                  !.state = IF submission[r].signed \cup {s} = SeatsTaken(r)
                              THEN "completed" ELSE "open"]
      <4>1. submission' = [submission EXCEPT ![r] = w]
        BY <3>1 DEF ProviderSign
      <4>2. w \in Submissions /\ w.signed \subseteq submission[r].signed \cup {s}
        BY <2>1 DEF Submissions
      <4> HIDE DEF w
      <4>. QED BY <4>1, <4>2
    <3>2. CASE ProviderDecline(r, s)
      <4> DEFINE w == [submission[r] EXCEPT !.declined = @ \cup {s}]
      <4>1. submission' = [submission EXCEPT ![r] = w]
        BY <3>2 DEF ProviderDecline
      <4>2. w \in Submissions /\ w.signed \subseteq submission[r].signed \cup {s}
        BY <2>1 DEF Submissions
      <4> HIDE DEF w
      <4>. QED BY <4>1, <4>2
    <3>. QED BY <1>7, <3>1, <3>2
  <2>. QED BY <1>1, <1>2, <1>5, <2>1, <2>2 DEF Inv, Signed, SeatsTaken, RequestsOK
<1>. QED BY <1>3, <1>4, <1>6, <1>7

\* A signature that is reported touches a seat that exists; the last one
\* completes the request and settles what is left of its reservation.
LEMMA CompletedKeeps ==
  ASSUME Inv, persons \subseteq persons', \A h \in Resends : Held(resend'[h]),
         NEW r \in Requests, NEW s \in Seats,
         OnFormCompleted(r, s)
  PROVE RequestsOK' /\ Paid' /\ Signed' /\ Seating'
<1>1. RequestsOK
  BY TypeParts DEF Inv
<1>2. /\ seat' = [seat EXCEPT ![r][s] = "signed"]
      /\ submission' = submission
      /\ available' = available
      /\ known' = known
      /\ s \in submission[r].signed
  BY DEF OnFormCompleted
<1>3. seat[r][s] # "none" /\ status[r] # "none"
  BY <1>2 DEF Inv, Signed, SeatsTaken
<1>4. /\ seat' \in [Requests -> [Seats -> {"none", "pending", "signed", "declined"}]]
      /\ \A q \in Requests, x \in Seats : seat'[q][x] # "none" <=> seat[q][x] # "none"
  BY <1>1, <1>2, <1>3 DEF RequestsOK
<1>5. \/ /\ status[r] = "sent"
         /\ status' = [status EXCEPT ![r] = "partially_signed"]
         /\ UNCHANGED <<credit, stored>>
      \/ UNCHANGED <<status, credit, stored>>
      \/ /\ status[r] # "completed"
         /\ status' = [status EXCEPT ![r] = "completed"]
         /\ credit' = CreditAfter(r, "consumed")
         /\ stored' = [stored EXCEPT ![r] = @ + 1]
  <2> DEFINE pending == {x \in Seats : seat'[r][x] = "pending"}
  <2>1. \/ /\ status' = IF status[r] = "sent"
                           THEN [status EXCEPT ![r] = "partially_signed"]
                           ELSE status
           /\ UNCHANGED <<credit, stored>>
        \/ UNCHANGED <<status, credit, stored>>
        \/ status[r] # "completed" /\ Complete(r)
    BY Zenon DEF OnFormCompleted
  <2>. QED BY <2>1 DEF Complete
<1>6. \A q \in Requests : Open(q)' => Open(q)
  BY <1>1, <1>5 DEF RequestsOK, Open
<1>61. \A q \in Requests : status[q] # "none" => status'[q] # "none"
  BY <1>1, <1>3, <1>5 DEF RequestsOK
<1>7. Seating'
  BY <1>2, <1>4, <1>6, <1>61, SeatingKept DEF Inv
<1>8. Signed'
  BY <1>1, <1>2, <1>3, <1>4, <1>5 DEF Inv, Signed, SeatsTaken, RequestsOK
<1>9. credit' \in [Requests -> {"none", "reserved", "consumed", "released"}]
  BY <1>1, <1>5 DEF RequestsOK, CreditAfter
<1>10. stored' \in [Requests -> Nat] /\ status' \in [Requests -> RequestStatuses]
  <2>1. {"partially_signed", "completed"} \subseteq RequestStatuses
    BY DEF RequestStatuses
  <2>2. status' \in [Requests -> RequestStatuses]
    BY <1>1, <1>5, <2>1 DEF RequestsOK
  <2>3. stored' \in [Requests -> Nat]
    BY <1>1, <1>5 DEF RequestsOK
  <2>. QED BY <2>2, <2>3
<1>11. RequestsOK'
  BY <1>1, <1>2, <1>4, <1>9, <1>10 DEF RequestsOK
<1>12. Paid'
  BY <1>1, <1>3, <1>5 DEF Inv, Paid, Open, CreditAfter, RequestsOK
<1>. QED BY <1>7, <1>8, <1>11, <1>12

\* A refusal marks a seat and nothing else.
LEMMA DeclinedKeeps ==
  ASSUME Inv, persons \subseteq persons', \A h \in Resends : Held(resend'[h]),
         NEW r \in Requests, NEW s \in Seats,
         OnFormDeclined(r, s)
  PROVE RequestsOK' /\ Paid' /\ Signed' /\ Seating'
<1>1. RequestsOK
  BY TypeParts DEF Inv
<1>2. /\ seat' = [seat EXCEPT ![r][s] = "declined"]
      /\ UNCHANGED <<status, stored, available, credit, submission, known>>
      /\ seat[r][s] = "pending"
  BY DEF OnFormDeclined
<1>3. /\ seat' \in [Requests -> [Seats -> {"none", "pending", "signed", "declined"}]]
      /\ \A q \in Requests, x \in Seats : seat'[q][x] # "none" <=> seat[q][x] # "none"
  BY <1>1, <1>2 DEF RequestsOK
<1>4. Seating'
  BY <1>2, <1>3, SeatingKept DEF Inv, Open
<1>. QED BY <1>1, <1>2, <1>3, <1>4 DEF Inv, Paid, Signed, SeatsTaken, Open, RequestsOK

(***************************************************************************)
(* The invariant and what it implies.                                      *)
(***************************************************************************)

LEMMA InvInit == Init => Inv
<1> SUFFICES ASSUME Init PROVE Inv
  OBVIOUS
<1>1. TypeOK
  <2>1. Nothing \in Readings
    BY DEF Nothing, Readings
  <2>2. CaseOK
    BY <2>1, PersonAssumption DEF Init, CaseOK, Steps
  <2>3. RequestsOK
    BY DEF Init, RequestsOK, RequestStatuses, Submissions
  <2>. QED BY <2>2, <2>3, TypeParts
<1>2. Paid /\ Signed
  BY DEF Init, Paid, Signed, Open, SeatsTaken, Seats
<1>3. Seating
  <2>1. \A h \in Resends : Held(resend[h])
    BY DEF Init, Held, Unseated, Nothing
  <2>2. OnlyOverlapsReseat
    BY DEF Init, OnlyOverlapsReseat, Open
  <2>3. /\ \A p \in Persons, r \in Requests : seat[r][p] = "none"
        /\ \A r \in Requests : known[r] = {}
    BY DEF Init, Seats
  <2>. QED BY <2>1, <2>2, <2>3 DEF Seating
<1>. QED BY <1>1, <1>2, <1>3 DEF Inv

LEMMA InvNext == Inv /\ [Next]_vars => Inv'
<1> SUFFICES ASSUME Inv, [Next]_vars PROVE Inv'
  OBVIOUS
<1>1. persons \subseteq persons' /\ CaseOK' /\ \A h \in Resends : Held(resend'[h])
  BY Effects, CaseTypes DEF Inv
<1>2. RequestsOK
  BY TypeParts DEF Inv
<1>3. CASE UNCHANGED requests
  <2>1. UNCHANGED <<status, seat, stored, available, credit, submission, known>>
    BY <1>3 DEF requests
  <2>2. Seating'
    BY <1>1, <2>1, SeatingKept DEF Inv, Open
  <2>3. RequestsOK' /\ Paid' /\ Signed'
    BY <1>2, <2>1 DEF Inv, RequestsOK, Paid, Signed, SeatsTaken, Open
  <2>. QED BY <1>1, <2>2, <2>3, TypeParts, PTL DEF Inv
<1>4. CASE Sends
  <2>1. RequestsOK' /\ Paid' /\ Signed' /\ Seating'
    BY <1>1, <1>4, SendKeeps
  <2>. QED BY <1>1, <2>1, TypeParts, PTL DEF Inv
<1>5. CASE AddCredits
  <2>1. UNCHANGED <<status, seat, stored, credit, submission, known>>
        /\ available' = available + 1
    BY <1>5 DEF AddCredits
  <2>2. Seating'
    BY <1>1, <2>1, SeatingKept DEF Inv, Open
  <2>3. RequestsOK' /\ Paid' /\ Signed'
    BY <1>2, <2>1 DEF Inv, RequestsOK, Paid, Signed, SeatsTaken, Open
  <2>. QED BY <1>1, <2>2, <2>3, TypeParts, PTL DEF Inv
<1>6. ASSUME NEW r \in Requests, Acts(r) PROVE Inv'
  <2>1. CASE CancelRequest(r)
    <3>1. /\ submission' = [submission EXCEPT ![r].state = "archived"]
          /\ Open(r) /\ EndRequest(r, "cancelled")
      BY <2>1 DEF CancelRequest
    <3>2. RequestsOK' /\ Paid' /\ Signed' /\ Seating'
      BY <1>1, <3>1, EndKeeps
    <3>. QED BY <1>1, <3>2, TypeParts, PTL DEF Inv
  <2>2. CASE OnSubmissionEnded(r)
    <3>1. PICK ended \in {"cancelled", "expired"} :
            submission' = submission /\ Open(r) /\ EndRequest(r, ended)
      BY <2>2 DEF OnSubmissionEnded
    <3>2. RequestsOK' /\ Paid' /\ Signed' /\ Seating'
      BY <1>1, <3>1, EndKeeps
    <3>. QED BY <1>1, <3>2, TypeParts, PTL DEF Inv
  <2>3. CASE \E s \in Seats : OnFormCompleted(r, s) \/ OnFormDeclined(r, s)
    <3>1. RequestsOK' /\ Paid' /\ Signed' /\ Seating'
      BY <1>1, <2>3, CompletedKeeps, DeclinedKeeps
    <3>. QED BY <1>1, <3>1, TypeParts, PTL DEF Inv
  <2>4. CASE \/ CancelLost(r) \/ ProviderExpire(r)
             \/ \E s \in Seats : ProviderSign(r, s) \/ ProviderDecline(r, s)
    <3>1. RequestsOK' /\ Paid' /\ Signed' /\ Seating'
      BY <1>1, <2>4, ProviderKeeps
    <3>. QED BY <1>1, <3>1, TypeParts, PTL DEF Inv
  <2>. QED BY Zenon, <1>6, <2>1, <2>2, <2>3, <2>4 DEF Acts
<1>. QED BY <1>3, <1>4, <1>5, <1>6, Effects

LEMMA Invariance == Spec => []Inv
BY InvInit, InvNext, PTL DEF Spec

\* Every variable keeps its type.
THEOREM TypesHold == Spec => []TypeOK
<1>1. Inv => TypeOK
  BY DEF Inv
<1>. QED BY <1>1, Invariance, PTL

\* A credit is reserved exactly while its request is open, a consumed credit
\* paid for a document on file, and no document is filed twice.
THEOREM LedgerAgrees == Spec => []OpenIffReserved
<1>1. Inv => OpenIffReserved
  BY DEF Inv, Paid, OpenIffReserved
<1>. QED BY <1>1, Invariance, PTL

\* Sends, cancellations and resends in turn never seat a person on two open
\* requests: when one is, neither sender had the other request on file.
THEOREM OverlapsAlone == Spec => []OnlyOverlapsReseat
<1>1. Inv => OnlyOverlapsReseat
  BY DEF Inv, Seating
<1>. QED BY <1>1, Invariance, PTL

(***************************************************************************)
(* The requests implement the credit contract.                             *)
(***************************************************************************)

LEMMA ContractInit == Init => Contract!Init
BY DEF Init, Contract!Init

\* Sending reserves, completing consumes unless the credit was refunded,
\* ending refunds, a purchase adds; every other step leaves the credits.
LEMMA ContractNext ==
  ASSUME Inv, [Next]_vars PROVE [Contract!Next]_(Contract!vars)
<1> USE DEF Contract!Next, Contract!vars
<1>1. RequestsOK
  BY TypeParts DEF Inv
<1>2. CASE UNCHANGED requests
  BY <1>2 DEF requests
<1>3. CASE Sends
  <2>1. PICK r \in Requests :
          /\ status[r] = "none" /\ available >= 1
          /\ available' = available - 1
          /\ credit' = [credit EXCEPT ![r] = "reserved"]
    BY <1>3 DEF Sends, SendOne, Fresh
  <2>2. credit[r] = "none"
    BY <2>1 DEF Inv, Paid
  <2>. QED BY <2>1, <2>2 DEF Contract!Reserve
<1>4. CASE AddCredits
  BY <1>1, <1>4 DEF AddCredits, Contract!AddCredits, RequestsOK
<1>5. ASSUME NEW r \in Requests, Acts(r) PROVE [Contract!Next]_(Contract!vars)
  <2>1. CASE \E ended \in {"cancelled", "expired"} : Open(r) /\ EndRequest(r, ended)
    <3>1. credit[r] = "reserved"
      BY <2>1 DEF Inv, Paid
    <3>. QED BY <2>1, <3>1 DEF EndRequest, CreditAfter, Refund, Contract!Release
  <2>2. ASSUME NEW s \in Seats, OnFormCompleted(r, s) PROVE [Contract!Next]_(Contract!vars)
    <3>1. UNCHANGED credit \/ credit' = CreditAfter(r, "consumed")
      BY Zenon, <2>2 DEF OnFormCompleted, Complete
    <3>2. available' = available
      BY <2>2 DEF OnFormCompleted
    <3>. QED BY <3>1, <3>2 DEF CreditAfter, Contract!Consume
  <2>3. CASE UNCHANGED <<available, credit>>
    BY <2>3
  <2>4. CASE CancelRequest(r) \/ OnSubmissionEnded(r)
    BY <2>1, <2>4 DEF CancelRequest, OnSubmissionEnded
  <2>5. CASE \/ CancelLost(r) \/ ProviderExpire(r)
             \/ \E s \in Seats : \/ ProviderSign(r, s) \/ ProviderDecline(r, s)
                                 \/ OnFormDeclined(r, s)
    BY <2>3, <2>5 DEF CancelLost, ProviderExpire, ProviderSign, ProviderDecline, OnFormDeclined
  <2>. QED BY Zenon, <1>5, <2>2, <2>4, <2>5 DEF Acts
<1>. QED BY <1>2, <1>3, <1>4, <1>5, Effects

\* The handlers implement the contract of the ledger: one reservation per
\* request, ended once and for good, as a consumption or as a refund.
THEOREM ImplementsContract == Spec => ContractSpec
BY ContractInit, ContractNext, Invariance, PTL DEF Spec, ContractSpec, Contract!Spec
=============================================================================
