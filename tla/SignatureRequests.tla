------------------------- MODULE SignatureRequests -------------------------
(***************************************************************************)
(* The signature requests of one signable document of one case step:       *)
(* src/signatures/signatures_manager.py with the step activation, late     *)
(* persons and auto-close of src/progress/progress_manager.py.             *)
(*                                                                         *)
(* Each handler is one transaction and is one atomic action here (what     *)
(* concurrent webhooks do to each other is SignatureWebhooks), except the  *)
(* resend: it reads who is seated, calls the provider and commits, with no *)
(* lock and no unique constraint against another resend.  A start cannot   *)
(* overlap another one (the rows it adds are unique), and nobody else can  *)
(* seat a person whom add_person has not committed yet.                    *)
(*                                                                         *)
(* The e-signature provider is external and asynchronous: it keeps the     *)
(* state of every submission, and its webhooks may arrive late, in any     *)
(* order, and more than once, so the messages in flight are all those the  *)
(* submission has ever caused.                                             *)
(***************************************************************************)
EXTENDS Integers, FiniteSets

CONSTANTS
  Persons,      \* persons the case may have
  Principal,    \* the person the case is created with
  Agency,       \* the countersigner's seat
  MaxRequests,  \* bound: requests ever sent for the document
  MaxCredits,   \* bound: credits ever bought or granted
  MaxResends,   \* bound: resends under way at once
  MaxCrowded,   \* bound: seats that have answered while one is under way
  Templates     \* templates the document may have, with the step's validator

ASSUME PersonAssumption == Principal \in Persons /\ Agency \notin Persons
ASSUME FiniteAssumption == IsFiniteSet(Persons)
ASSUME NatAssumption ==
  {MaxRequests, MaxCredits, MaxResends, MaxCrowded} \subseteq Nat
ASSUME TemplateAssumption ==
  Templates \subseteq [roles : Nat, countersigned : BOOLEAN,
                       validator : {"none", "agent"}]

Requests == 1 .. MaxRequests
Resends == 1 .. MaxResends
Seats == Persons \cup {Agency}

VARIABLES
  template,   \* roles_count, agency_countersigns, and the step's validator
  enabled,    \* the agency's sub-switch signatures_enabled
  step,       \* status of the step, and whether a webhook closed it
  persons,    \* persons of the case
  row,        \* requirement row of each person on the step
  resend,     \* what each resend under way has read
  status,     \* signature_request.status ("none": no row yet)
  seat,       \* signature_signer.status of each seat of each request
  stored,     \* times the signed document was filed as a deliverable
  available,  \* credits of the agency
  credit,     \* ledger state of the credit of each request
  submission, \* external: the provider's state, and who signed or declined
  known       \* history: the requests on file when r's sender read the seats

step_vars == <<template, step, persons, row>>
vars == <<template, enabled, step, persons, row, resend, status, seat, stored,
          available, credit, submission, known>>

Steps == [status : {"todo", "in_progress", "done"}, auto : BOOLEAN]
RequestStatuses ==
  {"none", "sent", "partially_signed", "completed", "cancelled", "expired"}
Submissions == [state : {"none", "open", "completed", "archived", "expired"},
                signed : SUBSET Seats, declined : SUBSET Seats]

\* Whom a resend is to seat (nobody: no resend under way), and the requests
\* that were on file when it looked.
Readings == [people : SUBSET Persons, known : SUBSET Requests]
Nothing == [people |-> {}, known |-> {}]

TypeOK ==
  /\ template \in Templates
  /\ enabled \in BOOLEAN
  /\ step \in Steps
  /\ persons \in SUBSET Persons
  /\ row \in [Persons -> {"none", "pending", "provided"}]
  /\ resend \in [Resends -> Readings]
  /\ status \in [Requests -> RequestStatuses]
  /\ seat \in [Requests -> [Seats -> {"none", "pending", "signed", "declined"}]]
  /\ stored \in [Requests -> Nat]
  /\ available \in Nat
  /\ credit \in [Requests -> {"none", "reserved", "consumed", "released"}]
  /\ submission \in [Requests -> Submissions]
  /\ known \in [Requests -> SUBSET Requests]

Init ==
  /\ template \in Templates
  /\ enabled = TRUE
  /\ step = [status |-> "todo", auto |-> FALSE]
  /\ persons = {Principal}
  /\ row = [p \in Persons |-> "none"]
  /\ resend = [h \in Resends |-> Nothing]
  /\ status = [r \in Requests |-> "none"]
  /\ seat = [r \in Requests |-> [s \in Seats |-> "none"]]
  /\ stored = [r \in Requests |-> 0]
  /\ available = 0
  /\ credit = [r \in Requests |-> "none"]
  /\ submission = [r \in Requests |->
                     [state |-> "none", signed |-> {}, declined |-> {}]]
  /\ known = [r \in Requests |-> {}]

(***************************************************************************)
(* Sending.                                                                *)
(***************************************************************************)

\* DRAFT, SENT and PARTIALLY_SIGNED are open; DRAFT is never committed.
Open(r) == status[r] \in {"sent", "partially_signed"}

\* LIVE_STATUSES: a person seated on such a request is never seated again.
Live(r) == Open(r) \/ status[r] = "completed"

\* Mutant: a resend does not look at who is already seated.
SeatedIgnored == {}

Seated == {p \in Persons : \E r \in Requests : Live(r) /\ seat[r][p] # "none"}

\* The guards of _send_one; a partial re-creation accepts unused roles.
RolesMatch(people, partial) ==
  /\ template.roles >= Cardinality(people)
  /\ partial \/ template.roles <= Cardinality(people)

OnFile == {r \in Requests : status[r] # "none"}

Fresh(r) == status[r] = "none" /\ \A q \in Requests : q < r => status[q] # "none"

SeatsOf(people) ==
  people \cup (IF template.countersigned THEN {Agency} ELSE {})

\* Mutant: the request leaves before its credit is reserved.
SendOneUnpaid(people, partial, seen) ==
  \E r \in Requests :
    /\ Fresh(r)
    /\ RolesMatch(people, partial)
    /\ status' = [status EXCEPT ![r] = "sent"]
    /\ seat' = [seat EXCEPT ![r] =
         [s \in Seats |-> IF s \in SeatsOf(people) THEN "pending" ELSE "none"]]
    /\ available' = available - 1
    /\ credit' = [credit EXCEPT ![r] = "reserved"]
    /\ submission' = [submission EXCEPT ![r].state = "open"]
    /\ known' = [known EXCEPT ![r] = seen]
    /\ UNCHANGED stored

\* _send_one: the request, its seats, one reserved credit and the provider's
\* submission.  Any refusal rolls the caller's transaction back: no step.
\* seen: the requests on file when the caller read who is seated.
SendOne(people, partial, seen) ==
  \E r \in Requests :
    /\ Fresh(r)
    /\ available >= 1
    /\ RolesMatch(people, partial)
    /\ status' = [status EXCEPT ![r] = "sent"]
    /\ seat' = [seat EXCEPT ![r] =
         [s \in Seats |-> IF s \in SeatsOf(people) THEN "pending" ELSE "none"]]
    /\ available' = available - 1
    /\ credit' = [credit EXCEPT ![r] = "reserved"]
    /\ submission' = [submission EXCEPT ![r].state = "open"]
    /\ known' = [known EXCEPT ![r] = seen]
    /\ UNCHANGED stored

requests == <<status, seat, stored, available, credit, submission, known>>

\* send_for_progress in one transaction: one grouped request for the people
\* not yet seated.
SendForProgress(people) ==
  IF ~enabled \/ people \subseteq Seated
    THEN UNCHANGED requests
    ELSE SendOne(people \ Seated, FALSE, OnFile)

(***************************************************************************)
(* The agency's side.                                                      *)
(***************************************************************************)

AddCredits ==
  /\ available + Cardinality({r \in Requests : credit[r] # "none"}) < MaxCredits
  /\ available' = available + 1
  /\ UNCHANGED <<step_vars, enabled, resend, status, seat, stored, credit,
                 submission, known>>

ToggleSwitch ==
  /\ enabled' = ~enabled
  /\ UNCHANGED <<step_vars, resend, requests>>

\* _apply_transition todo -> in_progress: materialize the rows, then send.
StartStep ==
  /\ step.status = "todo"
  /\ step' = [status |-> "in_progress", auto |-> FALSE]
  /\ row' = [p \in Persons |-> IF p \in persons THEN "pending" ELSE "none"]
  /\ SendForProgress(persons)
  /\ UNCHANGED <<template, enabled, resend, persons>>

\* PATCH done by the agent: no precondition on the requirements.
CompleteStep ==
  /\ step.status \in {"todo", "in_progress"}
  /\ step' = [status |-> "done", auto |-> FALSE]
  /\ UNCHANGED <<template, enabled, resend, persons, row, requests>>

\* done -> in_progress: re-synchronises the rows of a definition that has
\* none, and sends nothing.
ReopenStep ==
  /\ step.status = "done"
  /\ step' = [status |-> "in_progress", auto |-> FALSE]
  /\ row' = IF \A p \in Persons : row[p] = "none"
              THEN [p \in Persons |-> IF p \in persons THEN "pending" ELSE "none"]
              ELSE row
  /\ UNCHANGED <<template, enabled, resend, persons, requests>>

\* add_person: on an active step the newcomer gets a row and a request.
AddPerson(p) ==
  /\ p \notin persons
  /\ persons' = persons \cup {p}
  /\ IF step.status = "in_progress"
       THEN /\ row' = [row EXCEPT ![p] = "pending"]
            /\ IF enabled THEN SendOne({p}, TRUE, OnFile) ELSE UNCHANGED requests
       ELSE UNCHANGED <<row, requests>>
  /\ UNCHANGED <<template, enabled, resend, step>>

Idle(h) == resend[h].people = {}

\* The seats that have signed or declined at the provider.
Answers ==
  {x \in Requests \X Seats :
     x[2] \in submission[x[1]].signed \cup submission[x[1]].declined}

\* "Re-demander", on an active step: who has a row and no seat on a live
\* request.  Resends have no name: the first free one is taken; none begins
\* that the bound on requests would stop.
ResendRequests(h) ==
  LET asked == {p \in persons : row[p] # "none"} \ Seated
  IN /\ Idle(h) /\ \A g \in Resends : g < h => ~Idle(g)
     /\ step.status = "in_progress"
     /\ enabled
     /\ asked # {}
     /\ Cardinality(OnFile) + h <= MaxRequests
     /\ Cardinality(Answers) <= MaxCrowded
     /\ resend' = [resend EXCEPT ![h] = [people |-> asked, known |-> OnFile]]
     /\ UNCHANGED <<step_vars, enabled, requests>>

\* The calls and the COMMIT that follow, whatever was committed meanwhile.
SendAgain(h) ==
  /\ ~Idle(h)
  /\ SendOne(resend[h].people, FALSE, resend[h].known)
  /\ resend' = [resend EXCEPT ![h] = Nothing]
  /\ UNCHANGED <<step_vars, enabled>>

\* A refusal (credit, roles, provider) or an error rolls the resend back.
GiveUp(h) ==
  /\ ~Idle(h)
  /\ resend' = [resend EXCEPT ![h] = Nothing]
  /\ UNCHANGED <<step_vars, enabled, requests>>

\* Mutant: a settlement does not look for a live reservation.
CreditAfterBlind(r, settled) == [credit EXCEPT ![r] = settled]

\* release_credit: a request whose reservation is over keeps its ledger state.
CreditAfter(r, settled) ==
  IF credit[r] = "reserved" THEN [credit EXCEPT ![r] = settled] ELSE credit

Refund(r) == IF credit[r] = "reserved" THEN available + 1 ELSE available

\* Mutant: the cancellation forgets release_credit.
EndRequestKept(r, ended) ==
  /\ status' = [status EXCEPT ![r] = ended]
  /\ UNCHANGED <<credit, available, seat, stored, known>>

\* Cancellation and end of the submission: the credit comes back, the seats
\* stay as they are.
EndRequest(r, ended) ==
  /\ status' = [status EXCEPT ![r] = ended]
  /\ credit' = CreditAfter(r, "released")
  /\ available' = Refund(r)
  /\ UNCHANGED <<seat, stored, known>>

\* cancel_request: the provider first, then the release, then CANCELLED.
CancelRequest(r) ==
  /\ Open(r)
  /\ submission' = [submission EXCEPT ![r].state = "archived"]
  /\ EndRequest(r, "cancelled")
  /\ UNCHANGED <<step_vars, enabled, resend>>

\* The provider has archived the submission and the transaction that asked
\* for it is lost (an error or a crash before COMMIT).
CancelLost(r) ==
  /\ Open(r)
  /\ submission' = [submission EXCEPT ![r].state = "archived"]
  /\ UNCHANGED <<step_vars, enabled, resend, status, seat, stored, available,
                 credit, known>>

(***************************************************************************)
(* The provider, external.                                                 *)
(***************************************************************************)

MaySign(r, s) ==
  /\ (\E h \in Resends : ~Idle(h)) => Cardinality(Answers) < MaxCrowded
  /\ submission[r].state = "open"
  /\ seat[r][s] # "none"
  /\ s \notin submission[r].signed \cup submission[r].declined
  /\ s = Agency => {p \in Persons : seat[r][p] # "none"}
                     \subseteq submission[r].signed

SeatsTaken(r) == {s \in Seats : seat[r][s] # "none"}

ProviderSign(r, s) ==
  /\ MaySign(r, s)
  /\ submission' = [submission EXCEPT
       ![r].signed = @ \cup {s},
       ![r].state = IF submission[r].signed \cup {s} = SeatsTaken(r)
                      THEN "completed" ELSE "open"]
  /\ UNCHANGED <<step_vars, enabled, resend, status, seat, stored, available,
                 credit, known>>

ProviderDecline(r, s) ==
  /\ MaySign(r, s)
  /\ submission' = [submission EXCEPT ![r].declined = @ \cup {s}]
  /\ UNCHANGED <<step_vars, enabled, resend, status, seat, stored, available,
                 credit, known>>

ProviderExpire(r) ==
  /\ submission[r].state = "open"
  /\ submission' = [submission EXCEPT ![r].state = "expired"]
  /\ UNCHANGED <<step_vars, enabled, resend, status, seat, stored, available,
                 credit, known>>

\* The signed PDF exists once every signer of the submission has signed.
DocumentsServed(r) == submission[r].signed = SeatsTaken(r)

(***************************************************************************)
(* The webhooks.                                                           *)
(***************************************************************************)

\* recompute_active, after the writes of the handler: an active step that
\* nobody validates closes itself once every row is provided and no request
\* is open.
AutoClose ==
  IF /\ step.status = "in_progress"
     /\ template.validator = "none"
     /\ \E p \in persons : row'[p] # "none"
     /\ \A p \in persons : row'[p] # "pending"
     /\ \A r \in Requests : status'[r] \notin {"sent", "partially_signed"}
    THEN step' = [status |-> "done", auto |-> TRUE]
    ELSE UNCHANGED step

\* _complete: consume, download (refused while the provider has no signed
\* document, and the whole webhook with it), file the deliverable.
Complete(r) ==
  /\ DocumentsServed(r)
  /\ status' = [status EXCEPT ![r] = "completed"]
  /\ credit' = CreditAfter(r, "consumed")
  /\ stored' = [stored EXCEPT ![r] = @ + 1]

\* The first signature of a person provides the row of that person.
RowsAfter(r, s) ==
  IF s \in Persons /\ seat[r][s] # "signed" /\ row[s] # "none"
    THEN [row EXCEPT ![s] = "provided"] ELSE row

OnFormCompleted(r, s) ==
  LET pending == {x \in Seats : seat'[r][x] = "pending"}
  IN /\ s \in submission[r].signed
     /\ seat' = [seat EXCEPT ![r][s] = "signed"]
     /\ row' = RowsAfter(r, s)
     /\ \/ /\ pending # {}
           /\ status' = IF status[r] = "sent"
                          THEN [status EXCEPT ![r] = "partially_signed"]
                          ELSE status
           /\ UNCHANGED <<credit, stored>>
        \/ /\ pending = {} /\ status[r] = "completed"
           /\ UNCHANGED <<status, credit, stored>>
        \/ /\ pending = {} /\ status[r] # "completed"
           /\ Complete(r)
     /\ AutoClose
     /\ UNCHANGED <<template, enabled, resend, persons, available, submission,
                    known>>

OnFormDeclined(r, s) ==
  /\ s \in submission[r].declined
  /\ seat[r][s] = "pending"
  /\ seat' = [seat EXCEPT ![r][s] = "declined"]
  /\ UNCHANGED <<step_vars, enabled, resend, status, stored, available, credit,
                 submission, known>>

\* Mutant: a request that somebody has signed does not expire.
OnSubmissionEndedSent(r) ==
  /\ submission[r].state \in {"expired", "archived"}
  /\ status[r] = "sent"
  /\ EndRequest(r, IF submission[r].state = "expired" THEN "expired"
                                                      ELSE "cancelled")
  /\ UNCHANGED <<step_vars, enabled, resend, submission>>

\* submission.expired and submission.archived; a request that is not open
\* any more is left alone.
OnSubmissionEnded(r) ==
  /\ submission[r].state \in {"expired", "archived"}
  /\ Open(r)
  /\ EndRequest(r, IF submission[r].state = "expired" THEN "expired"
                                                      ELSE "cancelled")
  /\ UNCHANGED <<step_vars, enabled, resend, submission>>

Next ==
  \/ AddCredits
  \/ ToggleSwitch
  \/ StartStep
  \/ CompleteStep
  \/ ReopenStep
  \/ \E h \in Resends : ResendRequests(h) \/ SendAgain(h) \/ GiveUp(h)
  \/ \E p \in Persons : AddPerson(p)
  \/ \E r \in Requests :
       \/ CancelRequest(r)
       \/ CancelLost(r)
       \/ ProviderExpire(r)
       \/ OnSubmissionEnded(r)
       \/ \E s \in Seats :
            \/ ProviderSign(r, s)
            \/ ProviderDecline(r, s)
            \/ OnFormCompleted(r, s)
            \/ OnFormDeclined(r, s)

Spec == Init /\ [][Next]_vars

(***************************************************************************)
(* Fairness.  Every submission is sent with an expiry date, so one that is *)
(* never completed expires; the provider delivers a webhook again until it *)
(* is acknowledged.  Nobody is obliged to sign.                            *)
(***************************************************************************)

Fairness ==
  \A r \in Requests :
    /\ WF_vars(ProviderExpire(r))
    /\ WF_vars(OnSubmissionEnded(r))
    /\ \A s \in Seats : WF_vars(OnFormCompleted(r, s))

FairSpec == Spec /\ Fairness

(***************************************************************************)
(* Properties.                                                             *)
(***************************************************************************)

\* The ledger, the requests and the files agree: a credit is reserved exactly
\* while its request is open, a consumed one paid for a document on file, and
\* no document is filed twice, whatever the order of webhooks, cancellations
\* and expiry.  (A request cancelled once everybody had signed is completed
\* all the same, its credit refunded.)
OpenIffReserved ==
  \A r \in Requests :
    /\ Open(r) <=> credit[r] = "reserved"
    /\ credit[r] = "consumed" => stored[r] = 1
    /\ stored[r] <= 1

\* "Never seated again while seated on a live request", as far as the code
\* holds it: a person sits on two open requests only when neither sender had
\* the other request on file as it read the seats, so only when two resends
\* overlapped; activation, late arrival, cancellation and resend in turn,
\* however many, never ask anybody twice.
OnlyOverlapsReseat ==
  \A p \in Persons :
    \A q, r \in Requests :
      /\ q # r /\ Open(q) /\ Open(r)
      /\ seat[q][p] # "none" /\ seat[r][p] # "none"
      => q \notin known[r] /\ r \notin known[q]

\* Requests implement the credit contract: one reservation per request, ended
\* once, as a consumption or as a refund, for good.
Contract == INSTANCE SignatureCredit WITH Requests <- Requests,
              available <- available, credit <- credit
ContractSpec == Contract!Spec

\* No credit is stuck behind a request that nobody finishes.
CreditsSettle == Contract!Settles
=============================================================================
