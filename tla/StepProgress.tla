---------------------------- MODULE StepProgress ----------------------------
(***************************************************************************)
(* The journey of ONE case: its steps, what each step asks of each person, *)
(* the signature requests of the signable requirements, and the status of  *)
(* the case that follows the steps (src/progress/progress_manager.py,      *)
(* driven by cases, journeys, documents, expat, external and signatures).  *)
(*                                                                         *)
(* Each action is one endpoint, with every effect up to its COMMIT.  A     *)
(* signable requirement asks the principal only: several seats and late    *)
(* signers are the subject of SignatureRequests.                           *)
(***************************************************************************)
EXTENDS Naturals, FiniteSets

CONSTANTS
  Steps, Definitions, People,
  Principal,           \* the file holder
  StepOf, Scope, Kind, \* of each definition: its step, whom and what it asks
  DefaultValidator,    \* of each step
  InitialSteps, InitialDefinitions, InitialPrerequisites,
  Countersigned,       \* do the document templates have a seat for the agency?
  Validators, Statuses, \* values the agency sets by hand
  MaxEdits             \* bound: corrections (see Edit)

StepStatuses == {"none", "todo", "in_progress", "done"}
ValidatorTypes == {"none", "expat", "agent", "external"}
CaseStatuses == {"prospect", "in_progress", "awaiting_documents", "submitted",
                 "validated", "closed"}
RowStates == {"absent", "pending", "provided"}

ASSUME CompositionAssumption ==
  /\ Principal \in People
  /\ StepOf \in [Definitions -> Steps]
  /\ Scope \in [Definitions -> {"principal", "each_person"}]
  /\ Kind \in [Definitions -> {"field", "document", "signable"}]
  /\ \A d \in Definitions : Kind[d] = "signable" => Scope[d] = "principal"
ASSUME TemplateAssumption ==
  /\ InitialSteps \in SUBSET Steps
  /\ InitialDefinitions \in SUBSET {d \in Definitions : StepOf[d] \in InitialSteps}
  /\ InitialPrerequisites \in [Steps -> SUBSET InitialSteps]
  /\ DefaultValidator \in [Steps -> ValidatorTypes]
ASSUME BoundAssumption ==
  /\ Countersigned \in BOOLEAN
  /\ Validators \in SUBSET ValidatorTypes
  /\ Statuses \in SUBSET CaseStatuses
  /\ MaxEdits \in Nat

VARIABLES
  template,       \* steps of the journey template
  defined,        \* its requirement definitions
  prerequisites,  \* its edges
  persons,        \* people of the case
  filled,         \* people whose field is filled in, on case_person
  step,           \* case_step_progress.status, "none" without a row
  validator,      \* validated_by_type, frozen on the instance
  row,            \* case_step_requirement, per definition and person
  request,        \* signature request of each definition
  caseStatus,     \* client_case.status
  edits           \* bound

templateVars == <<template, defined, prerequisites>>
pieces == <<persons, filled, row, request>>
vars == <<templateVars, pieces, step, validator, caseStatus, edits>>

TypeOK ==
  /\ template \in SUBSET Steps
  /\ defined \in SUBSET {d \in Definitions : StepOf[d] \in template}
  /\ prerequisites \in [Steps -> SUBSET template]
  /\ persons \in SUBSET People /\ Principal \in persons
  /\ filled \in SUBSET persons
  /\ step \in [Steps -> StepStatuses]
  /\ validator \in [Steps -> ValidatorTypes]
  /\ row \in [Definitions -> [People -> RowStates]]
  /\ request \in [Definitions ->
       {"none", "sent", "partially_signed", "completed", "ended"}]
  /\ caseStatus \in CaseStatuses
  /\ edits \in 0 .. MaxEdits

(***************************************************************************)
(* Helpers.                                                                *)
(***************************************************************************)

Assigned == {st \in Steps : step[st] # "none"}
InProgress == {st \in Steps : step[st] = "in_progress"}
Done == {st \in Steps : step[st] = "done"}
Asks(st) == {d \in Definitions : StepOf[d] = st}

Provided(d, p) ==
  IF Kind[d] = "field" THEN p \in filled ELSE row[d][p] = "provided"

\* step_all_met: at least one row, and every row provided.
Met ==
  {st \in Steps :
     LET rows == {x \in Asks(st) \X People : row[x[1]][x[2]] # "absent"}
     IN rows # {} /\ \A x \in rows : Provided(x[1], x[2])}

\* _progress_ids_with_open_requests.
AwaitingSignature ==
  {st \in Steps :
     \E d \in Asks(st) : request[d] \in {"sent", "partially_signed"}}

\* Mutant: the graph is not validated.
AnyGraph(edges) == TRUE

\* _has_cycle: no step can be first in a cycle.
Acyclic(edges) ==
  \A S \in SUBSET template : S # {} => \E st \in S : edges[st] \cap S = {}

Unlocked(st) == prerequisites[st] \subseteq Done

\* Mutant: one step that is done validates the case.
SyncOnAnyDone(status, s) ==
  LET rows == {st \in Steps : s[st] # "none"}
  IN IF status = "closed" \/ rows = {} THEN status
     ELSE IF \E st \in rows : s[st] = "done" THEN "validated"
     ELSE IF status = "validated" THEN "in_progress"
     ELSE IF status = "prospect" /\ \E st \in rows : s[st] # "todo"
       THEN "in_progress"
     ELSE status

\* _sync_case_status, after the steps became s.
SyncCaseStatus(status, s) ==
  LET rows == {st \in Steps : s[st] # "none"}
  IN IF status = "closed" \/ rows = {} THEN status
     ELSE IF \A st \in rows : s[st] = "done" THEN "validated"
     ELSE IF status = "validated" THEN "in_progress"
     ELSE IF status = "prospect" /\ \E st \in rows : s[st] # "todo"
       THEN "in_progress"
     ELSE status

Edit == edits < MaxEdits /\ edits' = edits + 1

(***************************************************************************)
(* Completion: recompute_active.                                           *)
(***************************************************************************)

\* Active steps that have everything and wait for no signature.
Complete == (InProgress \cap Met') \ AwaitingSignature'

\* Mutant: the loop does not look at the prerequisites.
ClosesAll(closed) == closed = {st \in Complete : validator[st] = "none"}

\* The loop closes the unlocked steps that nobody validates.  It visits the
\* rows in the order the database gives them: a step whose last prerequisite
\* closes in the same loop is closed or not.
AutoCloses(closed) ==
  /\ closed \subseteq {st \in Complete : validator[st] = "none"}
  /\ \A st \in closed : prerequisites[st] \subseteq Done \cup closed
  /\ \A st \in Complete :
       validator[st] = "none" /\ Unlocked(st) => st \in closed

\* recompute_active, the case having the given status.
RecomputeActive(status) ==
  \E closed \in SUBSET Steps :
    /\ AutoCloses(closed)
    /\ step' = [st \in Steps |-> IF st \in closed THEN "done" ELSE step[st]]
    /\ caseStatus' =
         IF closed = {} THEN status ELSE SyncCaseStatus(status, step')

(***************************************************************************)
(* Requirement rows and signature requests.                                *)
(***************************************************************************)

\* Mutant: the rows of the step are made anew.
Rematerialized(st, d) ==
  [p \in People |->
     IF p \in persons /\ (Scope[d] = "each_person" \/ p = Principal)
       THEN "pending" ELSE "absent"]

\* One definition of _sync_missing_requirements: if it has a row it is
\* frozen; otherwise it gets a row per targeted person.
Materialized(st, d) ==
  IF \E p \in People : row[d][p] # "absent" THEN row[d]
  ELSE [p \in People |->
          IF p \in persons /\ (Scope[d] = "each_person" \/ p = Principal)
            THEN "pending" ELSE "absent"]

\* _sync_missing_requirements for a step, the template having definitions ds.
SyncMissing(st, ds) ==
  row' = [d \in Definitions |->
            IF d \in ds /\ StepOf[d] = st THEN Materialized(st, d) ELSE row[d]]

\* send_for_progress: a request for each signable row that has none alive.
SendForProgress(st) ==
  request' = [d \in Definitions |->
    IF /\ StepOf[d] = st /\ Kind[d] = "signable"
       /\ row'[d][Principal] # "absent"
       /\ request[d] \in {"none", "ended"}
      THEN "sent" ELSE request[d]]

(***************************************************************************)
(* The journey and its template.                                           *)
(***************************************************************************)

\* A case is created with or without a journey, with the status it is given.
Init ==
  /\ template = InitialSteps
  /\ defined = InitialDefinitions
  /\ prerequisites = InitialPrerequisites
  /\ persons = {Principal}
  /\ filled = {}
  /\ \/ step = [st \in Steps |-> "none"]
     \/ step = [st \in Steps |-> IF st \in template THEN "todo" ELSE "none"]
  /\ validator = DefaultValidator
  /\ row = [d \in Definitions |-> [p \in People |-> "absent"]]
  /\ request = [d \in Definitions |-> "none"]
  /\ \E s \in Statuses : caseStatus = SyncCaseStatus(s, step)
  /\ edits = 0

\* assign_journey: a PROSPECT becomes a client.
AssignJourney ==
  /\ Assigned = {}
  /\ step' = [st \in Steps |-> IF st \in template THEN "todo" ELSE "none"]
  /\ caseStatus' = LET synced == SyncCaseStatus(caseStatus, step')
                   IN IF synced = "prospect" THEN "in_progress" ELSE synced
  /\ UNCHANGED <<templateVars, pieces, validator, edits>>

\* add_step with backfill_step: a TODO row on the live case.
AddStep(st) ==
  /\ Edit
  /\ st \notin template
  /\ template' = template \cup {st}
  /\ IF Assigned = {} THEN UNCHANGED <<step, caseStatus>>
     ELSE /\ step' = [step EXCEPT ![st] = "todo"]
          /\ caseStatus' = SyncCaseStatus(caseStatus, step')
  /\ UNCHANGED <<defined, prerequisites, pieces, validator>>

\* set_prerequisites: allowed on an assigned template, nothing is recomputed.
SetPrerequisites(st, required) ==
  /\ Edit
  /\ st \in template
  /\ required \subseteq template \ {st}
  /\ prerequisites' = [prerequisites EXCEPT ![st] = required]
  /\ Acyclic(prerequisites')
  /\ UNCHANGED <<template, defined, pieces, step, validator, caseStatus>>

\* add_requirement with backfill_requirements: an active step asks at once,
\* and a signable requirement is sent.
AddDefinition(d) ==
  /\ Edit
  /\ StepOf[d] \in template /\ d \notin defined
  /\ defined' = defined \cup {d}
  /\ IF StepOf[d] \in InProgress
       THEN /\ SyncMissing(StepOf[d], defined')
            /\ IF Kind[d] = "signable" THEN SendForProgress(StepOf[d])
               ELSE UNCHANGED request
       ELSE UNCHANGED <<row, request>>
  /\ UNCHANGED <<template, prerequisites, persons, filled, step,
                 validator, caseStatus>>

\* delete_requirement: its live request is cancelled and its rows go.
DeleteDefinition(d) ==
  /\ Edit
  /\ d \in defined
  /\ defined' = defined \ {d}
  /\ row' = [row EXCEPT ![d] = [p \in People |-> "absent"]]
  /\ request' = [request EXCEPT
       ![d] = IF @ \in {"sent", "partially_signed"} THEN "ended" ELSE @]
  /\ UNCHANGED <<template, prerequisites, persons, filled, step,
                 validator, caseStatus>>

(***************************************************************************)
(* The people of the case.                                                 *)
(***************************************************************************)

\* Mutant: the composition is frozen when the step starts.
MaterializeNobody(p) == UNCHANGED row

\* materialize_for_person: the newcomer's rows on the active steps.
MaterializeForPerson(p) ==
  row' = [d \in Definitions |->
    IF /\ d \in defined /\ StepOf[d] \in InProgress
       /\ Scope[d] = "each_person" /\ row[d][p] = "absent"
      THEN [row[d] EXCEPT ![p] = "pending"] ELSE row[d]]

\* add_person, with or without the field.
AddPerson(p) ==
  /\ Edit
  /\ p \notin persons
  /\ persons' = persons \cup {p}
  /\ filled' \in {filled, filled \cup {p}}
  /\ MaterializeForPerson(p)
  /\ UNCHANGED <<templateVars, request, step, validator, caseStatus>>

\* Mutant: anybody may be removed.
DeleteAnybody(p) ==
  /\ Edit
  /\ p \in persons
  /\ persons' = persons \ {p}
  /\ filled' = filled \ {p}
  /\ row' = [d \in Definitions |-> [row[d] EXCEPT ![p] = "absent"]]
  /\ UNCHANGED <<templateVars, request, step, validator, caseStatus>>

\* delete_person: the rows go with the person.
DeletePerson(p) ==
  /\ Edit
  /\ p \in persons \ {Principal}
  /\ persons' = persons \ {p}
  /\ filled' = filled \ {p}
  /\ row' = [d \in Definitions |-> [row[d] EXCEPT ![p] = "absent"]]
  /\ UNCHANGED <<templateVars, request, step, validator, caseStatus>>

\* update_person, fulfill_requirement: a field is filled in, or emptied.
WriteField(p, value) ==
  /\ p \in persons
  /\ IF value THEN UNCHANGED edits ELSE Edit
  /\ filled' = IF value THEN filled \cup {p} ELSE filled \ {p}
  /\ UNCHANGED <<templateVars, persons, row, request, validator>>
  /\ RecomputeActive(caseStatus)

(***************************************************************************)
(* Pieces and signatures.                                                  *)
(***************************************************************************)

\* fulfill_document_requirement: a file for a row of an active step.
FulfillDocument(d, p) ==
  /\ Kind[d] = "document"
  /\ StepOf[d] \in InProgress
  /\ row[d][p] # "absent"
  /\ row' = [row EXCEPT ![d] = [row[d] EXCEPT ![p] = "provided"]]
  /\ UNCHANGED <<templateVars, persons, filled, request, validator, edits>>
  /\ RecomputeActive(caseStatus)

\* clear_document_requirement: the file that provides a row is deleted.  A
\* signed row has its file once its request is completed.
ClearDocument(d, p) ==
  /\ Edit
  /\ row[d][p] = "provided"
  /\ Kind[d] = "signable" => request[d] = "completed"
  /\ row' = [row EXCEPT ![d] = [row[d] EXCEPT ![p] = "pending"]]
  /\ UNCHANGED <<templateVars, persons, filled, request, validator>>
  /\ RecomputeActive(caseStatus)

\* _on_form_completed of the client: the row is provided, and without a seat
\* of the agency the request is completed.  Webhooks of an ended request are
\* the subject of SignatureRequests.
Sign(d) ==
  /\ request[d] = "sent"
  /\ request' = [request EXCEPT
       ![d] = IF Countersigned THEN "partially_signed" ELSE "completed"]
  /\ row' = IF row[d][Principal] = "absent" THEN row
            ELSE [row EXCEPT ![d] = [row[d] EXCEPT ![Principal] = "provided"]]
  /\ UNCHANGED <<templateVars, persons, filled, validator, edits>>
  /\ RecomputeActive(caseStatus)

\* _on_form_completed of the agency, whose turn comes after the client's.
Countersign(d) ==
  /\ request[d] = "partially_signed"
  /\ request' = [request EXCEPT ![d] = "completed"]
  /\ UNCHANGED <<templateVars, persons, filled, row, validator, edits>>
  /\ RecomputeActive(caseStatus)

\* cancel_request or expiry: no step is recomputed.
EndRequest(d) ==
  /\ Edit
  /\ request[d] \in {"sent", "partially_signed"}
  /\ request' = [request EXCEPT ![d] = "ended"]
  /\ UNCHANGED <<templateVars, persons, filled, row, step, validator,
                 caseStatus>>

(***************************************************************************)
(* Transitions of a step.                                                  *)
(***************************************************************************)

\* _apply_transition to IN_PROGRESS: the step asks its requirements, and its
\* signable documents are sent in the same transaction.
StartStep(st) ==
  /\ step[st] = "todo"
  /\ Unlocked(st)
  /\ step' = [step EXCEPT ![st] = "in_progress"]
  /\ SyncMissing(st, defined)
  /\ SendForProgress(st)
  /\ caseStatus' = SyncCaseStatus(caseStatus, step')
  /\ UNCHANGED <<templateVars, persons, filled, validator, edits>>

\* A step becomes DONE by the hand of somebody.
Close(st) ==
  /\ Unlocked(st)
  /\ step' = [step EXCEPT ![st] = "done"]
  /\ caseStatus' = SyncCaseStatus(caseStatus, step')
  /\ UNCHANGED <<templateVars, pieces, validator, edits>>

\* _apply_transition to DONE by the agency, whatever is missing.
CloseStep(st) == step[st] \in {"todo", "in_progress"} /\ Close(st)

\* close_step_by_validation by the client or the designated provider.
ValidateStep(st) ==
  /\ step[st] = "in_progress"
  /\ validator[st] \in {"expat", "external"}
  /\ Close(st)

\* Mutant: reopening forgets what the template has asked since.
ReopenOnly(st) ==
  /\ Edit
  /\ step[st] = "done"
  /\ step' = [step EXCEPT ![st] = "in_progress"]
  /\ caseStatus' = SyncCaseStatus(caseStatus, step')
  /\ UNCHANGED <<templateVars, pieces, validator>>

\* _apply_transition back to IN_PROGRESS: definitions added since get their
\* rows; nothing is sent and nothing is recomputed.
ReopenStep(st) ==
  /\ Edit
  /\ step[st] = "done"
  /\ step' = [step EXCEPT ![st] = "in_progress"]
  /\ SyncMissing(st, defined)
  /\ caseStatus' = SyncCaseStatus(caseStatus, step')
  /\ UNCHANGED <<templateVars, persons, filled, request, validator>>

\* set_validator, at any time; nothing is recomputed.
SetValidator(st, type) ==
  /\ Edit
  /\ st \in Assigned
  /\ validator[st] # type
  /\ validator' = [validator EXCEPT ![st] = type]
  /\ UNCHANGED <<templateVars, pieces, step, caseStatus>>

\* update_case: the status set by hand, then recompute_active.
UpdateCase(status) ==
  /\ Edit
  /\ UNCHANGED <<templateVars, pieces, validator>>
  /\ RecomputeActive(status)

\* bulk_set_status.
BulkSetStatus(status) ==
  /\ Edit
  /\ caseStatus' = status
  /\ UNCHANGED <<templateVars, pieces, step, validator>>

Next ==
  \/ AssignJourney
  \/ \E st \in Steps :
       \/ AddStep(st)
       \/ \E required \in SUBSET Steps : SetPrerequisites(st, required)
       \/ StartStep(st) \/ CloseStep(st) \/ ValidateStep(st) \/ ReopenStep(st)
       \/ \E type \in Validators : SetValidator(st, type)
  \/ \E d \in Definitions :
       \/ AddDefinition(d) \/ DeleteDefinition(d)
       \/ Sign(d) \/ Countersign(d) \/ EndRequest(d)
       \/ \E p \in People : FulfillDocument(d, p) \/ ClearDocument(d, p)
  \/ \E p \in People :
       \/ AddPerson(p) \/ DeletePerson(p)
       \/ \E value \in BOOLEAN : WriteField(p, value)
  \/ \E status \in Statuses : UpdateCase(status) \/ BulkSetStatus(status)

Spec == Init /\ [][Next]_vars

\* The agency goes through the steps it may close.  Nobody is obliged to
\* correct anything, to provide or to sign.
Fairness == \A st \in Steps : WF_vars(CloseStep(st))

FairSpec == Spec /\ Fairness

(***************************************************************************)
(* Properties.                                                             *)
(***************************************************************************)

\* Whoever acts, a step starts or becomes done only when all its current
\* prerequisites are done, those closed by the same request included.
StepsAreUnlocked ==
  \A st \in Steps :
    step[st] # "done" /\ step'[st] # step[st] /\ step'[st] # "todo"
      => \A q \in prerequisites[st] : step'[q] = "done"

PrerequisitesHold == [][StepsAreUnlocked]_vars

\* After any change of a step, the case is VALIDATED exactly when every step
\* is done, unless it is CLOSED.
StatusIsSynced ==
  step' # step =>
    \/ caseStatus' = "closed"
    \/ caseStatus' = "validated" <=> \A st \in Assigned' : step'[st] = "done"

StatusFollowsSteps == [][StatusIsSynced]_vars

\* Materialisation never touches an answer: a provided piece stays provided,
\* or goes with its person or its definition, unless its file is deleted.
OnlyDeletionForgets ==
  \A d \in Definitions, p \in People :
    row[d][p] = "provided" /\ row'[d][p] = "pending" => ClearDocument(d, p)

AnswersAreKept == [][OnlyDeletionForgets]_vars

\* An active step asks the principal everything its template asks, however
\* the step and the definitions came to meet.
DefinitionsAreAsked ==
  \A d \in defined : StepOf[d] \in InProgress => row[d][Principal] # "absent"

\* The steps that ask each person what they have to ask each person.
EveryoneAsked ==
  {st \in Steps :
     \A d \in defined \cap Asks(st), p \in persons :
       Scope[d] = "each_person" => row[d][p] # "absent"}

\* As long as a step stays active, people who join the case and definitions
\* that join the template leave nobody out.
NobodyLeftOut ==
  InProgress \cap InProgress' \cap EveryoneAsked \subseteq EveryoneAsked'

EveryoneStaysAsked == [][NobodyLeftOut]_vars

\* No legal sequence of edits locks a journey for ever: once the corrections
\* stop, the agency can go through all its steps.
JourneyEnds == <>[](\A st \in Assigned : step[st] = "done")

=============================================================================
