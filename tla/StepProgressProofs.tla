------------------------- MODULE StepProgressProofs -------------------------
(***************************************************************************)
(* Theorems about StepProgress, for any journey, any composition of the    *)
(* case and any number of corrections.                                     *)
(*                                                                         *)
(* DefinitionsAreAsked is not inductive: a step that starts skips the      *)
(* definitions that already have a row, so the invariant adds that a       *)
(* definition with any row has one for the principal (PrincipalFirst), and *)
(* that rows go with their definition (RowsOfTemplate).                    *)
(***************************************************************************)
EXTENDS StepProgress, TLAPS

\* Whoever has a row for a definition, the principal has one too.
PrincipalFirst ==
  \A d \in Definitions :
    (\E p \in People : row[d][p] # "absent") => row[d][Principal] # "absent"

\* Only definitions of the template have rows.
RowsOfTemplate ==
  \A d \in Definitions, p \in People : row[d][p] # "absent" => d \in defined

IInv == TypeOK /\ PrincipalFirst /\ RowsOfTemplate /\ DefinitionsAreAsked

(***************************************************************************)
(* What the helpers of the model return.                                   *)
(***************************************************************************)

LEMMA SyncType ==
  ASSUME NEW status \in CaseStatuses, NEW s
  PROVE  SyncCaseStatus(status, s) \in CaseStatuses
  BY DEF SyncCaseStatus, CaseStatuses

\* The status follows the steps: VALIDATED exactly when all of them are done.
LEMMA SyncFollows ==
  ASSUME NEW status, NEW s, \E st \in Steps : s[st] # "none"
  PROVE  LET synced == SyncCaseStatus(status, s)
         IN \/ synced = "closed"
            \/ synced = "validated"
                 <=> \A st \in {x \in Steps : s[x] # "none"} : s[st] = "done"
  BY DEF SyncCaseStatus

LEMMA EditType ==
  ASSUME TypeOK, Edit
  PROVE  edits' \in 0 .. MaxEdits
  BY BoundAssumption DEF Edit, TypeOK

LEMMA MaterializedRow ==
  ASSUME TypeOK, PrincipalFirst, NEW st \in Steps, NEW d \in Definitions
  PROVE  /\ Materialized(st, d) \in [People -> RowStates]
         /\ Materialized(st, d)[Principal] # "absent"
<1>1. CASE \E p \in People : row[d][p] # "absent"
  <2>1. row[d][Principal] # "absent" /\ row[d] \in [People -> RowStates]
    BY <1>1 DEF PrincipalFirst, TypeOK
  <2>2. QED
    BY <1>1, <2>1 DEF Materialized
<1>2. CASE ~\E p \in People : row[d][p] # "absent"
  BY <1>2, CompositionAssumption DEF Materialized, TypeOK, RowStates
<1>3. QED
  BY <1>1, <1>2

\* A synchronised step has a row of the principal for all its definitions.
LEMMA SyncedRows ==
  ASSUME TypeOK, PrincipalFirst, RowsOfTemplate, NEW st \in Steps, NEW ds,
         SyncMissing(st, ds), defined' = ds, defined \subseteq ds
  PROVE  /\ row' \in [Definitions -> [People -> RowStates]]
         /\ PrincipalFirst'
         /\ RowsOfTemplate'
         /\ \A d \in Definitions :
              /\ d \in ds /\ StepOf[d] = st => row'[d][Principal] # "absent"
              /\ row[d][Principal] # "absent" => row'[d][Principal] # "absent"
<1>1. row' \in [Definitions -> [People -> RowStates]]
  BY MaterializedRow DEF SyncMissing, TypeOK
<1>2. ASSUME NEW d \in Definitions
      PROVE  \/ row'[d] = row[d]
             \/ row'[d][Principal] # "absent"
  BY MaterializedRow DEF SyncMissing
<1>3. PrincipalFirst' /\ RowsOfTemplate'
  BY <1>2 DEF PrincipalFirst, RowsOfTemplate, SyncMissing
<1>4. ASSUME NEW d \in Definitions, d \in ds, StepOf[d] = st
      PROVE  row'[d][Principal] # "absent"
  BY <1>4, MaterializedRow DEF SyncMissing
<1>5. QED
  BY <1>1, <1>2, <1>3, <1>4

LEMMA SendType ==
  ASSUME TypeOK, NEW st \in Steps, SendForProgress(st)
  PROVE  request' \in [Definitions ->
           {"none", "sent", "partially_signed", "completed", "ended"}]
  BY DEF SendForProgress, TypeOK

\* recompute_active keeps the types and starts no step.
LEMMA RecomputeType ==
  ASSUME TypeOK, NEW status \in CaseStatuses, RecomputeActive(status)
  PROVE  /\ step' \in [Steps -> StepStatuses]
         /\ caseStatus' \in CaseStatuses
         /\ InProgress' \subseteq InProgress
<1>1. PICK closed \in SUBSET Steps :
        /\ step' = [st \in Steps |->
                      IF st \in closed THEN "done" ELSE step[st]]
        /\ caseStatus' =
             IF closed = {} THEN status ELSE SyncCaseStatus(status, step')
  BY DEF RecomputeActive
<1>2. step' \in [Steps -> StepStatuses] /\ InProgress' \subseteq InProgress
  BY <1>1 DEF TypeOK, StepStatuses, InProgress
<1>3. caseStatus' \in CaseStatuses
  BY <1>1, SyncType
<1>4. QED
  BY <1>2, <1>3

(***************************************************************************)
(* The inductive invariant.                                                *)
(***************************************************************************)

LEMMA InitIInv == Init => IInv
<1> SUFFICES ASSUME Init PROVE IInv
  OBVIOUS
<1>1. step \in [Steps -> StepStatuses]
  BY DEF Init, StepStatuses
<1>2. caseStatus \in CaseStatuses
  BY SyncType, BoundAssumption DEF Init
<1>3. edits \in 0 .. MaxEdits
  BY BoundAssumption DEF Init
<1>4. defined \in SUBSET {d \in Definitions : StepOf[d] \in template}
  BY TemplateAssumption DEF Init
<1>5. TypeOK
  BY <1>1, <1>2, <1>3, <1>4, TemplateAssumption, CompositionAssumption
     DEF Init, TypeOK, RowStates
<1>6. PrincipalFirst /\ RowsOfTemplate /\ DefinitionsAreAsked
  BY CompositionAssumption, <1>5
     DEF Init, PrincipalFirst, RowsOfTemplate, DefinitionsAreAsked,
     InProgress, TypeOK
<1>7. QED
  BY <1>5, <1>6 DEF IInv

\* The template: steps, edges and definitions.
LEMMA TemplateIInv ==
  ASSUME IInv,
         \/ AssignJourney
         \/ \E st \in Steps :
              \/ AddStep(st)
              \/ \E required \in SUBSET Steps : SetPrerequisites(st, required)
         \/ \E d \in Definitions : AddDefinition(d) \/ DeleteDefinition(d)
  PROVE  IInv'
<1>1. CASE AssignJourney
  <2>1. step' \in [Steps -> StepStatuses] /\ InProgress' = {}
    BY <1>1 DEF AssignJourney, StepStatuses, InProgress
  <2>2. caseStatus' \in CaseStatuses
    <3> DEFINE synced == SyncCaseStatus(caseStatus, step')
    <3>1. synced \in CaseStatuses
      BY SyncType DEF IInv, TypeOK
    <3> HIDE DEF synced
    <3>2. caseStatus' = IF synced = "prospect" THEN "in_progress" ELSE synced
      BY <1>1 DEF AssignJourney, synced
    <3>3. QED
      BY <3>1, <3>2 DEF CaseStatuses
  <2>3. QED
    BY <1>1, <2>1, <2>2 DEF AssignJourney, IInv, TypeOK, PrincipalFirst,
       RowsOfTemplate,
       DefinitionsAreAsked, templateVars, pieces
<1>2. ASSUME NEW st \in Steps, AddStep(st)
      PROVE  IInv'
  <2>1. edits' \in 0 .. MaxEdits
    BY <1>2, EditType DEF AddStep, IInv
  <2>2. /\ step' \in [Steps -> StepStatuses]
        /\ InProgress' \subseteq InProgress
    BY <1>2 DEF AddStep, IInv, TypeOK, StepStatuses, InProgress
  <2>3. caseStatus' \in CaseStatuses
    BY <1>2, SyncType DEF AddStep, IInv, TypeOK
  <2>4. TypeOK'
    BY <1>2, <2>1, <2>2, <2>3 DEF AddStep, IInv, TypeOK, pieces
  <2>5. QED
    BY <1>2, <2>2, <2>4 DEF AddStep, IInv, PrincipalFirst, RowsOfTemplate,
       DefinitionsAreAsked, pieces
<1>3. ASSUME NEW st \in Steps, NEW required \in SUBSET Steps,
             SetPrerequisites(st, required)
      PROVE  IInv'
  <2>1. edits' \in 0 .. MaxEdits
    BY <1>3, EditType DEF SetPrerequisites, IInv
  <2>2. QED
    BY <1>3, <2>1 DEF SetPrerequisites, IInv, TypeOK, PrincipalFirst,
       RowsOfTemplate,
       DefinitionsAreAsked, InProgress, pieces
<1>4. ASSUME NEW d \in Definitions, AddDefinition(d)
      PROVE  IInv'
  <2>1. edits' \in 0 .. MaxEdits
    BY <1>4, EditType DEF AddDefinition, IInv
  <2>2. defined' \in SUBSET {x \in Definitions : StepOf[x] \in template}
    BY <1>4 DEF AddDefinition, IInv, TypeOK
  <2>3. /\ row' \in [Definitions -> [People -> RowStates]]
        /\ PrincipalFirst' /\ RowsOfTemplate'
        /\ DefinitionsAreAsked'
        /\ request' \in [Definitions ->
             {"none", "sent", "partially_signed", "completed", "ended"}]
    <3>1. CASE StepOf[d] \in InProgress
      <4>1. /\ StepOf[d] \in Steps /\ SyncMissing(StepOf[d], defined')
            /\ defined \subseteq defined'
        BY <1>4, <3>1 DEF AddDefinition, InProgress
      <4>2. /\ row' \in [Definitions -> [People -> RowStates]]
            /\ PrincipalFirst' /\ RowsOfTemplate'
            /\ \A x \in Definitions :
                 /\ x \in defined' /\ StepOf[x] = StepOf[d]
                      => row'[x][Principal] # "absent"
                 /\ row[x][Principal] # "absent"
                      => row'[x][Principal] # "absent"
        BY <4>1, SyncedRows DEF IInv
      <4>3. DefinitionsAreAsked'
        BY <1>4, <4>2, <2>2
           DEF AddDefinition, IInv, DefinitionsAreAsked, InProgress
      <4>4. request' \in [Definitions ->
              {"none", "sent", "partially_signed", "completed", "ended"}]
        BY <1>4, <3>1, <4>1, SendType DEF AddDefinition, IInv, TypeOK
      <4>5. QED
        BY <4>2, <4>3, <4>4
    <3>2. CASE StepOf[d] \notin InProgress
      BY <1>4, <3>2 DEF AddDefinition, IInv, TypeOK, PrincipalFirst,
         RowsOfTemplate,
         DefinitionsAreAsked, InProgress
    <3>3. QED
      BY <3>1, <3>2
  <2>4. QED
    BY <1>4, <2>1, <2>2, <2>3 DEF AddDefinition, IInv, TypeOK
<1>5. ASSUME NEW d \in Definitions, DeleteDefinition(d)
      PROVE  IInv'
  <2>1. edits' \in 0 .. MaxEdits
    BY <1>5, EditType DEF DeleteDefinition, IInv
  <2>2. /\ row' \in [Definitions -> [People -> RowStates]]
        /\ row'[d] = [p \in People |-> "absent"]
        /\ \A x \in Definitions \ {d} : row'[x] = row[x]
    BY <1>5 DEF DeleteDefinition, IInv, TypeOK, RowStates
  <2>3. request' \in [Definitions ->
          {"none", "sent", "partially_signed", "completed", "ended"}]
    BY <1>5 DEF DeleteDefinition, IInv, TypeOK
  <2>4. TypeOK'
    BY <1>5, <2>1, <2>2, <2>3 DEF DeleteDefinition, IInv, TypeOK
  <2>5. PrincipalFirst' /\ RowsOfTemplate'
    BY <1>5, <2>2 DEF DeleteDefinition, IInv, PrincipalFirst, RowsOfTemplate
  <2>6. DefinitionsAreAsked'
    BY <1>5, <2>2 DEF DeleteDefinition, IInv, TypeOK, DefinitionsAreAsked,
       InProgress
  <2>7. QED
    BY <2>4, <2>5, <2>6 DEF IInv
<1>6. QED
  BY <1>1, <1>2, <1>3, <1>4, <1>5

\* The people of the case.
LEMMA PeopleIInv ==
  ASSUME IInv, NEW p \in People, AddPerson(p) \/ DeletePerson(p)
  PROVE  IInv'
<1>1. edits' \in 0 .. MaxEdits
  BY EditType DEF AddPerson, DeletePerson, IInv
<1>2. CASE AddPerson(p)
  <2>1. row' \in [Definitions -> [People -> RowStates]]
    BY <1>2 DEF AddPerson, MaterializeForPerson, IInv, TypeOK, RowStates
  <2>2. ASSUME NEW d \in Definitions
        PROVE  \/ row'[d] = row[d]
               \/ row[d][Principal] # "absent" /\ row'[d][Principal] # "absent"
    BY <1>2, CompositionAssumption DEF AddPerson, MaterializeForPerson, IInv,
       TypeOK, DefinitionsAreAsked, RowStates
  <2>3. PrincipalFirst' /\ RowsOfTemplate' /\ DefinitionsAreAsked'
    BY <1>2, <2>2 DEF AddPerson, IInv, TypeOK, PrincipalFirst, RowsOfTemplate,
       DefinitionsAreAsked, InProgress, templateVars
  <2>4. QED
    BY <1>1, <1>2, <2>1, <2>3 DEF AddPerson, IInv, TypeOK, templateVars
<1>3. CASE DeletePerson(p)
  <2>1. row' \in [Definitions -> [People -> RowStates]]
    BY <1>3 DEF DeletePerson, IInv, TypeOK, RowStates
  <2>2. \A d \in Definitions, q \in People :
          row'[d][q] = IF q = p THEN "absent" ELSE row[d][q]
    BY <1>3 DEF DeletePerson, IInv, TypeOK
  <2>3. PrincipalFirst' /\ RowsOfTemplate' /\ DefinitionsAreAsked'
    BY <1>3, <2>2, CompositionAssumption DEF DeletePerson, IInv, TypeOK,
       PrincipalFirst, RowsOfTemplate, DefinitionsAreAsked, InProgress,
       templateVars
  <2>4. QED
    BY <1>1, <1>3, <2>1, <2>3 DEF DeletePerson, IInv, TypeOK, templateVars
<1>4. QED
  BY <1>2, <1>3

\* What ends with recompute_active: the fields, the pieces, the signatures
\* and the manual status.
Pieces ==
  \/ \E p \in People, value \in BOOLEAN : WriteField(p, value)
  \/ \E d \in Definitions :
       \/ Sign(d) \/ Countersign(d)
       \/ \E p \in People : FulfillDocument(d, p) \/ ClearDocument(d, p)

LEMMA RecomputeIInv ==
  ASSUME IInv, NEW status \in CaseStatuses, RecomputeActive(status),
         edits' \in 0 .. MaxEdits,
         UNCHANGED <<templateVars, persons, validator>>,
         filled' \in SUBSET persons,
         request' \in [Definitions ->
           {"none", "sent", "partially_signed", "completed", "ended"}],
         row' \in [Definitions -> [People -> RowStates]],
         \A d \in Definitions, p \in People :
           row'[d][p] = "absent" <=> row[d][p] = "absent"
  PROVE  IInv'
<1>1. /\ step' \in [Steps -> StepStatuses]
      /\ caseStatus' \in CaseStatuses
      /\ InProgress' \subseteq InProgress
  BY RecomputeType DEF IInv
<1>2. TypeOK'
  BY <1>1 DEF IInv, TypeOK, templateVars
<1>3. PrincipalFirst' /\ RowsOfTemplate' /\ DefinitionsAreAsked'
  BY <1>1, CompositionAssumption
     DEF IInv, TypeOK, PrincipalFirst, RowsOfTemplate, DefinitionsAreAsked,
     templateVars
<1>4. QED
  BY <1>2, <1>3 DEF IInv

LEMMA PiecesIInv ==
  ASSUME IInv, Pieces
  PROVE  IInv'
<1>1. ASSUME NEW p \in People, NEW value \in BOOLEAN, WriteField(p, value)
      PROVE  IInv'
  <2>1. edits' \in 0 .. MaxEdits
    BY <1>1, EditType DEF WriteField, IInv, TypeOK
  <2>2. filled' \in SUBSET persons
    BY <1>1 DEF WriteField, IInv, TypeOK
  <2>3. QED
    BY <1>1, <2>1, <2>2, RecomputeIInv DEF WriteField, IInv, TypeOK
<1>2. ASSUME NEW d \in Definitions, NEW p \in People, FulfillDocument(d, p)
      PROVE  IInv'
  <2>1. /\ row' \in [Definitions -> [People -> RowStates]]
        /\ \A e \in Definitions, q \in People :
             row'[e][q] = "absent" <=> row[e][q] = "absent"
    BY <1>2 DEF FulfillDocument, IInv, TypeOK, RowStates
  <2>2. QED
    BY <1>2, <2>1, RecomputeIInv DEF FulfillDocument, IInv, TypeOK
<1>3. ASSUME NEW d \in Definitions, NEW p \in People, ClearDocument(d, p)
      PROVE  IInv'
  <2>1. /\ row' \in [Definitions -> [People -> RowStates]]
        /\ \A e \in Definitions, q \in People :
             row'[e][q] = "absent" <=> row[e][q] = "absent"
    BY <1>3 DEF ClearDocument, IInv, TypeOK, RowStates
  <2>2. edits' \in 0 .. MaxEdits
    BY <1>3, EditType DEF ClearDocument, IInv
  <2>3. QED
    BY <1>3, <2>1, <2>2, RecomputeIInv DEF ClearDocument, IInv, TypeOK
<1>4. ASSUME NEW d \in Definitions, Sign(d)
      PROVE  IInv'
  <2>1. /\ row' \in [Definitions -> [People -> RowStates]]
        /\ \A e \in Definitions, q \in People :
             row'[e][q] = "absent" <=> row[e][q] = "absent"
    BY <1>4, CompositionAssumption DEF Sign, IInv, TypeOK, RowStates
  <2>2. request' \in [Definitions ->
          {"none", "sent", "partially_signed", "completed", "ended"}]
    BY <1>4 DEF Sign, IInv, TypeOK
  <2>3. QED
    BY <1>4, <2>1, <2>2, RecomputeIInv DEF Sign, IInv, TypeOK
<1>5. ASSUME NEW d \in Definitions, Countersign(d)
      PROVE  IInv'
  <2>1. request' \in [Definitions ->
          {"none", "sent", "partially_signed", "completed", "ended"}]
    BY <1>5 DEF Countersign, IInv, TypeOK
  <2>2. QED
    BY <1>5, <2>1, RecomputeIInv DEF Countersign, IInv, TypeOK
<1>6. QED
  BY <1>1, <1>2, <1>3, <1>4, <1>5 DEF Pieces

\* What changes no step by itself.
LEMMA CaseIInv ==
  ASSUME IInv,
         \/ \E d \in Definitions : EndRequest(d)
         \/ \E st \in Steps : \E type \in Validators : SetValidator(st, type)
         \/ \E status \in Statuses : UpdateCase(status) \/ BulkSetStatus(status)
  PROVE  IInv'
<1>1. ASSUME NEW d \in Definitions, EndRequest(d)
      PROVE  IInv'
  <2>1. edits' \in 0 .. MaxEdits
    BY <1>1, EditType DEF EndRequest, IInv
  <2>2. QED
    BY <1>1, <2>1 DEF EndRequest, IInv, TypeOK, PrincipalFirst,
       RowsOfTemplate,
       DefinitionsAreAsked, InProgress, templateVars
<1>2. ASSUME NEW st \in Steps, NEW type \in Validators, SetValidator(st, type)
      PROVE  IInv'
  <2>1. edits' \in 0 .. MaxEdits
    BY <1>2, EditType DEF SetValidator, IInv
  <2>2. type \in ValidatorTypes
    BY BoundAssumption
  <2>3. QED
    BY <1>2, <2>1, <2>2 DEF SetValidator, IInv, TypeOK, PrincipalFirst,
       RowsOfTemplate,
       DefinitionsAreAsked, InProgress, templateVars, pieces
<1>3. ASSUME NEW status \in Statuses, UpdateCase(status)
      PROVE  IInv'
  <2>1. edits' \in 0 .. MaxEdits /\ status \in CaseStatuses
    BY <1>3, EditType, BoundAssumption DEF UpdateCase, IInv
  <2>2. QED
    BY <1>3, <2>1, RecomputeIInv DEF UpdateCase, IInv, TypeOK, pieces
<1>4. ASSUME NEW status \in Statuses, BulkSetStatus(status)
      PROVE  IInv'
  <2>1. edits' \in 0 .. MaxEdits /\ status \in CaseStatuses
    BY <1>4, EditType, BoundAssumption DEF BulkSetStatus, IInv
  <2>2. QED
    BY <1>4, <2>1 DEF BulkSetStatus, IInv, TypeOK, PrincipalFirst,
       RowsOfTemplate,
       DefinitionsAreAsked, InProgress, templateVars, pieces
<1>5. QED
  BY <1>1, <1>2, <1>3, <1>4

\* The transitions of a step.
LEMMA TransitionIInv ==
  ASSUME IInv, NEW st \in Steps,
         StartStep(st) \/ CloseStep(st) \/ ValidateStep(st) \/ ReopenStep(st)
  PROVE  IInv'
<1>1. caseStatus' \in CaseStatuses
  BY SyncType
     DEF StartStep, CloseStep, ValidateStep, Close, ReopenStep, IInv, TypeOK
<1>2. edits' \in 0 .. MaxEdits
  BY EditType
     DEF StartStep, CloseStep, ValidateStep, Close, ReopenStep, IInv, TypeOK
<1>3. CASE StartStep(st) \/ ReopenStep(st)
  <2>1. /\ SyncMissing(st, defined)
        /\ step' = [step EXCEPT ![st] = "in_progress"]
        /\ UNCHANGED <<templateVars, persons, filled, validator>>
        /\ defined' = defined
    BY <1>3 DEF StartStep, ReopenStep, templateVars
  <2>2. /\ row' \in [Definitions -> [People -> RowStates]]
        /\ PrincipalFirst' /\ RowsOfTemplate'
        /\ \A d \in Definitions :
             /\ d \in defined /\ StepOf[d] = st => row'[d][Principal] # "absent"
             /\ row[d][Principal] # "absent" => row'[d][Principal] # "absent"
    BY <2>1, SyncedRows DEF IInv
  <2>3. DefinitionsAreAsked'
    BY <2>1, <2>2
       DEF IInv, TypeOK, DefinitionsAreAsked, InProgress, templateVars
  <2>4. request' \in [Definitions ->
          {"none", "sent", "partially_signed", "completed", "ended"}]
    BY <1>3, SendType DEF StartStep, ReopenStep, IInv, TypeOK
  <2>5. /\ step' \in [Steps -> StepStatuses]

    BY <1>3 DEF StartStep, ReopenStep, IInv, TypeOK, StepStatuses
  <2>6. QED
    BY <1>1, <1>2, <2>1, <2>2, <2>3, <2>4, <2>5 DEF IInv, TypeOK, templateVars
<1>4. CASE Close(st)
  <2>1. /\ step' \in [Steps -> StepStatuses]

        /\ InProgress' \subseteq InProgress
    BY <1>4 DEF Close, IInv, TypeOK, StepStatuses, InProgress
  <2>2. QED
    BY <1>1, <1>2, <1>4, <2>1 DEF Close, IInv, TypeOK, PrincipalFirst,
       RowsOfTemplate,
       DefinitionsAreAsked, templateVars, pieces
<1>5. QED
  BY <1>3, <1>4 DEF CloseStep, ValidateStep

LEMMA NextIInv == IInv /\ [Next]_vars => IInv'
<1> SUFFICES ASSUME IInv, [Next]_vars PROVE IInv'
  OBVIOUS
<1>1. CASE Next
  BY <1>1, TemplateIInv, PeopleIInv, PiecesIInv, CaseIInv, TransitionIInv
     DEF Next, Pieces
<1>2. CASE UNCHANGED vars
  BY <1>2 DEF IInv, TypeOK, PrincipalFirst, RowsOfTemplate,
     DefinitionsAreAsked, InProgress,
     vars, templateVars, pieces
<1>3. QED
  BY <1>1, <1>2

LEMMA Invariance == Spec => []IInv
  BY InitIInv, NextIInv, PTL DEF Spec

\* Every reachable state of the journey is well typed.
THEOREM TypeCorrect == Spec => []TypeOK
<1>1. IInv => TypeOK
  BY DEF IInv
<1>2. QED
  BY <1>1, Invariance, PTL

\* Whatever the order in which steps start and reopen, definitions come and
\* go and people join and leave, an active step asks the principal all that
\* its template asks.
THEOREM NothingForgotten == Spec => []DefinitionsAreAsked
<1>1. IInv => DefinitionsAreAsked
  BY DEF IInv
<1>2. QED
  BY <1>1, Invariance, PTL

(***************************************************************************)
(* What a step may do.                                                     *)
(***************************************************************************)

\* Everything that may change a step.
Journey ==
  \/ AssignJourney
  \/ \E st \in Steps :
       AddStep(st) \/ StartStep(st) \/ Close(st) \/ ReopenStep(st)
  \/ \E status \in CaseStatuses :
       RecomputeActive(status) /\ UNCHANGED prerequisites

LEMMA StepEvents ==
  ASSUME IInv, [Next]_vars
  PROVE  Journey \/ UNCHANGED step
<1>1. CASE Pieces
  <2>1. RecomputeActive(caseStatus) /\ UNCHANGED prerequisites
    BY <1>1 DEF Pieces, WriteField, Sign, Countersign, FulfillDocument,
       ClearDocument, templateVars
  <2>2. caseStatus \in CaseStatuses
    BY DEF IInv, TypeOK
  <2>3. QED
    BY <2>1, <2>2 DEF Journey
<1>2. ASSUME NEW status \in Statuses, UpdateCase(status)
      PROVE  Journey
  <2>1. RecomputeActive(status) /\ UNCHANGED prerequisites
    BY <1>2 DEF UpdateCase, templateVars
  <2>2. status \in CaseStatuses
    BY BoundAssumption
  <2>3. QED
    BY <2>1, <2>2 DEF Journey
<1>3. CASE \E st \in Steps :
             \/ AddStep(st) \/ StartStep(st) \/ CloseStep(st)
             \/ ValidateStep(st) \/ ReopenStep(st)
  BY <1>3 DEF Journey, CloseStep, ValidateStep
<1>4. CASE AssignJourney
  BY <1>4 DEF Journey
<1>5. ASSUME NEW st \in Steps,
             \/ \E required \in SUBSET Steps : SetPrerequisites(st, required)
             \/ \E type \in Validators : SetValidator(st, type)
      PROVE  UNCHANGED step
  BY <1>5 DEF SetPrerequisites, SetValidator
<1>6. ASSUME NEW d \in Definitions,
             AddDefinition(d) \/ DeleteDefinition(d) \/ EndRequest(d)
      PROVE  UNCHANGED step
  BY <1>6 DEF AddDefinition, DeleteDefinition, EndRequest
<1>7. ASSUME NEW p \in People, AddPerson(p) \/ DeletePerson(p)
      PROVE  UNCHANGED step
  BY <1>7 DEF AddPerson, DeletePerson
<1>8. ASSUME NEW status \in Statuses, BulkSetStatus(status)
      PROVE  UNCHANGED step
  BY <1>8 DEF BulkSetStatus
<1>9. CASE UNCHANGED vars
  BY <1>9 DEF vars
<1>10. CASE Next
  BY <1>1, <1>2, <1>3, <1>4, <1>5, <1>6, <1>7, <1>8, <1>10, Zenon
     DEF Next, Pieces
<1>11. QED
  BY <1>9, <1>10

\* No sequence of starts, closings, reopenings and edits of the template
\* makes a step start or end before its prerequisites.
THEOREM StartsUnlocked == Spec => PrerequisitesHold
<1>1. IInv /\ [Next]_vars => [StepsAreUnlocked]_vars
  <2> SUFFICES ASSUME IInv, [Next]_vars, NEW st \in Steps, NEW q \in Steps,
                      q \in prerequisites[st], step[st] # "done",
                      step'[st] # step[st], step'[st] # "todo"
               PROVE  step'[q] = "done"
    BY DEF StepsAreUnlocked, IInv, TypeOK
  <2>1. Journey
    BY StepEvents
  <2>2. CASE AssignJourney
    BY <2>2 DEF AssignJourney, Assigned, IInv, TypeOK
  <2>3. CASE \E x \in Steps : AddStep(x) \/ ReopenStep(x)
    BY <2>3 DEF AddStep, ReopenStep, IInv, TypeOK
  <2>4. CASE \E x \in Steps : StartStep(x) \/ Close(x)
    BY <2>4 DEF StartStep, Close, Unlocked, Done, IInv, TypeOK
  <2>5. CASE \E status \in CaseStatuses : RecomputeActive(status)
    BY <2>5 DEF RecomputeActive, AutoCloses, Done, IInv, TypeOK
  <2>6. QED
    BY <2>1, <2>2, <2>3, <2>4, <2>5 DEF Journey
<1>2. QED
  BY <1>1, Invariance, PTL DEF Spec, PrerequisitesHold

\* A change of a step leaves the case VALIDATED exactly when all its steps
\* are done, or CLOSED.
THEOREM StatusFollows == Spec => StatusFollowsSteps
<1>1. IInv /\ [Next]_vars => [StatusIsSynced]_vars
  <2> SUFFICES ASSUME IInv, [Next]_vars, step' # step
               PROVE  StatusIsSynced
    BY DEF StatusIsSynced
  <2> DEFINE Synced(status) ==
        \/ status = "closed"
        \/ status = "validated" <=> \A st \in Assigned' : step'[st] = "done"
  <2>1. ASSUME NEW status \in CaseStatuses, NEW st \in Steps,
               step'[st] # "none"
        PROVE  Synced(SyncCaseStatus(status, step'))
    BY <2>1, SyncFollows DEF Assigned
  <2>2. caseStatus \in CaseStatuses
    BY DEF IInv, TypeOK
  <2>3. CASE AssignJourney
    <3> DEFINE synced == SyncCaseStatus(caseStatus, step')
    <3>1. PICK st \in Steps : step'[st] # "none"
      BY <2>3 DEF AssignJourney, Assigned, IInv, TypeOK
    <3>2. Synced(synced)
      BY <2>1, <2>2, <3>1
    <3>3. caseStatus' = IF synced = "prospect" THEN "in_progress" ELSE synced
      BY <2>3 DEF AssignJourney
    <3> HIDE DEF synced
    <3>4. Synced(caseStatus')
      BY <3>2, <3>3
    <3>5. QED
      BY <3>4 DEF StatusIsSynced
  <2>4. CASE \E st \in Steps :
               AddStep(st) \/ StartStep(st) \/ Close(st) \/ ReopenStep(st)
    <3>1. PICK st \in Steps :
            /\ step'[st] # "none"
            /\ caseStatus' = SyncCaseStatus(caseStatus, step')
      BY <2>4 DEF AddStep, StartStep, Close, ReopenStep, IInv, TypeOK
    <3>2. QED
      BY <2>1, <2>2, <3>1 DEF StatusIsSynced
  <2>5. ASSUME NEW status \in CaseStatuses, RecomputeActive(status)
        PROVE  StatusIsSynced
    <3>1. PICK closed \in SUBSET Steps :
            /\ step' = [st \in Steps |->
                          IF st \in closed THEN "done" ELSE step[st]]
            /\ caseStatus' =
                 IF closed = {} THEN status ELSE SyncCaseStatus(status, step')
      BY <2>5 DEF RecomputeActive
    <3>2. closed # {}
      BY <3>1 DEF IInv, TypeOK
    <3>3. PICK st \in Steps : step'[st] # "none"
      BY <3>1, <3>2
    <3>4. QED
      BY <2>1, <3>1, <3>2, <3>3 DEF StatusIsSynced
  <2>6. QED
    BY <2>3, <2>4, <2>5, StepEvents DEF Journey
<1>2. QED
  BY <1>1, Invariance, PTL DEF Spec, StatusFollowsSteps

\* Everything that may change a row, the people or the definitions.
LEMMA RowEvents ==
  ASSUME [Next]_vars
  PROVE  \/ UNCHANGED <<row, persons, defined>>
         \/ \E d \in Definitions :
              \/ AddDefinition(d) \/ DeleteDefinition(d) \/ Sign(d)
              \/ \E p \in People : FulfillDocument(d, p) \/ ClearDocument(d, p)
         \/ \E p \in People : AddPerson(p) \/ DeletePerson(p)
         \/ \E st \in Steps : StartStep(st) \/ ReopenStep(st)
<1>1. ASSUME NEW st \in Steps,
             \/ AddStep(st) \/ CloseStep(st) \/ ValidateStep(st)
             \/ \E required \in SUBSET Steps : SetPrerequisites(st, required)
             \/ \E type \in Validators : SetValidator(st, type)
      PROVE  UNCHANGED <<row, persons, defined>>
  BY <1>1 DEF AddStep, CloseStep, ValidateStep, Close, SetPrerequisites,
     SetValidator, pieces, templateVars
<1>2. ASSUME NEW d \in Definitions, EndRequest(d) \/ Countersign(d)
      PROVE  UNCHANGED <<row, persons, defined>>
  BY <1>2 DEF EndRequest, Countersign, templateVars
<1>3. ASSUME NEW p \in People, NEW value \in BOOLEAN, WriteField(p, value)
      PROVE  UNCHANGED <<row, persons, defined>>
  BY <1>3 DEF WriteField, templateVars
<1>4. ASSUME NEW status \in Statuses,
             UpdateCase(status) \/ BulkSetStatus(status)
      PROVE  UNCHANGED <<row, persons, defined>>
  BY <1>4 DEF UpdateCase, BulkSetStatus, pieces, templateVars
<1>5. AssignJourney \/ UNCHANGED vars => UNCHANGED <<row, persons, defined>>
  BY DEF AssignJourney, vars, pieces, templateVars
<1>6. QED
  BY <1>1, <1>2, <1>3, <1>4, <1>5, Zenon DEF Next

\* No start, reopening or edit asks again for a piece that was provided.
THEOREM AnswersStay == Spec => AnswersAreKept
<1>1. IInv /\ [Next]_vars => [OnlyDeletionForgets]_vars
  <2> SUFFICES ASSUME IInv, [Next]_vars,
                      NEW d \in Definitions, NEW p \in People,
                      row[d][p] = "provided", row'[d][p] = "pending"
               PROVE  ClearDocument(d, p)
    BY DEF OnlyDeletionForgets
  <2>1. ASSUME NEW st, NEW ds, SyncMissing(st, ds)
        PROVE  FALSE
    BY <2>1 DEF SyncMissing, Materialized
  <2>2. CASE \E st \in Steps : StartStep(st) \/ ReopenStep(st)
    BY <2>1, <2>2 DEF StartStep, ReopenStep
  <2>3. CASE \E x \in Definitions : AddDefinition(x)
    BY <2>1, <2>3 DEF AddDefinition
  <2>4. ASSUME NEW x \in Definitions, DeleteDefinition(x) \/ Sign(x)
        PROVE  FALSE
    <3>1. CASE DeleteDefinition(x)
      BY <3>1 DEF DeleteDefinition, IInv, TypeOK
    <3>2. CASE Sign(x)
      <4>1. row' = row \/ row' = [row EXCEPT ![x] =
                                   [row[x] EXCEPT ![Principal] = "provided"]]
        BY <3>2 DEF Sign
      <4>2. QED
        BY <4>1 DEF IInv, TypeOK
    <3>3. QED
      BY <2>4, <3>1, <3>2
  <2>5. CASE \E x \in Definitions, q \in People : FulfillDocument(x, q)
    BY <2>5 DEF FulfillDocument, IInv, TypeOK
  <2>6. ASSUME NEW x \in Definitions, NEW q \in People, ClearDocument(x, q)
        PROVE  x = d /\ q = p
    BY <2>6 DEF ClearDocument, IInv, TypeOK
  <2>7. CASE \E q \in People : AddPerson(q)
    BY <2>7 DEF AddPerson, MaterializeForPerson, IInv, TypeOK
  <2>8. CASE \E q \in People : DeletePerson(q)
    BY <2>8 DEF DeletePerson, IInv, TypeOK
  <2>9. QED
    BY <2>2, <2>3, <2>4, <2>5, <2>6, <2>7, <2>8, RowEvents
<1>2. QED
  BY <1>1, Invariance, PTL DEF Spec, AnswersAreKept

\* Whoever joins the case and whatever joins the template, a step that is
\* and stays active leaves out nobody it had not left out before.
THEOREM EveryoneAskedStays == Spec => EveryoneStaysAsked
<1>1. IInv /\ [Next]_vars => [NobodyLeftOut]_vars
  <2> SUFFICES ASSUME IInv, [Next]_vars, NEW st \in Steps,
                      st \in InProgress, st \in EveryoneAsked,
                      NEW d \in Definitions, StepOf[d] = st, d \in defined',
                      Scope[d] = "each_person",
                      NEW p \in People, p \in persons'
               PROVE  row'[d][p] # "absent"
    <3>1. IInv /\ [Next]_vars => defined' \subseteq Definitions
      BY NextIInv DEF IInv, TypeOK
    <3>2. IInv /\ [Next]_vars => persons' \subseteq People
      BY NextIInv DEF IInv, TypeOK
    <3>3. QED
      BY <3>1, <3>2 DEF NobodyLeftOut, EveryoneAsked, Asks, InProgress
  <2>1. d \in defined =>
          \A q \in persons : row[d][q] # "absent"
    BY DEF EveryoneAsked, Asks, IInv, TypeOK
  <2>2. ASSUME UNCHANGED <<row, defined, persons>>
        PROVE  row'[d][p] # "absent"
    BY <2>1, <2>2
  <2>3. ASSUME NEW x \in Steps, NEW ds, SyncMissing(x, ds),
               UNCHANGED persons, d \in ds, d \in defined \/ x = st
        PROVE  row'[d][p] # "absent"
    <3>1. CASE d \in defined
      BY <2>1, <2>3, <3>1 DEF SyncMissing, Materialized
    <3>2. CASE d \notin defined /\ x = st
      BY <2>3, <3>2 DEF SyncMissing, Materialized, IInv, RowsOfTemplate
    <3>3. QED
      BY <2>3, <3>1, <3>2
  <2>4. CASE \E x \in Steps : StartStep(x) \/ ReopenStep(x)
    BY <2>3, <2>4 DEF StartStep, ReopenStep, templateVars
  <2>5. ASSUME NEW x \in Definitions, AddDefinition(x)
        PROVE  row'[d][p] # "absent"
    <3>1. CASE StepOf[x] \in InProgress
      <4>1. /\ StepOf[x] \in Steps /\ SyncMissing(StepOf[x], defined')
            /\ UNCHANGED persons
            /\ d \in defined \/ StepOf[x] = st
        BY <2>5, <3>1, CompositionAssumption DEF AddDefinition
      <4>2. QED
        BY <2>3, <4>1
    <3>2. CASE StepOf[x] \notin InProgress
      BY <2>1, <2>5, <3>2 DEF AddDefinition
    <3>3. QED
      BY <3>1, <3>2
  <2>6. ASSUME NEW x \in Definitions, DeleteDefinition(x)
        PROVE  row'[d][p] # "absent"
    <3>1. d # x /\ d \in defined /\ UNCHANGED persons
      BY <2>6 DEF DeleteDefinition
    <3>2. row'[d] = row[d]
      BY <2>6, <3>1 DEF DeleteDefinition, IInv, TypeOK
    <3>3. QED
      BY <2>1, <3>1, <3>2
  <2>7. ASSUME NEW x \in Definitions, Sign(x)
        PROVE  row'[d][p] # "absent"
    BY <2>1, <2>7, CompositionAssumption
       DEF Sign, IInv, TypeOK, templateVars
  <2>8. ASSUME NEW x \in Definitions, NEW q \in People,
               FulfillDocument(x, q) \/ ClearDocument(x, q)
        PROVE  row'[d][p] # "absent"
    BY <2>1, <2>8
       DEF FulfillDocument, ClearDocument, IInv, TypeOK, templateVars
  <2>9. ASSUME NEW q \in People, AddPerson(q)
        PROVE  row'[d][p] # "absent"
    BY <2>1, <2>9
       DEF AddPerson, MaterializeForPerson, IInv, TypeOK, templateVars
  <2>10. ASSUME NEW q \in People, DeletePerson(q)
         PROVE  row'[d][p] # "absent"
    BY <2>1, <2>10 DEF DeletePerson, IInv, TypeOK, templateVars
  <2>11. QED
    BY <2>2, <2>4, <2>5, <2>6, <2>7, <2>8, <2>9, <2>10, RowEvents
<1>2. QED
  BY <1>1, Invariance, PTL DEF Spec, EveryoneStaysAsked
=============================================================================
