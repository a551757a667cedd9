--------------------------- MODULE MCStepProgress ---------------------------
(***************************************************************************)
(* Instance of StepProgress for TLC: a journey of two steps, the second    *)
(* after the first, a step that joins the template later, a family member  *)
(* who joins the case, and three corrections.                              *)
(***************************************************************************)
EXTENDS StepProgress

CONSTANTS s1, s2, s3, passport, contract, birth

MCStepOf == [d \in Definitions |-> IF d = contract THEN s2 ELSE s1]
MCScope == [d \in Definitions |->
              IF d = contract THEN "principal" ELSE "each_person"]
MCKind == [d \in Definitions |-> CASE d = passport -> "document"
                                   [] d = contract -> "signable"
                                   [] OTHER -> "field"]
MCDefaultValidator == [st \in Steps |-> CASE st = s1 -> "none"
                                          [] st = s2 -> "agent"
                                          [] OTHER -> "expat"]
MCInitialPrerequisites == [st \in Steps |-> IF st = s2 THEN {s1} ELSE {}]
MCValidators == {"none", "agent", "expat"}
MCStatuses == {"prospect", "validated", "closed"}
=============================================================================
