---------------------------- MODULE MCReminders ----------------------------
(***************************************************************************)
(* Instance of Reminders for TLC: one case, two follow-ups of the same     *)
(* client about one step (one mail for both), a mail the agency writes     *)
(* about that step, an in-app and a WhatsApp reminder.                     *)
(***************************************************************************)
EXTENDS Reminders

CONSTANTS auto1, auto2, letter, inapp, chat, visa

MCRows == {auto1, auto2, letter, inapp, chat}
MCAutomatic == {auto1, auto2}
MCGroups == {{auto1, auto2}, {letter}, {inapp}, {chat}}
MCStepOf == [r \in Rows |-> IF r \in {auto1, auto2, letter} THEN visa ELSE NoStep]
MCTogether == {{auto1, auto2}, {auto1, inapp}, {letter}, {chat}}
=============================================================================
