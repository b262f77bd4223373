---------------------------- MODULE MCExecution ----------------------------
(* Small instances of Execution for TLC.                                   *)
EXTENDS Execution, TLC

CONSTANTS e1, e2, gmail_account, outlook_account

MCConnectionOf == [e \in Executions |-> IF e = e1 THEN gmail_account ELSE outlook_account]

MCProviderOf == [c \in Connections |-> IF c = gmail_account THEN "gmail" ELSE "outlook"]

(* One household: both commands are in one FIFO group.                     *)
MCHouseholdOf == [e \in Executions |-> "household"]

(* A mail from Gmail and a filled form from Outlook.                       *)
MCMails == [e \in Executions |-> IF e = e1 THEN "reply" ELSE "pdf_form"]

(* Filled forms from both accounts.                                        *)
MCForms == [e \in Executions |-> "pdf_form"]

(* A calendar event at Google and a filled form from Outlook.              *)
MCEventAndForm == [e \in Executions |-> IF e = e1 THEN "calendar" ELSE "pdf_form"]

(* Workers are interchangeable; only runs without liveness use this.       *)
WorkerSymmetry == Permutations(Workers)

=============================================================================
