--------------------------- MODULE ExecutionStore ---------------------------
(***************************************************************************)
(* The execution rows of the SQLite store and their outbox.                *)
(*                                                                         *)
(* Approving a proposal version inserts, in one transaction, an execution  *)
(* row and an outbox row; dispatchers and workers then move the row along  *)
(* with the store methods below.  Every method opens its own connection    *)
(* and runs one transaction, so each is one atomic operator on the rows;   *)
(* the callers that interleave them are in Execution.                      *)
(*                                                                         *)
(* A row is named by the proposal version it executes (the table has a     *)
(* unique index on household, proposal and version): the elements of       *)
(* Executions are approved-or-approvable proposal versions.                *)
(*                                                                         *)
(* Left out: safe_error, the audit rows and the outbox's attempts counter, *)
(* which nothing in the program reads back.                                *)
(***************************************************************************)
EXTENDS Integers

CONSTANT
  Executions    \* proposal versions that can be approved and executed

VARIABLES
  exec,         \* the executions table
  outbox        \* status of each execution's row in execution_outbox

storeVars == <<exec, outbox>>

-----------------------------------------------------------------------------

Terminal == {"completed", "failed", "delivery_uncertain"}

Statuses == {"absent", "pending_dispatch", "queued", "executing"} \cup Terminal

(***************************************************************************)
(* What provider_operation_id may hold: nothing, a value derived from the  *)
(* idempotency key, or the provider object (sent mail, draft) the n-th     *)
(* attempt created.  output_ref likewise names the attempt that stored the *)
(* filled form, or nothing.                                                *)
(***************************************************************************)
NoOperation == 0
KeyOperation == -1
NoOutput == 0

(***************************************************************************)
(* lease is "held" while lease_until lies in the future and "expired" once *)
(* it has passed; "none" is SQL NULL.                                      *)
(***************************************************************************)
Row == [status    : Statuses,
        attempts  : Nat,
        lease     : {"none", "held", "expired"},
        operation : Int,
        output    : Nat]

StoreTypeOK ==
  /\ exec \in [Executions -> Row]
  /\ outbox \in [Executions -> {"absent", "pending", "dispatched"}]

AbsentRow == [status    |-> "absent",
              attempts  |-> 0,
              lease     |-> "none",
              operation |-> NoOperation,
              output    |-> NoOutput]

StoreInit ==
  /\ exec = [e \in Executions |-> AbsentRow]
  /\ outbox = [e \in Executions |-> "absent"]

-----------------------------------------------------------------------------
(* Plausible mistakes in the methods below, which the checks must notice.  *)

(* The lease is not looked at.                                             *)
LeakyClaimable(e) ==
  exec[e].status \in {"pending_dispatch", "queued", "executing"}

(* The second UPDATE is forgotten.                                         *)
OutboxOnlyDispatched(e) ==
  /\ outbox' = [outbox EXCEPT ![e] = "dispatched"]
  /\ UNCHANGED exec

(* The attempt is not compared.                                            *)
SettleAnyAttempt(e, attempts, status, operation, output) ==
  IF exec[e].status = "executing"
  THEN /\ exec' = [exec EXCEPT ![e] = [@ EXCEPT !.status = status,
                                                !.lease = "none",
                                                !.operation = operation,
                                                !.output = output]]
       /\ UNCHANGED outbox
  ELSE UNCHANGED storeVars

(* output_ref is not written.                                              *)
SettleForgetsOutput(e, attempts, status, operation, output) ==
  IF exec[e].status = "executing" /\ exec[e].attempts = attempts
  THEN /\ exec' = [exec EXCEPT ![e] = [@ EXCEPT !.status = status,
                                                !.lease = "none",
                                                !.operation = operation]]
       /\ UNCHANGED outbox
  ELSE UNCHANGED storeVars

(* The status is not compared.                                             *)
UpdateOutputAlways(e, output) ==
  /\ exec' = [exec EXCEPT ![e].output = output]
  /\ UNCHANGED outbox

(* The filled form is not recorded before the settlement.                  *)
UpdateOutputForgotten(e, output) == UNCHANGED storeVars

-----------------------------------------------------------------------------

(***************************************************************************)
(* approve_proposal, for the head version a reviewer approves.  Repeating  *)
(* the approval returns the row that exists and changes nothing.           *)
(***************************************************************************)
ApproveProposal(e) ==
  /\ exec[e].status = "absent"
  /\ exec' = [exec EXCEPT ![e].status = "pending_dispatch"]
  /\ outbox' = [outbox EXCEPT ![e] = "pending"]

Claimable(e) ==
  \/ exec[e].status \in {"pending_dispatch", "queued"}
  \/ exec[e].status = "executing" /\ exec[e].lease = "expired"

(***************************************************************************)
(* claim_execution.  There is no limit on attempts here: MAX_ATTEMPTS is   *)
(* only looked at when an attempt is settled.                              *)
(***************************************************************************)
ClaimExecution(e) ==
  /\ Claimable(e)
  /\ exec' = [exec EXCEPT ![e] = [@ EXCEPT !.status = "executing",
                                           !.attempts = exec[e].attempts + 1,
                                           !.lease = "held"]]
  /\ UNCHANGED outbox

(***************************************************************************)
(* list_dispatchable_executions: the rows its query joins.                 *)
(***************************************************************************)
Dispatchable ==
  {e \in Executions : /\ outbox[e] = "pending"
                      /\ exec[e].status = "pending_dispatch"}

(***************************************************************************)
(* mark_execution_dispatched: the outbox row is closed whatever happened   *)
(* to the execution since it was listed, the status moves only if it is    *)
(* still the listed one.                                                   *)
(***************************************************************************)
MarkDispatched(e) ==
  /\ outbox' = [outbox EXCEPT ![e] = "dispatched"]
  /\ exec' = IF exec[e].status = "pending_dispatch"
             THEN [exec EXCEPT ![e].status = "queued"]
             ELSE exec

(***************************************************************************)
(* update_execution_checkpoint and update_execution_output: guarded by the *)
(* status alone, not by the attempt that calls them.                       *)
(***************************************************************************)
UpdateCheckpoint(e, operation) ==
  IF exec[e].status = "executing"
  THEN /\ exec' = [exec EXCEPT ![e].operation = operation]
       /\ UNCHANGED outbox
  ELSE UNCHANGED storeVars

UpdateOutput(e, output) ==
  IF exec[e].status = "executing"
  THEN /\ exec' = [exec EXCEPT ![e].output = output]
       /\ UNCHANGED outbox
  ELSE UNCHANGED storeVars

(***************************************************************************)
(* settle_execution: only the attempt that is still the current one.       *)
(***************************************************************************)
SettleExecution(e, attempts, status, operation, output) ==
  IF exec[e].status = "executing" /\ exec[e].attempts = attempts
  THEN /\ exec' = [exec EXCEPT ![e] = [@ EXCEPT !.status = status,
                                                !.lease = "none",
                                                !.operation = operation,
                                                !.output = output]]
       /\ UNCHANGED outbox
  ELSE UNCHANGED storeVars

=============================================================================
