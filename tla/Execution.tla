----------------------------- MODULE Execution -----------------------------
(***************************************************************************)
(* From an approved proposal version to the mail or the calendar event.    *)
(*                                                                         *)
(*   reviewer    approves: an execution row and an outbox row              *)
(*   dispatcher  puts a command for each pending row on the FIFO queue,    *)
(*               then marks the row dispatched                             *)
(*   queue       SQS FIFO: visibility timeout, receive count, dead letters *)
(*   worker      receives a command, claims the row under a lease, calls   *)
(*               the mail provider, settles the row, acknowledges          *)
(*   provider    Gmail or Microsoft Graph, as the adapters see it          *)
(*                                                                         *)
(* The rows and their transactions are those of ExecutionStore.  Between   *)
(* two transactions, and around each provider call, any other process may  *)
(* take a step.  What the environment may do to the program is the set     *)
(* Faults, so that a configuration says under which faults a property is   *)
(* claimed.                                                                *)
(***************************************************************************)
EXTENDS ExecutionStore, FiniteSets

CONSTANTS
  Workers,        \* worker processes, or API threads serving the run route
  Dispatchers,    \* callers of dispatch_pending_executions
  Copies,         \* bound: slots for an execution's copies on the queue, numbers
  Connections,    \* connected mail accounts
  ConnectionOf,   \* connection_id of an execution
  ProviderOf,     \* provider of a connection
  KindOf,         \* kind of an execution's payload
  HouseholdOf,    \* household of an execution: its FIFO message group
  LocalMode,      \* TRUE: the run route claims directly, nothing consumes
                  \* the queue; FALSE: commands come from SQS
  MaxAttempts,    \* MAX_ATTEMPTS, five in the code
  MaxReceives,    \* maxReceiveCount of the execution queue, five
  MaxClaims,      \* bound: no lease expires on a row with this many attempts
  Faults,         \* what may go wrong in this configuration
  Nobody          \* the execution of an idle worker or dispatcher

FaultKinds ==
  {"refused",           \* no connection, or an error status with no effect
   "lost",              \* the connection dropped after the request was sent
   "malformed",         \* the provider acted, its answer cannot be parsed
   "gateway",           \* the provider acted, a 5xx came back
   "auth",              \* 401 or 403, or an unreadable credential
   "evidence",          \* message or documents no longer match the payload
   "disconnect",        \* the caregiver disconnects and reconnects accounts
   "enqueue",           \* the queue refuses a command
   "dispatcher_crash",  \* a dispatcher dies between two calls
   "worker_crash",      \* a worker dies between two calls
   "store",             \* the database refuses a call: it is locked, or I/O fails
   "slow"}              \* a worker outlives its lease or its visibility

ASSUME ExecutionsAssumption ==
  /\ KindOf \in [Executions -> {"reply", "pdf_form", "calendar"}]
  /\ ConnectionOf \in [Executions -> Connections]
  /\ ProviderOf \in [Connections -> {"gmail", "outlook"}]
  /\ Copies \subseteq Nat
  /\ Nobody \notin Executions

ASSUME LimitsAssumption ==
  /\ MaxAttempts \in Nat \ {0}
  /\ MaxReceives \in Nat \ {0}
  /\ MaxClaims \in Nat
  /\ LocalMode \in BOOLEAN
  /\ Faults \subseteq FaultKinds

VARIABLES
  dispatcher,   \* the loop of dispatch_pending_executions
  queue,        \* the execution queue: a slot for each copy of a command
  worker,       \* the frame of execute_command
  connection,   \* status of each connection
  drafts,       \* Outlook: drafts created and not sent
  sent          \* mails that left, calendar events that exist

vars == <<exec, outbox, dispatcher, queue, worker, connection, drafts, sent>>

Messages == Executions \X Copies
NoMessage == <<Nobody, 0>>

-----------------------------------------------------------------------------
(* Types                                                                   *)

Provider(e) == ProviderOf[ConnectionOf[e]]
IsMail(e) == KindOf[e] # "calendar"
OutlookMail(e) == IsMail(e) /\ Provider(e) = "outlook"
GmailMail(e) == IsMail(e) /\ Provider(e) = "gmail"

Effect == [operation : Int, output : Nat]

(* Stages of execute_command that run while the attempt is claimed.        *)
Claimed == {"verify", "credentials", "attach", "draft", "checkpoint",
            "send", "confirm", "reauth", "settle"}

Frame == [stage     : {"idle", "claim", "report"} \cup Claimed,
          execution : Executions \cup {Nobody},
          message   : Messages \cup {NoMessage},
          receipt   : Nat,
          attempts  : Nat,
          operation : Int,
          output    : Nat,
          result    : {"none", "queued"} \cup Terminal]

TypeOK ==
  /\ StoreTypeOK
  /\ dispatcher \in [Dispatchers -> [todo    : SUBSET Executions,
                                     current : Executions \cup {Nobody}]]
  /\ queue \in [Messages ->
       [state    : {"unsent", "visible", "inflight", "deleted", "dead"},
        receives : Nat]]
  /\ worker \in [Workers -> Frame]
  /\ connection \in [Connections ->
       {"connected", "reauthorization_required", "disconnected"}]
  /\ drafts \in [Executions -> SUBSET Effect]
  /\ sent \in [Executions -> SUBSET Effect]

IdleFrame == [stage     |-> "idle",
              execution |-> Nobody,
              message   |-> NoMessage,
              receipt   |-> 0,
              attempts  |-> 0,
              operation |-> NoOperation,
              output    |-> NoOutput,
              result    |-> "none"]

IdleDispatcher == [todo |-> {}, current |-> Nobody]

Init ==
  /\ StoreInit
  /\ dispatcher = [d \in Dispatchers |-> IdleDispatcher]
  /\ queue = [m \in Messages |-> [state |-> "unsent", receives |-> 0]]
  /\ worker = [w \in Workers |-> IdleFrame]
  /\ connection = [c \in Connections |-> "connected"]
  /\ drafts = [e \in Executions |-> {}]
  /\ sent = [e \in Executions |-> {}]

-----------------------------------------------------------------------------
(* Reviewer and connection owner                                           *)

Approve(e) ==
  /\ ApproveProposal(e)
  /\ UNCHANGED <<dispatcher, queue, worker, connection, drafts, sent>>

(***************************************************************************)
(* disconnect sets the status and then deletes the credentials; an OAuth   *)
(* round trip connects the account again.                                  *)
(***************************************************************************)
Disconnect(c) ==
  /\ "disconnect" \in Faults
  /\ connection[c] # "disconnected"
  /\ connection' = [connection EXCEPT ![c] = "disconnected"]
  /\ UNCHANGED <<exec, outbox, dispatcher, queue, worker, drafts, sent>>

Reconnect(c) ==
  /\ "disconnect" \in Faults
  /\ connection[c] # "connected"
  /\ connection' = [connection EXCEPT ![c] = "connected"]
  /\ UNCHANGED <<exec, outbox, dispatcher, queue, worker, drafts, sent>>

-----------------------------------------------------------------------------
(* Dispatcher                                                              *)

(* dispatch_pending_executions reads its list once, then walks it.         *)
ListDispatchable(d) ==
  /\ dispatcher[d] = IdleDispatcher
  /\ Dispatchable # {}
  /\ dispatcher' = [dispatcher EXCEPT ![d].todo = Dispatchable]
  /\ UNCHANGED <<exec, outbox, queue, worker, connection, drafts, sent>>

(***************************************************************************)
(* The queue stores a command unless it still remembers the deduplication  *)
(* id of an earlier copy; SQS forgets it after five minutes, so a second   *)
(* copy may be stored or dropped (slots are taken in order).  A refused    *)
(* command only counts a failure on the outbox row.                        *)
(***************************************************************************)
StoresCommand(e) ==
  \E m \in Messages :
    /\ m[1] = e
    /\ queue[m].state = "unsent"
    /\ \A n \in Messages : n[1] = e /\ n[2] < m[2] => queue[n].state # "unsent"
    /\ queue' = [queue EXCEPT ![m].state = "visible"]

DropsDuplicate(e) ==
  /\ \E m \in Messages : m[1] = e /\ queue[m].state # "unsent"
  /\ UNCHANGED queue

Enqueue(d, e) ==
  /\ dispatcher[d].current = Nobody
  /\ e \in dispatcher[d].todo
  /\ StoresCommand(e) \/ DropsDuplicate(e)
  /\ dispatcher' = [dispatcher EXCEPT ![d] = [todo    |-> @.todo \ {e},
                                              current |-> e]]
  /\ UNCHANGED <<exec, outbox, worker, connection, drafts, sent>>

EnqueueFails(d, e) ==
  /\ "enqueue" \in Faults
  /\ dispatcher[d].current = Nobody
  /\ e \in dispatcher[d].todo
  /\ dispatcher' = [dispatcher EXCEPT ![d].todo = @ \ {e}]
  /\ UNCHANGED <<exec, outbox, queue, worker, connection, drafts, sent>>

Mark(d) ==
  /\ dispatcher[d].current # Nobody
  /\ MarkDispatched(dispatcher[d].current)
  /\ dispatcher' = [dispatcher EXCEPT ![d].current = Nobody]
  /\ UNCHANGED <<queue, worker, connection, drafts, sent>>

(* The dispatcher dies, or an exception of the database leaves its loop.   *)
DispatcherCrashes(d) ==
  /\ Faults \cap {"dispatcher_crash", "store"} # {}
  /\ dispatcher[d] # IdleDispatcher
  /\ dispatcher' = [dispatcher EXCEPT ![d] = IdleDispatcher]
  /\ UNCHANGED <<exec, outbox, queue, worker, connection, drafts, sent>>

-----------------------------------------------------------------------------
(* Queue                                                                   *)

(* Some worker still holds the latest receipt of message m.                *)
Handled(m) ==
  \E w \in Workers : /\ worker[w].message = m
                      /\ worker[w].receipt = queue[m].receives

(* Messages of a household are one FIFO group: one in flight at a time.    *)
GroupBlocked(m) ==
  \E n \in Messages : /\ queue[n].state = "inflight"
                       /\ HouseholdOf[n[1]] = HouseholdOf[m[1]]

(***************************************************************************)
(* A message that was neither acknowledged nor refused in time comes back, *)
(* or goes to the dead-letter queue after maxReceiveCount receptions.  The *)
(* worker that received it may still be running only if it is slow.        *)
(***************************************************************************)
VisibilityExpires(m) ==
  /\ queue[m].state = "inflight"
  /\ Handled(m) => "slow" \in Faults
  /\ queue' = [queue EXCEPT ![m].state =
                  IF queue[m].receives >= MaxReceives THEN "dead" ELSE "visible"]
  /\ UNCHANGED <<exec, outbox, dispatcher, worker, connection, drafts, sent>>

(***************************************************************************)
(* lease_until passes.  Without slow workers this is only seen after the   *)
(* worker that claimed the attempt has died.                               *)
(***************************************************************************)
Owns(w, e) ==
  /\ worker[w].stage \in Claimed
  /\ worker[w].execution = e
  /\ worker[w].attempts = exec[e].attempts

LeaseExpires(e) ==
  /\ exec[e].status = "executing"
  /\ exec[e].lease = "held"
  /\ exec[e].attempts < MaxClaims
  /\ (\E w \in Workers : Owns(w, e)) => "slow" \in Faults
  /\ exec' = [exec EXCEPT ![e].lease = "expired"]
  /\ UNCHANGED <<outbox, dispatcher, queue, worker, connection, drafts, sent>>

-----------------------------------------------------------------------------
(* Worker: create_execution_handler, run_execution and execute_command     *)

(* The worker whose frame is f goes on to the named stage.                 *)
GoTo(w, stage) == worker' = [worker EXCEPT ![w].stage = stage]

(* _perform returned or raised: what settle will write.                    *)
Finish(w, result, operation) ==
  worker' = [worker EXCEPT ![w] = [@ EXCEPT !.stage = "settle",
                                            !.result = result,
                                            !.operation = operation]]

(* Mistakes: one attempt too many; a status outside the declared ones.     *)
RetryPastLimit(w) ==
  Finish(w, IF worker[w].attempts > MaxAttempts THEN "failed" ELSE "queued",
         worker[w].operation)

RetryUndeclared(w) ==
  Finish(w, IF worker[w].attempts >= MaxAttempts THEN "failed" ELSE "retrying",
         worker[w].operation)

(* A ProviderError, or an exception of no SchoolSift class.                *)
Retry(w) ==
  Finish(w, IF worker[w].attempts >= MaxAttempts THEN "failed" ELSE "queued",
         worker[w].operation)

(* A ProviderAuthError or VaultError: _reauth first, then settle.          *)
Unauthorized(w) == GoTo(w, "reauth")

(* Any other SchoolSiftError.                                              *)
GiveUp(w) == Finish(w, "failed", worker[w].operation)

Start(w, e, m, receipt) ==
  worker' = [worker EXCEPT ![w] = [IdleFrame EXCEPT !.stage = "claim",
                                                    !.execution = e,
                                                    !.message = m,
                                                    !.receipt = receipt]]

Receive(w, m) ==
  /\ ~LocalMode
  /\ worker[w].stage = "idle"
  /\ queue[m].state = "visible"
  /\ ~GroupBlocked(m)
  /\ queue' = [queue EXCEPT ![m] = [state    |-> "inflight",
                                    receives |-> @.receives + 1]]
  /\ Start(w, m[1], m, queue[m].receives + 1)
  /\ UNCHANGED <<exec, outbox, dispatcher, connection, drafts, sent>>

Run(w, e) ==
  /\ LocalMode
  /\ worker[w].stage = "idle"
  /\ exec[e].status \notin {"absent"} \cup Terminal
  /\ Start(w, e, NoMessage, 0)
  /\ UNCHANGED <<exec, outbox, dispatcher, queue, connection, drafts, sent>>

Claim(w) ==
  LET e == worker[w].execution IN
  /\ worker[w].stage = "claim"
  /\ ClaimExecution(e)
  /\ worker' = [worker EXCEPT ![w] =
                  [@ EXCEPT !.stage = "verify",
                            !.attempts = exec[e].attempts + 1,
                            !.operation = exec[e].operation,
                            !.output = exec[e].output]]
  /\ UNCHANGED <<dispatcher, queue, connection, drafts, sent>>

(* claim_execution returned None: execute_command returns None at once.    *)
ClaimRefused(w) ==
  /\ worker[w].stage = "claim"
  /\ ~Claimable(worker[w].execution)
  /\ GoTo(w, "report")
  /\ UNCHANGED <<exec, outbox, dispatcher, queue, connection, drafts, sent>>

(***************************************************************************)
(* _perform up to the adapter: the version, its hash, the message and the  *)
(* documents are read again and the connection must be connected.  An      *)
(* approved version and its hash cannot change; a later import can replace *)
(* the message and the documents the payload is validated against.         *)
(***************************************************************************)
Verify(w) ==
  /\ worker[w].stage = "verify"
  /\ connection[ConnectionOf[worker[w].execution]] = "connected"
  /\ GoTo(w, "credentials")
  /\ UNCHANGED <<exec, outbox, dispatcher, queue, connection, drafts, sent>>

VerifyFails(w) ==
  /\ worker[w].stage = "verify"
  /\ \/ connection[ConnectionOf[worker[w].execution]] # "connected"
     \/ "evidence" \in Faults
  /\ GiveUp(w)
  /\ UNCHANGED <<exec, outbox, dispatcher, queue, connection, drafts, sent>>

(***************************************************************************)
(* _load_credentials.  A refresh can be refused or fail; the credentials   *)
(* of an account disconnected after it was verified may be gone, which the *)
(* keyring reports as a KeyError (retried) and Secrets Manager as a        *)
(* VaultError (the account is marked for reauthorization).                 *)
(***************************************************************************)
LoadCredentials(w) ==
  /\ worker[w].stage = "credentials"
  /\ LET e == worker[w].execution IN
     GoTo(w, IF KindOf[e] = "pdf_form" THEN "attach"
             ELSE IF OutlookMail(e) /\ worker[w].operation = NoOperation
                  THEN "draft" ELSE "send")
  /\ UNCHANGED <<exec, outbox, dispatcher, queue, connection, drafts, sent>>

LoadCredentialsFails(w) ==
  /\ worker[w].stage = "credentials"
  /\ LET gone == /\ connection[ConnectionOf[worker[w].execution]] = "disconnected"
                 /\ "disconnect" \in Faults
     IN \/ "auth" \in Faults /\ Unauthorized(w)
        \/ "refused" \in Faults /\ Retry(w)
        \/ gone /\ IF LocalMode THEN Retry(w) ELSE Unauthorized(w)
  /\ UNCHANGED <<exec, outbox, dispatcher, queue, connection, drafts, sent>>

(***************************************************************************)
(* _pdf_attachment: fill and store the form once, and use the stored form  *)
(* in later attempts.  The document may have changed (the attempt fails)   *)
(* or its content may have expired (a KeyError: retried).                  *)
(***************************************************************************)
Attach(w) ==
  LET e == worker[w].execution
      output == IF worker[w].output = NoOutput
                THEN worker[w].attempts ELSE worker[w].output
      next == IF OutlookMail(e) /\ worker[w].operation = NoOperation
              THEN "draft" ELSE "send"
  IN /\ worker[w].stage = "attach"
     /\ IF worker[w].output = NoOutput
        THEN UpdateOutput(e, output)
        ELSE UNCHANGED storeVars
     /\ worker' = [worker EXCEPT ![w] = [@ EXCEPT !.stage = next,
                                                  !.output = output]]
     /\ UNCHANGED <<dispatcher, queue, connection, drafts, sent>>

AttachFails(w) ==
  /\ worker[w].stage = "attach"
  /\ "evidence" \in Faults
  /\ GiveUp(w) \/ Retry(w)
  /\ UNCHANGED <<exec, outbox, dispatcher, queue, connection, drafts, sent>>

(***************************************************************************)
(* Outlook, first half of send_email: create a draft, then checkpoint its  *)
(* id on the row.  Any transport error here is a plain ProviderError.      *)
(***************************************************************************)
NewDraft(w) == [operation |-> worker[w].attempts, output |-> worker[w].output]

CreatesDraft(w) ==
  drafts' = [drafts EXCEPT ![worker[w].execution] = @ \cup {NewDraft(w)}]

CreateDraft(w) ==
  /\ worker[w].stage = "draft"
  /\ CreatesDraft(w)
  /\ GoTo(w, "checkpoint")
  /\ UNCHANGED <<exec, outbox, dispatcher, queue, connection, sent>>

CreateDraftFails(w) ==
  /\ worker[w].stage = "draft"
  /\ \/ "refused" \in Faults /\ Retry(w) /\ UNCHANGED drafts
     \/ Faults \cap {"lost", "malformed", "gateway"} # {} /\ Retry(w) /\ CreatesDraft(w)
     \/ "auth" \in Faults /\ Unauthorized(w) /\ UNCHANGED drafts
  /\ UNCHANGED <<exec, outbox, dispatcher, queue, connection, sent>>

(* Mistake: the draft id is kept in the frame only.                        *)
CheckpointForgotten(w) ==
  /\ worker[w].stage = "checkpoint"
  /\ worker' = [worker EXCEPT ![w] = [@ EXCEPT !.stage = "send",
                                               !.operation = worker[w].attempts]]
  /\ UNCHANGED <<exec, outbox, dispatcher, queue, connection, drafts, sent>>

Checkpoint(w) ==
  /\ worker[w].stage = "checkpoint"
  /\ UpdateCheckpoint(worker[w].execution, worker[w].attempts)
  /\ worker' = [worker EXCEPT ![w] = [@ EXCEPT !.stage = "send",
                                               !.operation = worker[w].attempts]]
  /\ UNCHANGED <<dispatcher, queue, connection, drafts, sent>>

(***************************************************************************)
(* The irreversible call.  A calendar insert carries an id (Gmail) or a    *)
(* transaction id (Outlook) derived from the idempotency key, so that the  *)
(* provider keeps one event however often it is called.  A Gmail send      *)
(* leaves a new mail each time.  Sending an Outlook draft consumes it.     *)
(***************************************************************************)
(* Mistake: the event id also depends on the attempt.                      *)
PerAttemptEvent(w) == [operation |-> worker[w].attempts, output |-> NoOutput]

KeyedEvent(w) == [operation |-> KeyOperation, output |-> NoOutput]

NewMail(w) == [operation |-> worker[w].attempts, output |-> worker[w].output]

Leaves(w, effect) ==
  sent' = [sent EXCEPT ![worker[w].execution] = @ \cup {effect}]

SendDraft(w) ==
  LET e == worker[w].execution IN
  \E d \in drafts[e] :
    /\ d.operation = worker[w].operation
    /\ drafts' = [drafts EXCEPT ![e] = @ \ {d}]
    /\ Leaves(w, d)

ProviderActs(w) ==
  LET e == worker[w].execution IN
  IF OutlookMail(e)
  THEN SendDraft(w)
  ELSE /\ Leaves(w, IF IsMail(e) THEN NewMail(w) ELSE KeyedEvent(w))
       /\ UNCHANGED drafts

(* A 2xx answer.  Outlook then looks for the mail in the sent items.       *)
Send(w) ==
  LET e == worker[w].execution IN
  /\ worker[w].stage = "send"
  /\ ProviderActs(w)
  /\ IF OutlookMail(e)
     THEN GoTo(w, "confirm")
     ELSE Finish(w, "completed",
                 IF IsMail(e) THEN worker[w].attempts ELSE KeyOperation)
  /\ UNCHANGED <<exec, outbox, dispatcher, queue, connection>>

(* The draft is no longer there: a 404, which is a plain ProviderError.    *)
SendDraftGone(w) ==
  LET e == worker[w].execution IN
  /\ worker[w].stage = "send"
  /\ OutlookMail(e)
  /\ \A d \in drafts[e] : d.operation # worker[w].operation
  /\ Retry(w)
  /\ UNCHANGED <<exec, outbox, dispatcher, queue, connection, drafts, sent>>

UncertainOperation(w) ==
  IF OutlookMail(worker[w].execution) THEN worker[w].operation ELSE KeyOperation

(* Mistake: a dropped connection is treated like a refused one.            *)
SendLostRetries(w) ==
  /\ "lost" \in Faults
  /\ worker[w].stage = "send"
  /\ ProviderActs(w) \/ UNCHANGED <<drafts, sent>>
  /\ Retry(w)
  /\ UNCHANGED <<exec, outbox, dispatcher, queue, connection>>

(* The connection dropped: DeliveryUncertainError with the operation's id. *)
SendLost(w) ==
  /\ "lost" \in Faults
  /\ worker[w].stage = "send"
  /\ ProviderActs(w) \/ UNCHANGED <<drafts, sent>>
  /\ Finish(w, "delivery_uncertain", UncertainOperation(w))
  /\ UNCHANGED <<exec, outbox, dispatcher, queue, connection>>

SendRefused(w) ==
  /\ worker[w].stage = "send"
  /\ \/ "refused" \in Faults /\ Retry(w)
     \/ "auth" \in Faults /\ Unauthorized(w)
  /\ UNCHANGED <<exec, outbox, dispatcher, queue, connection, drafts, sent>>

ReadsAnswer(e) == GmailMail(e) \/ (~IsMail(e) /\ Provider(e) = "outlook")

(***************************************************************************)
(* The provider acted and the adapter raises a ProviderError: a 5xx, or an *)
(* answer _validate_json or the shape check after it refuses.  Outlook's   *)
(* send does not read the body, and Google's event insert reads one only   *)
(* after a 409, when the event is there already.                           *)
(***************************************************************************)
SendMisread(w) ==
  LET e == worker[w].execution IN
  /\ worker[w].stage = "send"
  /\ \/ "gateway" \in Faults
     \/ "malformed" \in Faults /\ ~OutlookMail(e) /\ (ReadsAnswer(e) \/ sent[e] # {})
  /\ ProviderActs(w)
  /\ Retry(w)
  /\ UNCHANGED <<exec, outbox, dispatcher, queue, connection>>

Confirm(w) ==
  /\ worker[w].stage = "confirm"
  /\ \E result \in {"completed", "delivery_uncertain"} :
       Finish(w, result, worker[w].operation)
  /\ UNCHANGED <<exec, outbox, dispatcher, queue, connection, drafts, sent>>

(* _reauth: whatever the status was meanwhile, a disconnect included.      *)
Reauthorize(w) ==
  /\ worker[w].stage = "reauth"
  /\ connection' = [connection EXCEPT
       ![ConnectionOf[worker[w].execution]] = "reauthorization_required"]
  /\ GiveUp(w)
  /\ UNCHANGED <<exec, outbox, dispatcher, queue, drafts, sent>>

(* _settle: the fields it does not pass keep the row's values.             *)
Settle(w) ==
  LET e == worker[w].execution
      result == worker[w].result
  IN /\ worker[w].stage = "settle"
     /\ SettleExecution(e, worker[w].attempts, result,
          IF result \in {"completed", "delivery_uncertain"}
          THEN worker[w].operation ELSE exec[e].operation,
          IF result = "completed" /\ KindOf[e] = "pdf_form"
          THEN worker[w].output ELSE exec[e].output)
     /\ GoTo(w, "report")
     /\ UNCHANGED <<dispatcher, queue, connection, drafts, sent>>

(***************************************************************************)
(* The database refuses a call made inside execute_command's try: it is an *)
(* exception of no SchoolSift class, so the attempt is to be settled as    *)
(* queued or failed.  The settlement of a completed action is one of these *)
(* calls, made after the action.                                           *)
(***************************************************************************)
StoreFails(w) ==
  /\ "store" \in Faults
  /\ \/ worker[w].stage \in {"verify", "attach", "checkpoint"}
     \/ worker[w].stage = "settle" /\ worker[w].result = "completed"
  /\ Retry(w)
  /\ UNCHANGED <<exec, outbox, dispatcher, queue, connection, drafts, sent>>

(***************************************************************************)
(* execute_command reads the row again, and the handler acknowledges the   *)
(* message unless the row it read is queued.  A receipt superseded by a    *)
(* later reception, or whose visibility has expired, deletes nothing.      *)
(***************************************************************************)
Acknowledge(m, receipt) ==
  queue' = IF m \in Messages /\ queue[m] = [state |-> "inflight", receives |-> receipt]
           THEN [queue EXCEPT ![m].state = "deleted"]
           ELSE queue

(* Mistake: the handler acknowledges a queued result too.                  *)
ReportAlwaysAcknowledges(w) ==
  /\ worker[w].stage = "report"
  /\ Acknowledge(worker[w].message, worker[w].receipt)
  /\ worker' = [worker EXCEPT ![w] = IdleFrame]
  /\ UNCHANGED <<exec, outbox, dispatcher, connection, drafts, sent>>

Report(w) ==
  /\ worker[w].stage = "report"
  /\ IF worker[w].attempts > 0 /\ exec[worker[w].execution].status = "queued"
     THEN UNCHANGED queue
     ELSE Acknowledge(worker[w].message, worker[w].receipt)
  /\ worker' = [worker EXCEPT ![w] = IdleFrame]
  /\ UNCHANGED <<exec, outbox, dispatcher, connection, drafts, sent>>

(***************************************************************************)
(* Outside the try (the claim, _reauth and the settlements of the except   *)
(* clauses, the last read) an exception of the database leaves             *)
(* execute_command: the handler gives the message back, the run route      *)
(* answers an error, and the row stays as it is, as when the worker dies.  *)
(***************************************************************************)
StoreRaises(w) ==
  /\ "store" \in Faults
  /\ \/ worker[w].stage \in {"claim", "reauth", "report"}
     \/ worker[w].stage = "settle" /\ worker[w].result # "completed"

WorkerCrashes(w) ==
  /\ \/ "worker_crash" \in Faults /\ worker[w].stage # "idle"
     \/ StoreRaises(w)
  /\ worker' = [worker EXCEPT ![w] = IdleFrame]
  /\ UNCHANGED <<exec, outbox, dispatcher, queue, connection, drafts, sent>>

-----------------------------------------------------------------------------

Reviewer == \E e \in Executions : Approve(e)

Owner == \E c \in Connections : Disconnect(c) \/ Reconnect(c)

Dispatch(d) ==
  \/ ListDispatchable(d)
  \/ \E e \in Executions : Enqueue(d, e) \/ EnqueueFails(d, e)
  \/ Mark(d)

Delivery(w) == \E m \in Messages : Receive(w, m)

RunRoute(w) == \E e \in Executions : Run(w, e)

Work(w) ==
  \/ Claim(w) \/ ClaimRefused(w)
  \/ Verify(w) \/ VerifyFails(w)
  \/ LoadCredentials(w) \/ LoadCredentialsFails(w)
  \/ Attach(w) \/ AttachFails(w)
  \/ CreateDraft(w) \/ CreateDraftFails(w) \/ Checkpoint(w)
  \/ Send(w) \/ SendDraftGone(w) \/ SendLost(w) \/ SendRefused(w) \/ SendMisread(w)
  \/ Confirm(w) \/ Reauthorize(w)
  \/ Settle(w) \/ StoreFails(w) \/ Report(w)

Time ==
  \/ \E m \in Messages : VisibilityExpires(m)
  \/ \E e \in Executions : LeaseExpires(e)

Crash ==
  \/ \E d \in Dispatchers : DispatcherCrashes(d)
  \/ \E w \in Workers : WorkerCrashes(w)

Next ==
  \/ Reviewer \/ Owner \/ Time \/ Crash
  \/ \E d \in Dispatchers : Dispatch(d)
  \/ \E w \in Workers : Delivery(w) \/ RunRoute(w) \/ Work(w)

Spec == Init /\ [][Next]_vars

(***************************************************************************)
(* Fairness.  A running worker goes on, SQS makes a message visible again  *)
(* and hands a message that stays available to a consumer, and a lease     *)
(* runs out.  Nothing in the program calls the dispatcher by itself (the   *)
(* dispatch route does, in local mode): it is assumed to be called until   *)
(* its calls get through, the queue and the process not failing it every   *)
(* time.                                                                   *)
(***************************************************************************)
Fairness ==
  /\ \A w \in Workers : WF_vars(Work(w))
  /\ \A w \in Workers, m \in Messages : SF_vars(Receive(w, m))
  /\ WF_vars(Time)
  /\ \A d \in Dispatchers, e \in Executions : SF_vars(Enqueue(d, e))
  /\ \A d \in Dispatchers : WF_vars(ListDispatchable(d)) /\ SF_vars(Mark(d))

FairSpec == Spec /\ Fairness

-----------------------------------------------------------------------------
(* Properties                                                              *)

(***************************************************************************)
(* At most one mail leaves and at most one event exists for an approved    *)
(* version (the deterministic ids that "cannot double-send").              *)
(***************************************************************************)
SingleDelivery ==
  \A e \in Executions : \A s, t \in sent[e] : s = t

(***************************************************************************)
(* A worker inside _perform or about to settle holds the row's current     *)
(* attempt under a live lease: the row is executing and no later claim     *)
(* has been made.                                                          *)
(***************************************************************************)
NoStaleWorker ==
  \A w \in Workers :
    LET e == worker[w].execution IN
    worker[w].stage \in Claimed =>
      /\ exec[e].status = "executing"
      /\ exec[e].lease = "held"
      /\ exec[e].attempts = worker[w].attempts

(***************************************************************************)
(* A completed row names the mail or the event that exists at the          *)
(* provider, with the filled form that mail carried.                       *)
(***************************************************************************)
CompletedMeansDelivered ==
  \A e \in Executions :
    exec[e].status = "completed" =>
      [operation |-> exec[e].operation, output |-> exec[e].output] \in sent[e]

(***************************************************************************)
(* Only an action that has not happened is offered to another attempt or   *)
(* reported as failed: execution.py's "retries are limited to              *)
(* pre-side-effect failures".  The code keeps it while the provider's      *)
(* answers are read as they are meant, no attempt is cut off and the       *)
(* database takes the settlement; the violation runs show two ways in      *)
(* which it does not.                                                      *)
(***************************************************************************)
RetryOnlyBeforeEffect ==
  \A e \in Executions :
    exec[e].status \in {"pending_dispatch", "queued", "failed"} => sent[e] = {}

(***************************************************************************)
(* A row waiting for dispatch is always one the dispatcher's query finds:  *)
(* no approval is lost between the outbox and the execution row.           *)
(***************************************************************************)
NeverUndispatchable ==
  \A e \in Executions :
    exec[e].status = "pending_dispatch" => e \in Dispatchable

(***************************************************************************)
(* A row that is neither waiting for dispatch nor settled has somebody to  *)
(* finish it: the worker of its current attempt, or a command still on the *)
(* queue.  It relates MAX_ATTEMPTS to the queue's maxReceiveCount and the  *)
(* lease to the handler's acknowledgements.                                *)
(***************************************************************************)
NeverStranded ==
  \A e \in Executions :
    exec[e].status \in {"queued", "executing"} =>
      \/ \E w \in Workers : Owns(w, e)
      \/ \E m \in Messages : m[1] = e /\ queue[m].state \in {"visible", "inflight"}

(* The README's "at most five times": no attempt beyond MAX_ATTEMPTS.      *)
AttemptsWithinLimit ==
  \A e \in Executions : exec[e].attempts <= MaxAttempts

(***************************************************************************)
(* A settled row never changes again: no late checkpoint, stored form,     *)
(* dispatch, claim or settlement of a superseded attempt touches it.       *)
(***************************************************************************)
TerminalIsFinal ==
  [][\A e \in Executions :
       exec[e].status \in Terminal => exec'[e] = exec[e]]_vars

(***************************************************************************)
(* An executing row is settled only by the worker of its current attempt,  *)
(* with what that worker concluded.                                        *)
(***************************************************************************)
SettledByItsAttempt ==
  [][\A e \in Executions :
       exec[e].status = "executing" /\ exec'[e].status # "executing" =>
         \E w \in Workers : /\ Owns(w, e)
                            /\ worker[w].stage = "settle"
                            /\ worker[w].result = exec'[e].status]_vars

(***************************************************************************)
(* The program keeps the promise of ApprovedAction: queue, leases, retries *)
(* and provider calls are seen from outside as one action carried out at   *)
(* most once, while it is open, and one truthful outcome.                  *)
(***************************************************************************)
Promise == INSTANCE ApprovedAction WITH
  outcome <- [e \in Executions |->
                CASE exec[e].status = "absent"   -> "none"
                  [] exec[e].status \in Terminal -> exec[e].status
                  [] OTHER                       -> "open"],
  deliveries <- [e \in Executions |-> Cardinality(sent[e])]

KeepsPromise == Promise!Spec

(* Every approved action reaches one of the explicit outcomes.             *)
EventuallySettled ==
  \A e \in Executions :
    exec[e].status = "pending_dispatch" ~> exec[e].status \in Terminal

=============================================================================
