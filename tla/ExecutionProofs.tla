--------------------------- MODULE ExecutionProofs ---------------------------
(***************************************************************************)
(* What holds of Execution whatever the environment does: every kind of    *)
(* fault in Faults, any number of workers, dispatchers, copies, attempts.  *)
(* The state is well typed, a settled row is final, only the worker of the *)
(* current attempt settles a row, a row that waits for dispatch is found   *)
(* by the dispatcher, and a completed row names what exists at the         *)
(* provider unless it is a form sent through Outlook.                      *)
(***************************************************************************)
EXTENDS Execution, TLAPS

(***************************************************************************)
(* TypeOK alone is not inductive: a worker at work has an execution to     *)
(* look up, and one about to settle has concluded something.               *)
(***************************************************************************)
WorkerOK ==
  /\ worker \in [Workers -> Frame]
  /\ \A w \in Workers :
       /\ worker[w].stage # "idle" => worker[w].execution \in Executions
       /\ worker[w].stage = "settle" => worker[w].result # "none"

TypeInv == TypeOK /\ WorkerOK

-----------------------------------------------------------------------------

(* The transactions of the store.                                          *)
LEMMA RowTypes ==
  ASSUME StoreTypeOK, NEW e \in Executions, NEW r \in Row,
         exec' = [exec EXCEPT ![e] = r] \/ UNCHANGED exec,
         NEW status \in {"pending", "dispatched"},
         outbox' = [outbox EXCEPT ![e] = status] \/ UNCHANGED outbox
  PROVE  StoreTypeOK'
  BY DEF StoreTypeOK

LEMMA StoreMoves ==
  ASSUME StoreTypeOK, NEW e \in Executions,
         ApproveProposal(e) \/ ClaimExecution(e) \/ MarkDispatched(e)
  PROVE  StoreTypeOK'
<1>1. exec[e] \in Row
  BY DEF StoreTypeOK
<1>2. CASE ApproveProposal(e)
  <2>1. [exec[e] EXCEPT !.status = "pending_dispatch"] \in Row
    BY <1>1 DEF Row, Statuses
  <2>2. QED
    BY <1>2, <2>1, RowTypes DEF ApproveProposal
<1>3. CASE ClaimExecution(e)
  <2>1. exec[e].attempts + 1 \in Nat
    BY <1>1 DEF Row
  <2>2. [exec[e] EXCEPT !.status = "executing", !.attempts = exec[e].attempts + 1,
                        !.lease = "held"] \in Row
    BY <1>1, <2>1 DEF Row, Statuses
  <2>3. QED
    BY <1>3, <2>2, RowTypes DEF ClaimExecution
<1>4. CASE MarkDispatched(e)
  <2>1. [exec[e] EXCEPT !.status = "queued"] \in Row
    BY <1>1 DEF Row, Statuses
  <2>2. QED
    BY <1>4, <2>1, RowTypes DEF MarkDispatched
<1>5. QED
  BY <1>2, <1>3, <1>4

LEMMA StoreUpdates ==
  ASSUME StoreTypeOK, NEW e \in Executions, NEW n \in Nat, NEW o \in Int, NEW u \in Nat,
         NEW s \in Terminal \cup {"queued"},
         \/ UpdateCheckpoint(e, o)
         \/ UpdateOutput(e, u)
         \/ SettleExecution(e, n, s, o, u)
         \/ UNCHANGED storeVars
  PROVE  StoreTypeOK'
<1>1. exec[e] \in Row
  BY DEF StoreTypeOK
<1>2. CASE UpdateCheckpoint(e, o)
  <2>1. [exec[e] EXCEPT !.operation = o] \in Row
    BY <1>1 DEF Row
  <2>2. QED
    BY <1>2, <2>1, RowTypes DEF UpdateCheckpoint, storeVars
<1>3. CASE UpdateOutput(e, u)
  <2>1. [exec[e] EXCEPT !.output = u] \in Row
    BY <1>1 DEF Row
  <2>2. QED
    BY <1>3, <2>1, RowTypes DEF UpdateOutput, storeVars
<1>4. CASE SettleExecution(e, n, s, o, u)
  <2>1. [exec[e] EXCEPT !.status = s, !.lease = "none", !.operation = o,
                        !.output = u] \in Row
    BY <1>1 DEF Row, Statuses, Terminal
  <2>2. QED
    BY <1>4, <2>1, RowTypes DEF SettleExecution, storeVars
<1>5. CASE UNCHANGED storeVars
  BY <1>5 DEF storeVars, StoreTypeOK
<1>6. QED
  BY <1>2, <1>3, <1>4, <1>5

LEMMA IdleFrameType == IdleFrame \in Frame /\ IdleFrame.stage = "idle"
<1>1. IdleFrame = [stage |-> "idle", execution |-> Nobody, message |-> NoMessage,
                   receipt |-> 0, attempts |-> 0, operation |-> 0, output |-> 0,
                   result |-> "none"]
  BY DEF IdleFrame, NoOperation, NoOutput
<1>2. QED
  BY <1>1 DEF Frame

(* Updates of one worker's frame.                                          *)
LEMMA FrameTypes ==
  ASSUME WorkerOK, NEW w \in Workers, NEW f \in Frame,
         f.stage # "idle" => f.execution \in Executions,
         f.stage = "settle" => f.result # "none",
         worker' = [worker EXCEPT ![w] = f]
  PROVE  WorkerOK'
<1>1. worker' \in [Workers -> Frame]
  BY DEF WorkerOK
<1>2. \A v \in Workers : worker'[v] = IF v = w THEN f ELSE worker[v]
  BY DEF WorkerOK
<1>3. QED
  BY <1>1, <1>2 DEF WorkerOK

LEMMA GoToTypes ==
  ASSUME WorkerOK, NEW w \in Workers, worker[w].stage # "idle",
         NEW stage \in (Claimed \cup {"claim", "report"}) \ {"settle"}, GoTo(w, stage)
  PROVE  WorkerOK'
<1> DEFINE f == [worker[w] EXCEPT !.stage = stage]
<1>1. worker[w] \in Frame
  BY DEF WorkerOK
<1>2. f \in Frame /\ f.stage = stage /\ f.execution = worker[w].execution
  BY <1>1 DEF Frame
<1>3. worker' = [worker EXCEPT ![w] = f]
  BY DEF GoTo
<1>4. worker[w].execution \in Executions
  BY DEF WorkerOK
<1>5. QED
  BY <1>2, <1>3, <1>4, FrameTypes

LEMMA FinishTypes ==
  ASSUME WorkerOK, NEW w \in Workers, worker[w].stage # "idle",
         NEW result \in Terminal \cup {"queued"}, NEW o \in Int, Finish(w, result, o)
  PROVE  WorkerOK'
<1> DEFINE f == [worker[w] EXCEPT !.stage = "settle", !.result = result, !.operation = o]
<1>1. worker[w] \in Frame
  BY DEF WorkerOK
<1>2. f \in Frame /\ f.result = result /\ f.execution = worker[w].execution
  BY <1>1 DEF Frame, Claimed
<1>3. worker' = [worker EXCEPT ![w] = f]
  BY DEF Finish
<1>4. worker[w].execution \in Executions /\ result # "none"
  BY DEF WorkerOK, Terminal
<1>5. QED
  BY <1>2, <1>3, <1>4, FrameTypes

LEMMA StopTypes ==
  ASSUME WorkerOK, NEW w \in Workers, worker[w].stage # "idle",
         \/ Retry(w)
         \/ GiveUp(w)
         \/ Unauthorized(w)
  PROVE  WorkerOK'
<1>1. worker[w].operation \in Int /\ worker[w].attempts \in Nat
  BY DEF WorkerOK, Frame
<1>2. CASE Retry(w)
  BY <1>1, <1>2, FinishTypes DEF Retry, Terminal
<1>3. CASE GiveUp(w)
  BY <1>1, <1>3, FinishTypes DEF GiveUp, Terminal
<1>4. CASE Unauthorized(w)
  BY <1>4, GoToTypes DEF Unauthorized, Claimed
<1>5. QED
  BY <1>2, <1>3, <1>4

LEMMA StartTypes ==
  ASSUME WorkerOK, NEW w \in Workers, NEW e \in Executions,
         NEW m \in Messages \cup {NoMessage}, NEW r \in Nat, Start(w, e, m, r)
  PROVE  WorkerOK'
<1> DEFINE f == [IdleFrame EXCEPT !.stage = "claim", !.execution = e,
                                  !.message = m, !.receipt = r]
<1>1. f \in Frame /\ f.stage = "claim" /\ f.execution = e
  BY IdleFrameType DEF Frame
<1>2. worker' = [worker EXCEPT ![w] = f]
  BY DEF Start
<1>3. QED
  BY <1>1, <1>2, FrameTypes

LEMMA IdleTypes ==
  ASSUME WorkerOK, NEW w \in Workers, worker' = [worker EXCEPT ![w] = IdleFrame]
  PROVE  WorkerOK'
  BY IdleFrameType, FrameTypes

-----------------------------------------------------------------------------

(***************************************************************************)
(* What a state is made of besides the store and the frames.               *)
(***************************************************************************)
DispatcherOK ==
  dispatcher \in [Dispatchers -> [todo    : SUBSET Executions,
                                  current : Executions \cup {Nobody}]]

QueueOK ==
  queue \in [Messages ->
    [state    : {"unsent", "visible", "inflight", "deleted", "dead"},
     receives : Nat]]

ConnectionOK ==
  connection \in [Connections ->
    {"connected", "reauthorization_required", "disconnected"}]

EffectsOK ==
  /\ drafts \in [Executions -> SUBSET Effect]
  /\ sent \in [Executions -> SUBSET Effect]

LEMMA TypeParts ==
  TypeInv <=> /\ StoreTypeOK /\ WorkerOK /\ DispatcherOK
              /\ QueueOK /\ ConnectionOK /\ EffectsOK
  BY DEF TypeInv, TypeOK, WorkerOK, DispatcherOK, QueueOK, ConnectionOK, EffectsOK

LEMMA TypeInit == Init => TypeInv
<1> SUFFICES ASSUME Init PROVE TypeInv
  OBVIOUS
<1>1. StoreTypeOK
  <2>1. AbsentRow \in Row
    BY DEF AbsentRow, Row, Statuses, NoOperation, NoOutput
  <2>2. QED
    BY <2>1 DEF Init, StoreInit, StoreTypeOK
<1>2. WorkerOK
  BY IdleFrameType DEF Init, WorkerOK
<1>3. DispatcherOK /\ QueueOK /\ ConnectionOK /\ EffectsOK
  BY DEF Init, IdleDispatcher, DispatcherOK, QueueOK, ConnectionOK, EffectsOK
<1>4. QED
  BY <1>1, <1>2, <1>3, TypeParts

(* Steps of everybody but the workers, and crashes.                        *)
LEMMA EnvironmentTypes ==
  ASSUME TypeInv,
         Reviewer \/ Owner \/ Time \/ Crash \/ \E d \in Dispatchers : Dispatch(d)
  PROVE  TypeInv'
<1> USE DEF DispatcherOK, QueueOK, ConnectionOK, EffectsOK
<1>0. /\ StoreTypeOK /\ WorkerOK /\ DispatcherOK
      /\ QueueOK /\ ConnectionOK /\ EffectsOK
  BY TypeParts
<1> SUFFICES /\ StoreTypeOK' /\ WorkerOK' /\ DispatcherOK'
             /\ QueueOK' /\ ConnectionOK' /\ EffectsOK'
  BY DEF TypeInv, TypeOK, WorkerOK
<1>1. ASSUME NEW e \in Executions, Approve(e)
      PROVE  StoreTypeOK' /\ UNCHANGED <<dispatcher, queue, worker, connection, drafts, sent>>
  BY <1>0, <1>1, StoreMoves DEF Approve
<1>2. ASSUME NEW c \in Connections, Disconnect(c) \/ Reconnect(c)
      PROVE  ConnectionOK' /\ UNCHANGED <<exec, outbox, dispatcher, queue, worker, drafts, sent>>
  BY <1>0, <1>2 DEF Disconnect, Reconnect
<1>3. ASSUME NEW m \in Messages, VisibilityExpires(m)
      PROVE  QueueOK' /\ UNCHANGED <<exec, outbox, dispatcher, worker, connection, drafts, sent>>
  BY <1>0, <1>3 DEF VisibilityExpires
<1>4. ASSUME NEW e \in Executions, LeaseExpires(e)
      PROVE  StoreTypeOK' /\ UNCHANGED <<dispatcher, queue, worker, connection, drafts, sent>>
  <2>1. [exec[e] EXCEPT !.lease = "expired"] \in Row
    BY <1>0 DEF StoreTypeOK, Row
  <2>2. exec' = [exec EXCEPT ![e] = [exec[e] EXCEPT !.lease = "expired"]]
    BY <1>4 DEF LeaseExpires
  <2>3. QED
    BY <1>0, <1>4, <2>1, <2>2, RowTypes DEF LeaseExpires
<1>5. ASSUME NEW d \in Dispatchers, DispatcherCrashes(d)
      PROVE  DispatcherOK' /\ UNCHANGED <<exec, outbox, queue, worker, connection, drafts, sent>>
  BY <1>0, <1>5 DEF DispatcherCrashes, IdleDispatcher
<1>6. ASSUME NEW w \in Workers, WorkerCrashes(w)
      PROVE  WorkerOK' /\ UNCHANGED <<exec, outbox, dispatcher, queue, connection, drafts, sent>>
  BY <1>0, <1>6, IdleTypes DEF WorkerCrashes
<1>7. ASSUME NEW d \in Dispatchers, ListDispatchable(d)
      PROVE  DispatcherOK' /\ UNCHANGED <<exec, outbox, queue, worker, connection, drafts, sent>>
  BY <1>0, <1>7 DEF ListDispatchable, Dispatchable
<1>8. ASSUME NEW d \in Dispatchers, NEW e \in Executions, Enqueue(d, e)
      PROVE  /\ DispatcherOK' /\ QueueOK'
             /\ UNCHANGED <<exec, outbox, worker, connection, drafts, sent>>
  <2>1. QueueOK'
    BY <1>0, <1>8 DEF Enqueue, StoresCommand, DropsDuplicate
  <2>2. [todo |-> dispatcher[d].todo \ {e}, current |-> e]
          \in [todo : SUBSET Executions, current : Executions \cup {Nobody}]
    BY <1>0
  <2>3. DispatcherOK'
    BY <1>0, <1>8, <2>2 DEF Enqueue
  <2>4. QED
    BY <1>8, <2>1, <2>3 DEF Enqueue
<1>9. ASSUME NEW d \in Dispatchers, NEW e \in Executions, EnqueueFails(d, e)
      PROVE  DispatcherOK' /\ UNCHANGED <<exec, outbox, queue, worker, connection, drafts, sent>>
  BY <1>0, <1>9 DEF EnqueueFails
<1>10. ASSUME NEW d \in Dispatchers, Mark(d)
       PROVE  /\ StoreTypeOK' /\ DispatcherOK'
              /\ UNCHANGED <<queue, worker, connection, drafts, sent>>
  <2>1. dispatcher[d].current \in Executions
    BY <1>0, <1>10 DEF Mark
  <2>2. QED
    BY <1>0, <1>10, <2>1, StoreMoves DEF Mark
<1>11. QED
  BY <1>0, <1>1, <1>2, <1>3, <1>4, <1>5, <1>6, <1>7, <1>8, <1>9, <1>10
  DEF Reviewer, Owner, Time, Crash, Dispatch, StoreTypeOK, WorkerOK

(* Steps of a worker.                                                      *)
LEMMA WorkerTypes ==
  ASSUME TypeInv, NEW w \in Workers, Delivery(w) \/ RunRoute(w) \/ Work(w)
  PROVE  TypeInv'
<1> USE DEF DispatcherOK, QueueOK, ConnectionOK, EffectsOK
<1> DEFINE others == <<outbox, dispatcher, queue, connection, drafts, sent>>
           e == worker[w].execution
<1>0. /\ StoreTypeOK /\ WorkerOK /\ DispatcherOK
      /\ QueueOK /\ ConnectionOK /\ EffectsOK
  BY TypeParts
<1>a. /\ worker[w] \in Frame
      /\ worker[w].stage # "idle" => e \in Executions
      /\ worker[w].stage = "settle" => worker[w].result \in Terminal \cup {"queued"}
  BY <1>0 DEF WorkerOK, Frame
<1>b. worker[w].attempts \in Nat /\ worker[w].operation \in Int /\ worker[w].output \in Nat
  BY <1>a DEF Frame
<1> SUFFICES /\ StoreTypeOK' /\ WorkerOK' /\ DispatcherOK'
             /\ QueueOK' /\ ConnectionOK' /\ EffectsOK'
  BY DEF TypeInv, TypeOK, WorkerOK
<1>1. ASSUME NEW m \in Messages, Receive(w, m)
      PROVE  /\ WorkerOK' /\ QueueOK'
             /\ UNCHANGED <<exec, outbox, dispatcher, connection, drafts, sent>>
  <2>1. m[1] \in Executions /\ queue[m].receives + 1 \in Nat
    BY <1>0 DEF Messages
  <2>2. WorkerOK'
    BY <1>0, <1>1, <2>1, StartTypes DEF Receive
  <2>3. [state |-> "inflight", receives |-> queue[m].receives + 1]
          \in [state : {"unsent", "visible", "inflight", "deleted", "dead"}, receives : Nat]
    BY <2>1
  <2>4. QueueOK'
    BY <1>0, <1>1, <2>3 DEF Receive
  <2>5. QED
    BY <1>1, <2>2, <2>4 DEF Receive
<1>2. ASSUME NEW x \in Executions, Run(w, x)
      PROVE  /\ WorkerOK'
             /\ UNCHANGED <<exec, outbox, dispatcher, queue, connection, drafts, sent>>
  BY <1>0, <1>2, StartTypes DEF Run
<1>3. CASE Claim(w)
  <2>1. StoreTypeOK'
    BY <1>0, <1>3, <1>a, StoreMoves DEF Claim
  <2> DEFINE f == [worker[w] EXCEPT !.stage = "verify",
                                    !.attempts = exec[e].attempts + 1,
                                    !.operation = exec[e].operation,
                                    !.output = exec[e].output]
  <2>2. /\ exec[e].attempts + 1 \in Nat
        /\ exec[e].operation \in Int
        /\ exec[e].output \in Nat
    BY <1>0, <1>3, <1>a DEF Claim, StoreTypeOK, Row
  <2>3. f \in Frame /\ f.execution = e /\ f.stage = "verify"
    BY <1>a, <2>2 DEF Frame, Claimed
  <2>4. worker' = [worker EXCEPT ![w] = f]
    BY <1>3 DEF Claim
  <2>5. WorkerOK'
    BY <1>0, <1>3, <1>a, <2>3, <2>4, FrameTypes DEF Claim
  <2>6. QED
    BY <1>0, <1>3, <2>1, <2>5 DEF Claim
<1>4. CASE ClaimRefused(w) \/ Verify(w) \/ LoadCredentials(w)
  <2>1. WorkerOK'
    BY <1>0, <1>4, GoToTypes DEF ClaimRefused, Verify, LoadCredentials, Claimed
  <2>2. QED
    BY <1>0, <1>4, <2>1 DEF ClaimRefused, Verify, LoadCredentials, StoreTypeOK
<1>5. CASE VerifyFails(w) \/ LoadCredentialsFails(w) \/ AttachFails(w)
           \/ SendDraftGone(w) \/ SendRefused(w)
  <2>1. WorkerOK'
    BY <1>0, <1>5, StopTypes
    DEF VerifyFails, LoadCredentialsFails, AttachFails, SendDraftGone, SendRefused
  <2>2. QED
    BY <1>0, <1>5, <2>1
    DEF VerifyFails, LoadCredentialsFails, AttachFails, SendDraftGone, SendRefused, StoreTypeOK
<1>6. CASE Attach(w)
  <2> DEFINE output == IF worker[w].output = NoOutput
                       THEN worker[w].attempts ELSE worker[w].output
             next == IF OutlookMail(e) /\ worker[w].operation = NoOperation
                     THEN "draft" ELSE "send"
             f == [worker[w] EXCEPT !.stage = next, !.output = output]
  <2>1. f \in Frame /\ f.execution = e /\ f.stage \notin {"idle", "settle"}
    BY <1>a, <1>b DEF Frame, Claimed
  <2>2. worker' = [worker EXCEPT ![w] = f]
    BY <1>6 DEF Attach
  <2>3. WorkerOK'
    BY <1>0, <1>6, <1>a, <2>1, <2>2, FrameTypes DEF Attach
  <2>4. StoreTypeOK'
    BY <1>0, <1>6, <1>a, <1>b, StoreUpdates DEF Attach, Terminal
  <2>5. QED
    BY <1>0, <1>6, <2>3, <2>4 DEF Attach
<1>c. NewDraft(w) \in Effect /\ NewMail(w) \in Effect /\ KeyedEvent(w) \in Effect
  BY <1>b DEF NewDraft, NewMail, KeyedEvent, Effect, KeyOperation, NoOutput
<1>d. ASSUME CreatesDraft(w), UNCHANGED sent, e \in Executions PROVE EffectsOK'
  <2>1. drafts[e] \cup {NewDraft(w)} \in SUBSET Effect
    BY <1>0, <1>c, <1>d
  <2>2. drafts' = [drafts EXCEPT ![e] = drafts[e] \cup {NewDraft(w)}]
    BY <1>d DEF CreatesDraft
  <2>3. QED
    BY <1>0, <1>d, <2>1, <2>2
<1>e. ASSUME ProviderActs(w), e \in Executions PROVE EffectsOK'
  <2>1. ASSUME NEW x \in Effect, Leaves(w, x)
        PROVE  sent' \in [Executions -> SUBSET Effect]
    <3>1. sent[e] \cup {x} \in SUBSET Effect
      BY <1>0, <1>e
    <3>2. sent' = [sent EXCEPT ![e] = sent[e] \cup {x}]
      BY <2>1 DEF Leaves
    <3>3. QED
      BY <1>0, <3>1, <3>2
  <2>2. CASE OutlookMail(e)
    <3>1. PICK d \in drafts[e] : drafts' = [drafts EXCEPT ![e] = drafts[e] \ {d}] /\ Leaves(w, d)
      BY <1>e, <2>2 DEF ProviderActs, SendDraft
    <3>2. d \in Effect /\ drafts[e] \ {d} \in SUBSET Effect
      BY <1>0, <1>e
    <3>3. drafts' \in [Executions -> SUBSET Effect]
      BY <1>0, <3>1, <3>2
    <3>4. QED
      BY <2>1, <3>1, <3>2, <3>3
  <2>3. CASE ~OutlookMail(e)
    BY <1>0, <1>c, <1>e, <2>1, <2>3 DEF ProviderActs
  <2>4. QED
    BY <2>2, <2>3
<1>7. CASE CreateDraft(w) \/ CreateDraftFails(w)
  <2>1. EffectsOK'
    BY <1>0, <1>7, <1>a, <1>d DEF CreateDraft, CreateDraftFails
  <2>2. WorkerOK'
    BY <1>0, <1>7, GoToTypes, StopTypes DEF CreateDraft, CreateDraftFails, Claimed
  <2>3. QED
    BY <1>0, <1>7, <2>1, <2>2 DEF CreateDraft, CreateDraftFails, StoreTypeOK
<1>8. CASE Checkpoint(w)
  <2> DEFINE f == [worker[w] EXCEPT !.stage = "send", !.operation = worker[w].attempts]
  <2>0. worker[w].attempts \in Int
    BY <1>b
  <2>1. f \in Frame /\ f.execution = e /\ f.stage = "send"
    BY <1>a, <2>0 DEF Frame, Claimed
  <2>2. worker' = [worker EXCEPT ![w] = f]
    BY <1>8 DEF Checkpoint
  <2>3. WorkerOK'
    BY <1>0, <1>8, <1>a, <2>1, <2>2, FrameTypes DEF Checkpoint
  <2>4. StoreTypeOK'
    BY <1>0, <1>8, <1>a, <1>b, StoreUpdates DEF Checkpoint, Terminal
  <2>5. QED
    BY <1>0, <1>8, <2>3, <2>4 DEF Checkpoint
<1>9. CASE Send(w)
  <2>1. WorkerOK'
    BY <1>0, <1>9, <1>b, GoToTypes, FinishTypes DEF Send, Claimed, Terminal, KeyOperation
  <2>2. QED
    BY <1>0, <1>9, <1>a, <1>e, <2>1 DEF Send, StoreTypeOK
<1>10. CASE SendLost(w)
  <2>1. UncertainOperation(w) \in Int
    BY <1>b DEF UncertainOperation, KeyOperation
  <2>2. WorkerOK'
    BY <1>0, <1>10, <2>1, FinishTypes DEF SendLost, Terminal
  <2>3. QED
    BY <1>0, <1>10, <1>a, <1>e, <2>2 DEF SendLost, StoreTypeOK
<1>11. CASE SendMisread(w)
  <2>1. WorkerOK'
    BY <1>0, <1>11, StopTypes DEF SendMisread
  <2>2. QED
    BY <1>0, <1>11, <1>a, <1>e, <2>1 DEF SendMisread, StoreTypeOK
<1>12. CASE Confirm(w)
  <2>1. WorkerOK'
    BY <1>0, <1>12, <1>b, FinishTypes DEF Confirm, Terminal
  <2>2. QED
    BY <1>0, <1>12, <2>1 DEF Confirm, StoreTypeOK
<1>13. CASE Reauthorize(w)
  <2>1. WorkerOK'
    BY <1>0, <1>13, StopTypes DEF Reauthorize
  <2>2. QED
    BY <1>0, <1>13, <2>1 DEF Reauthorize, StoreTypeOK
<1>14. CASE Settle(w)
  <2>1. StoreTypeOK'
    <3>1. exec[e].operation \in Int /\ exec[e].output \in Nat
      BY <1>0, <1>14, <1>a DEF Settle, StoreTypeOK, Row
    <3>2. QED
      BY <1>0, <1>14, <1>a, <1>b, <3>1, StoreUpdates DEF Settle
  <2>2. WorkerOK'
    BY <1>0, <1>14, GoToTypes DEF Settle
  <2>3. QED
    BY <1>0, <1>14, <2>1, <2>2 DEF Settle
<1>15. CASE Report(w)
  <2>1. WorkerOK'
    BY <1>0, <1>15, IdleTypes DEF Report
  <2>2. QueueOK'
    BY <1>0, <1>15 DEF Report, Acknowledge
  <2>3. QED
    BY <1>0, <1>15, <2>1, <2>2 DEF Report, StoreTypeOK
<1>16. CASE StoreFails(w)
  <2>1. WorkerOK'
    BY <1>0, <1>16, StopTypes DEF StoreFails
  <2>2. QED
    BY <1>0, <1>16, <2>1 DEF StoreFails, StoreTypeOK
<1>17. QED
  BY <1>0, <1>1, <1>2, <1>3, <1>4, <1>5, <1>6, <1>7, <1>8, <1>9, <1>10, <1>11, <1>12,
     <1>13, <1>14, <1>15, <1>16
  DEF Delivery, RunRoute, Work, StoreTypeOK, WorkerOK

LEMMA TypeStep == TypeInv /\ [Next]_vars => TypeInv'
<1> SUFFICES ASSUME TypeInv, [Next]_vars PROVE TypeInv'
  OBVIOUS
<1>1. CASE UNCHANGED vars
  BY <1>1 DEF vars, TypeInv, TypeOK, WorkerOK, StoreTypeOK
<1>2. CASE Next
  BY <1>2, EnvironmentTypes, WorkerTypes DEF Next
<1>3. QED
  BY <1>1, <1>2

(***************************************************************************)
(* Every reachable state is well typed: rows, outbox, queue slots, worker  *)
(* frames and provider state only hold values the code declares; a row's   *)
(* status is one of ExecutionStatus.                                       *)
(***************************************************************************)
THEOREM TypeCorrect == Spec => []TypeOK
<1>1. TypeInv => TypeOK
  BY DEF TypeInv
<1>2. QED
  BY TypeInit, TypeStep, <1>1, PTL DEF Spec

-----------------------------------------------------------------------------
(* Settled rows                                                            *)

(***************************************************************************)
(* The steps that write a row, and how.                                    *)
(***************************************************************************)
LEMMA RowSteps ==
  ASSUME TypeInv, [Next]_vars
  PROVE  \/ UNCHANGED exec
         \/ \E e \in Executions : ApproveProposal(e) \/ MarkDispatched(e) \/ LeaseExpires(e)
         \/ \E w \in Workers : Claim(w) \/ Attach(w) \/ Checkpoint(w) \/ Settle(w)
<1> SUFFICES ASSUME Next
             PROVE  \/ UNCHANGED exec
                    \/ \E e \in Executions : \/ ApproveProposal(e)
                                           \/ MarkDispatched(e)
                                           \/ LeaseExpires(e)
                    \/ \E w \in Workers : Claim(w) \/ Attach(w) \/ Checkpoint(w) \/ Settle(w)
  BY DEF vars
<1>1. CASE Reviewer \/ Owner \/ Time \/ Crash
  BY <1>1 DEF Reviewer, Owner, Time, Crash, Approve, Disconnect, Reconnect,
              VisibilityExpires, DispatcherCrashes, WorkerCrashes
<1>2. ASSUME NEW d \in Dispatchers, Dispatch(d)
      PROVE  UNCHANGED exec \/ \E e \in Executions : MarkDispatched(e)
  <2>1. dispatcher[d].current # Nobody => dispatcher[d].current \in Executions
    BY DEF TypeInv, TypeOK
  <2>2. QED
    BY <1>2, <2>1 DEF Dispatch, ListDispatchable, Enqueue, EnqueueFails, Mark
<1>3. ASSUME NEW w \in Workers, Delivery(w) \/ RunRoute(w)
      PROVE  UNCHANGED exec
  BY <1>3 DEF Delivery, RunRoute, Receive, Run
<1>4. ASSUME NEW v \in Workers, Work(v)
      PROVE  \/ UNCHANGED exec
             \/ \E w \in Workers : Claim(w) \/ Attach(w) \/ Checkpoint(w) \/ Settle(w)
  BY <1>4 DEF Work, ClaimRefused, Verify, VerifyFails, LoadCredentials, LoadCredentialsFails,
              AttachFails, CreateDraft, CreateDraftFails, Send, SendDraftGone, SendLost,
              SendRefused, SendMisread, Confirm, Reauthorize, StoreFails, Report
<1>5. QED
  <2>1. CASE \E d \in Dispatchers : Dispatch(d)
    BY <1>2, <2>1
  <2>2. CASE \E w \in Workers : Delivery(w) \/ RunRoute(w) \/ Work(w)
    <3>1. PICK w \in Workers : Delivery(w) \/ RunRoute(w) \/ Work(w)
      BY <2>2
    <3>2. CASE Delivery(w) \/ RunRoute(w)
      BY <1>3, <3>2
    <3>3. CASE Work(w)
      BY <1>4, <3>3
    <3>4. QED
      BY <3>1, <3>2, <3>3
  <2>3. QED
    BY <1>1, <2>1, <2>2 DEF Next

LEMMA SettledRowKept ==
  ASSUME TypeInv, [Next]_vars, NEW e \in Executions, exec[e].status \in Terminal
  PROVE  exec'[e] = exec[e]
<1>1. exec \in [Executions -> Row]
  BY DEF TypeInv, TypeOK, StoreTypeOK
<1>2. exec[e].status \notin {"absent", "pending_dispatch", "queued", "executing"}
  BY DEF Terminal
<1>3. ASSUME NEW x \in Executions, ApproveProposal(x) \/ MarkDispatched(x) \/ LeaseExpires(x)
      PROVE  exec'[e] = exec[e]
  BY <1>1, <1>2, <1>3 DEF ApproveProposal, MarkDispatched, LeaseExpires
<1>4. ASSUME NEW w \in Workers, Claim(w) \/ Attach(w) \/ Checkpoint(w) \/ Settle(w)
      PROVE  exec'[e] = exec[e]
  <2>1. CASE Claim(w)
    BY <1>1, <1>2, <2>1 DEF Claim, ClaimExecution, Claimable
  <2>2. CASE Attach(w)
    BY <1>1, <1>2, <2>2 DEF Attach, UpdateOutput, storeVars
  <2>3. CASE Checkpoint(w)
    BY <1>1, <1>2, <2>3 DEF Checkpoint, UpdateCheckpoint, storeVars
  <2>4. CASE Settle(w)
    BY <1>1, <1>2, <2>4 DEF Settle, SettleExecution, storeVars
  <2>5. QED
    BY <1>4, <2>1, <2>2, <2>3, <2>4
<1>5. QED
  BY <1>3, <1>4, RowSteps

(***************************************************************************)
(* A completed, failed or delivery_uncertain row is never written again,   *)
(* by a late checkpoint, stored form, dispatch, lease, claim or            *)
(* settlement, even of workers that outlived their lease: every store      *)
(* method guards its UPDATE by a status that is not terminal.              *)
(***************************************************************************)
THEOREM SettledRowsNeverChange == Spec => TerminalIsFinal
<1>1. TypeInv /\ [Next]_vars =>
        [\A e \in Executions : exec[e].status \in Terminal => exec'[e] = exec[e]]_vars
  BY SettledRowKept
<1>2. TypeInv /\ [Next]_vars => TypeInv'
  BY TypeStep
<1>3. QED
  BY TypeInit, <1>1, <1>2, PTL DEF Spec, TerminalIsFinal

LEMMA SettledByOwner ==
  ASSUME TypeInv, [Next]_vars, NEW e \in Executions,
         exec[e].status = "executing", exec'[e].status # "executing"
  PROVE  \E w \in Workers : /\ Owns(w, e)
                            /\ worker[w].stage = "settle"
                            /\ worker[w].result = exec'[e].status
<1>1. exec \in [Executions -> Row]
  BY DEF TypeInv, TypeOK, StoreTypeOK
<1>2. ASSUME NEW x \in Executions, ApproveProposal(x) \/ MarkDispatched(x) \/ LeaseExpires(x)
      PROVE  FALSE
  BY <1>1, <1>2 DEF ApproveProposal, MarkDispatched, LeaseExpires, Row
<1>3. ASSUME NEW w \in Workers, Claim(w) \/ Attach(w) \/ Checkpoint(w)
      PROVE  FALSE
  <2>1. CASE Claim(w)
    BY <1>1, <2>1 DEF Claim, ClaimExecution, Row
  <2>2. CASE Attach(w)
    BY <1>1, <2>2 DEF Attach, UpdateOutput, storeVars, Row
  <2>3. CASE Checkpoint(w)
    BY <1>1, <2>3 DEF Checkpoint, UpdateCheckpoint, storeVars, Row
  <2>4. QED
    BY <1>3, <2>1, <2>2, <2>3
<1>4. PICK w \in Workers : Settle(w)
  BY <1>2, <1>3, RowSteps
<1>5. worker[w].execution \in Executions
  BY <1>4 DEF Settle, TypeInv, WorkerOK
<1>6. worker[w].execution = e
  BY <1>1, <1>4, <1>5 DEF Settle, SettleExecution, storeVars, Row
<1>7. exec[e].attempts = worker[w].attempts /\ worker[w].result = exec'[e].status
  BY <1>1, <1>4, <1>6 DEF Settle, SettleExecution, storeVars, Row
<1>8. QED
  BY <1>4, <1>6, <1>7 DEF Settle, Owns, Claimed

(***************************************************************************)
(* An executing row leaves that status only by the settlement of the       *)
(* worker that made the row's latest claim, and takes the status that      *)
(* worker concluded: a superseded worker's settle_execution changes        *)
(* nothing, because it compares attempts.                                  *)
(***************************************************************************)
THEOREM OnlyTheOwnerSettles == Spec => SettledByItsAttempt
<1>1. TypeInv /\ [Next]_vars =>
        [\A e \in Executions :
           exec[e].status = "executing" /\ exec'[e].status # "executing" =>
             \E w \in Workers : /\ Owns(w, e)
                                /\ worker[w].stage = "settle"
                                /\ worker[w].result = exec'[e].status]_vars
  BY SettledByOwner
<1>2. TypeInv /\ [Next]_vars => TypeInv'
  BY TypeStep
<1>3. QED
  BY TypeInit, <1>1, <1>2, PTL DEF Spec, SettledByItsAttempt

-----------------------------------------------------------------------------
(* Dispatch                                                                *)

LEMMA DispatchableKept ==
  ASSUME TypeInv, NeverUndispatchable, [Next]_vars
  PROVE  NeverUndispatchable'
<1>1. exec \in [Executions -> Row] /\ outbox \in [Executions -> {"absent", "pending", "dispatched"}]
  BY DEF TypeInv, TypeOK, StoreTypeOK
<1> SUFFICES ASSUME NEW e \in Executions, exec'[e].status = "pending_dispatch"
             PROVE  outbox'[e] = "pending"
  BY DEF NeverUndispatchable, Dispatchable
<1>2. exec[e].status = "pending_dispatch" => outbox[e] = "pending"
  BY DEF NeverUndispatchable, Dispatchable
<1>3. ASSUME NEW x \in Executions, ApproveProposal(x) \/ MarkDispatched(x)
      PROVE  outbox'[e] = "pending"
  BY <1>1, <1>2, <1>3 DEF ApproveProposal, MarkDispatched, Row
<1>4. ASSUME UNCHANGED outbox  PROVE outbox'[e] = "pending"
  <2>1. ASSUME NEW x \in Executions, LeaseExpires(x)  PROVE exec[e].status = "pending_dispatch"
    BY <1>1, <2>1 DEF LeaseExpires, Row
  <2>2. ASSUME NEW w \in Workers, Claim(w)  PROVE exec[e].status = "pending_dispatch"
    BY <1>1, <2>2 DEF Claim, ClaimExecution, Row
  <2>3. ASSUME NEW w \in Workers, Attach(w) \/ Checkpoint(w)
        PROVE  exec[e].status = "pending_dispatch"
    BY <1>1, <2>3 DEF Attach, UpdateOutput, Checkpoint, UpdateCheckpoint, storeVars, Row
  <2>4. ASSUME NEW w \in Workers, Settle(w)  PROVE exec[e].status = "pending_dispatch"
    <3>1. exec[e].status = "executing" \/ exec'[e] = exec[e]
      <4>1. CASE UNCHANGED exec
        BY <4>1
      <4>2. CASE exec[worker[w].execution].status = "executing"
        <5>1. UNCHANGED exec \/ \E r : exec' = [exec EXCEPT ![worker[w].execution] = r]
          BY <2>4, Zenon DEF Settle, SettleExecution, storeVars
        <5> QED
          BY <1>1, <4>2, <5>1
      <4> QED
        BY <2>4, <4>1, <4>2 DEF Settle, SettleExecution, storeVars
    <3>2. CASE exec[e].status = "executing"
      <4>1. PICK v \in Workers : worker[v].result = "pending_dispatch"
        BY <3>2, SettledByOwner
      <4> QED
        BY <4>1 DEF TypeInv, WorkerOK, Frame, Terminal
    <3> QED
      BY <3>1, <3>2
  <2> QED
    BY <1>2, <1>3, <1>4, <2>1, <2>2, <2>3, <2>4, RowSteps
<1>5. CASE ~UNCHANGED outbox
  <2>1. \E x \in Executions : ApproveProposal(x) \/ MarkDispatched(x)
    <3>1. ASSUME NEW w \in Workers, Work(w) \/ Delivery(w) \/ RunRoute(w)
          PROVE  UNCHANGED outbox
      <4>1. CASE Delivery(w) \/ RunRoute(w)
        BY <4>1 DEF Delivery, RunRoute, Receive, Run
      <4>2. CASE Claim(w) \/ Attach(w) \/ Checkpoint(w) \/ Settle(w)
        BY <4>2 DEF Claim, ClaimExecution, Attach, UpdateOutput, Checkpoint,
                    UpdateCheckpoint, Settle, SettleExecution, storeVars
      <4>3. ASSUME Work(w), ~(Claim(w) \/ Attach(w) \/ Checkpoint(w) \/ Settle(w))
            PROVE  UNCHANGED outbox
        BY <4>3 DEF Work, ClaimRefused, Verify, VerifyFails, LoadCredentials,
                    LoadCredentialsFails, AttachFails, CreateDraft, CreateDraftFails, Send,
                    SendDraftGone, SendLost, SendRefused, SendMisread, Confirm,
                    Reauthorize, StoreFails, Report
      <4> QED
        BY <3>1, <4>1, <4>2, <4>3
    <3>2. ASSUME NEW d \in Dispatchers, Dispatch(d)
          PROVE  UNCHANGED outbox \/ \E x \in Executions : MarkDispatched(x)
      <4>1. dispatcher[d].current # Nobody => dispatcher[d].current \in Executions
        BY DEF TypeInv, TypeOK
      <4> QED
        BY <3>2, <4>1 DEF Dispatch, ListDispatchable, Enqueue, EnqueueFails, Mark
    <3>3. CASE Reviewer \/ Owner \/ Time \/ Crash
      BY <1>5, <3>3 DEF Reviewer, Owner, Time, Crash, Approve, Disconnect, Reconnect,
         VisibilityExpires, LeaseExpires, DispatcherCrashes, WorkerCrashes
    <3> QED
      BY <1>5, <3>1, <3>2, <3>3 DEF Next, vars
  <2> QED
    BY <1>3, <2>1
<1> QED
  BY <1>4, <1>5

(***************************************************************************)
(* A row that waits for dispatch is listed by the dispatcher's query: the  *)
(* approval inserts row and outbox entry together, and marking the entry   *)
(* moves the row on in the same transaction, whatever faults there are.    *)
(***************************************************************************)
THEOREM ApprovalsAreDispatchable == Spec => []NeverUndispatchable
<1>1. Init => NeverUndispatchable
  BY DEF Init, StoreInit, AbsentRow, NeverUndispatchable
<1> QED
  BY <1>1, TypeInit, TypeStep, DispatchableKept, PTL DEF Spec

-----------------------------------------------------------------------------
(* Completed rows                                                          *)

(***************************************************************************)
(* What a worker has to show for its conclusion: only a form has a stored  *)
(* output, and an action said to be completed, or looked for among the     *)
(* sent items, exists at the provider.                                     *)
(***************************************************************************)
Delivers(f, effects) ==
  f.stage \in Claimed =>
    /\ KindOf[f.execution] # "pdf_form" => f.output = NoOutput /\ f.stage # "attach"
    /\ f.stage = "confirm" \/ (f.stage = "settle" /\ f.result = "completed") =>
         [operation |-> f.operation, output |-> f.output] \in effects[f.execution]

FramesDeliver == \A w \in Workers : Delivers(worker[w], sent)

OnlyFormsStored == \A e \in Executions : KindOf[e] # "pdf_form" => exec[e].output = NoOutput

PlainDrafts ==
  \A e \in Executions :
    KindOf[e] # "pdf_form" => \A d \in drafts[e] : d.output = NoOutput

CompletedInv == FramesDeliver /\ OnlyFormsStored /\ CompletedMeansDelivered

(***************************************************************************)
(* The draft an Outlook worker is about to send is found by its id; this   *)
(* says that it carries the form the worker will settle with.              *)
(***************************************************************************)
SendsItsForm(w) ==
  LET e == worker[w].execution IN
  worker[w].stage = "send" /\ OutlookMail(e) =>
    \A d \in drafts[e] : d.operation = worker[w].operation => d.output = worker[w].output

(* No mail is unsent, no event removed.                                    *)
LEMMA SentGrows ==
  ASSUME TypeInv, [Next]_vars, NEW e \in Executions
  PROVE  sent[e] \subseteq sent'[e]
<1>1. sent \in [Executions -> SUBSET Effect]
  BY DEF TypeInv, TypeOK
<1>2. CASE UNCHANGED sent
  BY <1>2
<1>3. ASSUME NEW w, NEW effect, Leaves(w, effect)  PROVE sent[e] \subseteq sent'[e]
  BY <1>1, <1>3 DEF Leaves
<1>4. ASSUME NEW w, ProviderActs(w)  PROVE sent[e] \subseteq sent'[e]
  BY <1>3, <1>4 DEF ProviderActs, SendDraft
<1>5. ASSUME NEW w, Work(w)  PROVE sent[e] \subseteq sent'[e]
  <2>1. UNCHANGED sent \/ ProviderActs(w)
    <3>1. CASE Claim(w) \/ Attach(w) \/ Checkpoint(w) \/ Settle(w)
      BY <3>1, Zenon DEF Claim, Attach, Checkpoint, Settle
    <3>2. CASE Send(w) \/ SendLost(w) \/ SendMisread(w)
      BY <3>2 DEF Send, SendLost, SendMisread
    <3>3. CASE ~(Claim(w) \/ Attach(w) \/ Checkpoint(w) \/ Settle(w)
                  \/ Send(w) \/ SendLost(w) \/ SendMisread(w))
      BY <1>5, <3>3 DEF Work, ClaimRefused, Verify, VerifyFails, LoadCredentials,
         LoadCredentialsFails, AttachFails, CreateDraft, CreateDraftFails, SendDraftGone,
         SendRefused, Confirm, Reauthorize, StoreFails, Report
    <3> QED
      BY <3>1, <3>2, <3>3
  <2> QED
    BY <1>2, <1>4, <2>1
<1>6. ASSUME NEW w, Delivery(w) \/ RunRoute(w)  PROVE UNCHANGED sent
  BY <1>6 DEF Delivery, RunRoute, Receive, Run
<1>7. ASSUME NEW d, Dispatch(d)  PROVE UNCHANGED sent
  BY <1>7 DEF Dispatch, ListDispatchable, Enqueue, EnqueueFails, Mark
<1>8. CASE Reviewer \/ Owner \/ Time \/ Crash
  BY <1>8 DEF Reviewer, Owner, Time, Crash, Approve, Disconnect, Reconnect,
     VisibilityExpires, LeaseExpires, DispatcherCrashes, WorkerCrashes
<1> QED
  BY <1>2, <1>5, <1>6, <1>7, <1>8 DEF Next, vars

(* A frame that goes to another stage, or gives up.                        *)
LEMMA FrameStops ==
  ASSUME TypeInv, FramesDeliver, NEW w \in Workers, worker[w].stage \in Claimed,
         \/ \E st \in {"credentials", "draft", "checkpoint", "send", "reauth"} : GoTo(w, st)
         \/ Retry(w) \/ GiveUp(w) \/ Unauthorized(w)
         \/ \E o : Finish(w, "delivery_uncertain", o)
  PROVE  \E f : worker' = [worker EXCEPT ![w] = f] /\ Delivers(f, sent')
<1>1. worker[w] \in Frame /\ Delivers(worker[w], sent)
  BY DEF TypeInv, WorkerOK, FramesDeliver
<1>2. ASSUME NEW st \in {"credentials", "draft", "checkpoint", "send", "reauth"}, GoTo(w, st)
      PROVE  \E f : worker' = [worker EXCEPT ![w] = f] /\ Delivers(f, sent')
  <2> DEFINE f == [worker[w] EXCEPT !.stage = st]
  <2>1. worker' = [worker EXCEPT ![w] = f]
    BY <1>2 DEF GoTo
  <2>2. f.stage = st /\ f.execution = worker[w].execution /\ f.output = worker[w].output
    BY <1>1 DEF Frame
  <2> HIDE DEF f
  <2>3. Delivers(f, sent')
    BY <1>1, <2>2 DEF Delivers
  <2> QED
    BY <2>1, <2>3
<1>3. ASSUME NEW r, r # "completed", NEW o, Finish(w, r, o)
      PROVE  \E f : worker' = [worker EXCEPT ![w] = f] /\ Delivers(f, sent')
  <2> DEFINE f == [worker[w] EXCEPT !.stage = "settle", !.result = r, !.operation = o]
  <2>1. worker' = [worker EXCEPT ![w] = f]
    BY <1>3, Zenon DEF Finish
  <2>2. /\ f.stage = "settle" /\ f.execution = worker[w].execution
        /\ f.output = worker[w].output /\ f.result = r
    BY <1>1 DEF Frame
  <2> HIDE DEF f
  <2>3. Delivers(f, sent')
    BY <1>1, <1>3, <2>2 DEF Delivers
  <2> QED
    BY <2>1, <2>3
<1>4. CASE Retry(w)
  <2>1. PICK r \in {"failed", "queued"} : Finish(w, r, worker[w].operation)
    BY <1>4 DEF Retry
  <2> QED
    BY <1>3, <2>1
<1>5. CASE GiveUp(w)
  <2>1. Finish(w, "failed", worker[w].operation)
    BY <1>5 DEF GiveUp
  <2> QED
    BY <1>3, <2>1
<1> QED
  BY <1>2, <1>3, <1>4, <1>5 DEF Unauthorized

LEMMA WorkDelivers ==
  ASSUME TypeInv, FramesDeliver, OnlyFormsStored, [Next]_vars,
         NEW w \in Workers, Work(w), SendsItsForm(w)
  PROVE  \E f : worker' = [worker EXCEPT ![w] = f] /\ Delivers(f, sent')
<1> DEFINE e == worker[w].execution
           Goal == \E f : worker' = [worker EXCEPT ![w] = f] /\ Delivers(f, sent')
<1>1. worker[w] \in Frame /\ Delivers(worker[w], sent) /\ worker[w].stage # "idle"
  BY DEF TypeInv, WorkerOK, FramesDeliver, Work, Claim, ClaimRefused, Verify, VerifyFails,
         LoadCredentials, LoadCredentialsFails, Attach, AttachFails, CreateDraft,
         CreateDraftFails, Checkpoint, Send, SendDraftGone, SendLost, SendRefused,
         SendMisread, Confirm, Reauthorize, Settle, StoreFails, Report
<1>2. e \in Executions
  BY <1>1 DEF TypeInv, WorkerOK
<1>3. CASE Claim(w)
  <2> DEFINE f == [worker[w] EXCEPT !.stage = "verify",
                                    !.attempts = exec[e].attempts + 1,
                                    !.operation = exec[e].operation,
                                    !.output = exec[e].output]
  <2>1. worker' = [worker EXCEPT ![w] = f]
    BY <1>3, Zenon DEF Claim
  <2>2. f.stage = "verify" /\ f.execution = e /\ f.output = exec[e].output
    BY <1>1 DEF Frame
  <2> HIDE DEF f
  <2>3. Delivers(f, sent')
    BY <1>2, <2>2 DEF Delivers, OnlyFormsStored
  <2> QED
    BY <2>1, <2>3
<1>4. CASE ClaimRefused(w) \/ Settle(w)
  <2> DEFINE f == [worker[w] EXCEPT !.stage = "report"]
  <2>1. worker' = [worker EXCEPT ![w] = f]
    BY <1>4, Zenon DEF ClaimRefused, Settle, GoTo
  <2>2. f.stage = "report"
    BY <1>1 DEF Frame
  <2> HIDE DEF f
  <2>3. Delivers(f, sent')
    BY <2>2 DEF Delivers, Claimed
  <2> QED
    BY <2>1, <2>3
<1>5. CASE Report(w)
  <2>1. worker' = [worker EXCEPT ![w] = IdleFrame]
    BY <1>5 DEF Report
  <2>2. Delivers(IdleFrame, sent')
    BY IdleFrameType DEF Delivers, Claimed
  <2> QED
    BY <2>1, <2>2
<1>6. CASE LoadCredentials(w)
  <2> DEFINE st == IF KindOf[e] = "pdf_form" THEN "attach"
                   ELSE IF OutlookMail(e) /\ worker[w].operation = NoOperation
                        THEN "draft" ELSE "send"
             f == [worker[w] EXCEPT !.stage = st]
  <2>1. worker' = [worker EXCEPT ![w] = f]
    BY <1>6 DEF LoadCredentials, GoTo
  <2>2. st \in {"attach", "draft", "send"} /\ (KindOf[e] # "pdf_form" => st # "attach")
    OBVIOUS
  <2> HIDE DEF st
  <2>3. f.stage = st /\ f.execution = e /\ f.output = worker[w].output
    BY <1>1 DEF Frame
  <2>4. worker[w].stage \in Claimed
    BY <1>6 DEF LoadCredentials, Claimed
  <2> HIDE DEF f
  <2>5. Delivers(f, sent')
    BY <1>1, <2>2, <2>3, <2>4 DEF Delivers
  <2> QED
    BY <2>1, <2>5
<1>7. CASE Attach(w)
  <2> DEFINE o == IF worker[w].output = NoOutput THEN worker[w].attempts ELSE worker[w].output
             st == IF OutlookMail(e) /\ worker[w].operation = NoOperation
                   THEN "draft" ELSE "send"
             f == [worker[w] EXCEPT !.stage = st, !.output = o]
  <2>1. worker' = [worker EXCEPT ![w] = f]
    BY <1>7, Zenon DEF Attach
  <2>2. st \in {"draft", "send"} /\ KindOf[e] = "pdf_form"
    BY <1>1, <1>7 DEF Attach, Delivers, Claimed
  <2> HIDE DEF st, o
  <2>3. f.stage = st /\ f.execution = e
    BY <1>1 DEF Frame
  <2> HIDE DEF f
  <2>4. Delivers(f, sent')
    BY <2>2, <2>3 DEF Delivers
  <2> QED
    BY <2>1, <2>4
<1>8. CASE Checkpoint(w)
  <2> DEFINE f == [worker[w] EXCEPT !.stage = "send", !.operation = worker[w].attempts]
  <2>1. worker' = [worker EXCEPT ![w] = f]
    BY <1>8, Zenon DEF Checkpoint
  <2>2. f.stage = "send" /\ f.execution = e /\ f.output = worker[w].output
    BY <1>1 DEF Frame
  <2>3. worker[w].stage \in Claimed
    BY <1>8 DEF Checkpoint, Claimed
  <2> HIDE DEF f
  <2>4. Delivers(f, sent')
    BY <1>1, <2>2, <2>3 DEF Delivers
  <2> QED
    BY <2>1, <2>4
<1>9. CASE Send(w) /\ ~OutlookMail(e)
  <2> DEFINE o == IF IsMail(e) THEN worker[w].attempts ELSE KeyOperation
             f == [worker[w] EXCEPT !.stage = "settle", !.result = "completed",
                                    !.operation = o]
  <2>1. worker' = [worker EXCEPT ![w] = f]
    BY <1>2, <1>9, Zenon DEF Send, Finish
  <2>2. /\ f.stage = "settle" /\ f.execution = e
        /\ f.output = worker[w].output /\ f.operation = o
    BY <1>1 DEF Frame
  <2>3. KindOf[e] # "pdf_form" => worker[w].output = NoOutput
    BY <1>1, <1>9 DEF Send, Delivers, Claimed
  <2>4. [operation |-> o, output |-> worker[w].output] \in sent'[e]
    <3>1. sent \in [Executions -> SUBSET Effect]
      BY DEF TypeInv, TypeOK
    <3>2. ~IsMail(e) => worker[w].output = NoOutput
      BY <2>3 DEF IsMail
    <3>3. Leaves(w, IF IsMail(e) THEN NewMail(w) ELSE KeyedEvent(w))
      BY <1>2, <1>9 DEF Send, ProviderActs
    <3>4. (IF IsMail(e) THEN NewMail(w) ELSE KeyedEvent(w)) \in sent'[e]
      BY <1>2, <3>1, <3>3 DEF Leaves
    <3> QED
      BY <3>2, <3>4 DEF NewMail, KeyedEvent
  <2> HIDE DEF f, o
  <2>5. Delivers(f, sent')
    BY <2>2, <2>3, <2>4 DEF Delivers
  <2> QED
    BY <2>1, <2>5
<1>10. CASE Send(w) /\ OutlookMail(e)
  <2> DEFINE f == [worker[w] EXCEPT !.stage = "confirm"]
  <2>1. worker' = [worker EXCEPT ![w] = f]
    BY <1>10 DEF Send, GoTo
  <2>2. /\ f.stage = "confirm" /\ f.execution = e
        /\ f.operation = worker[w].operation /\ f.output = worker[w].output
    BY <1>1 DEF Frame
  <2>3. worker[w].stage = "send" /\ SendDraft(w)
    BY <1>10 DEF Send, ProviderActs
  <2>4. PICK d \in drafts[e] : d.operation = worker[w].operation /\ Leaves(w, d)
    BY <2>3 DEF SendDraft
  <2>5. d = [operation |-> worker[w].operation, output |-> worker[w].output]
    <3>1. d \in Effect
      BY <1>2 DEF TypeInv, TypeOK
    <3>2. d.output = worker[w].output
      BY <1>10, <2>3, <2>4 DEF SendsItsForm
    <3> QED
      BY <2>4, <3>1, <3>2 DEF Effect
  <2>6. d \in sent'[e]
    BY <1>2, <2>4 DEF Leaves, TypeInv, TypeOK
  <2> HIDE DEF f
  <2>7. Delivers(f, sent')
    BY <1>1, <2>2, <2>3, <2>5, <2>6 DEF Delivers, Claimed
  <2> QED
    BY <2>1, <2>7
<1>11. ASSUME Confirm(w), Finish(w, "completed", worker[w].operation)
       PROVE  Goal
  <2> DEFINE f == [worker[w] EXCEPT !.stage = "settle", !.result = "completed",
                                    !.operation = worker[w].operation]
  <2>1. worker' = [worker EXCEPT ![w] = f]
    BY <1>11, Zenon DEF Finish
  <2>2. /\ f.stage = "settle" /\ f.execution = e
        /\ f.operation = worker[w].operation /\ f.output = worker[w].output
    BY <1>1 DEF Frame
  <2>3. worker[w].stage = "confirm" /\ sent'[e] = sent[e]
    BY <1>11 DEF Confirm
  <2> HIDE DEF f
  <2>4. [operation |-> worker[w].operation, output |-> worker[w].output] \in sent[e]
    BY <1>1, <2>3 DEF Delivers, Claimed
  <2>5. KindOf[e] # "pdf_form" => worker[w].output = NoOutput
    BY <1>1, <2>3 DEF Delivers, Claimed
  <2>6. Delivers(f, sent')
    BY <2>2, <2>3, <2>4, <2>5 DEF Delivers
  <2> QED
    BY <2>1, <2>6
<1>12. ASSUME \/ Verify(w) \/ VerifyFails(w) \/ LoadCredentialsFails(w) \/ AttachFails(w)
              \/ CreateDraft(w) \/ CreateDraftFails(w) \/ SendDraftGone(w) \/ SendLost(w)
              \/ SendRefused(w) \/ SendMisread(w) \/ Reauthorize(w) \/ StoreFails(w)
              \/ Confirm(w) /\ Finish(w, "delivery_uncertain", worker[w].operation)
       PROVE  Goal
  <2>1. worker[w].stage \in Claimed
    BY <1>12 DEF Verify, VerifyFails, LoadCredentialsFails, AttachFails, CreateDraft,
                 CreateDraftFails, SendDraftGone, SendLost, SendRefused, SendMisread,
                 Reauthorize, StoreFails, Confirm, Claimed
  <2>2. \/ \E st \in {"credentials", "draft", "checkpoint", "send", "reauth"} : GoTo(w, st)
        \/ Retry(w) \/ GiveUp(w) \/ Unauthorized(w)
        \/ \E o : Finish(w, "delivery_uncertain", o)
    BY <1>12 DEF Verify, VerifyFails, LoadCredentialsFails, AttachFails, CreateDraft,
                 CreateDraftFails, SendDraftGone, SendLost, SendRefused, SendMisread,
                 Reauthorize, StoreFails
  <2> QED
    BY <2>1, <2>2, FrameStops
<1> QED
  BY <1>3, <1>4, <1>5, <1>6, <1>7, <1>8, <1>9, <1>10, <1>11, <1>12 DEF Work, Confirm

LEMMA FramesKeepDelivering ==
  ASSUME TypeInv, FramesDeliver, OnlyFormsStored, [Next]_vars,
         \A w \in Workers : SendsItsForm(w)
  PROVE  FramesDeliver'
<1> SUFFICES ASSUME NEW v \in Workers
             PROVE  Delivers(worker'[v], sent')
  BY DEF FramesDeliver
<1>1. /\ worker \in [Workers -> Frame]
      /\ Delivers(worker[v], sent)
      /\ worker[v].stage \in Claimed => worker[v].execution \in Executions
  BY DEF TypeInv, WorkerOK, FramesDeliver, Claimed
<1>2. CASE worker'[v] = worker[v]
  <2>1. worker[v].stage \in Claimed => sent[worker[v].execution] \subseteq sent'[worker[v].execution]
    BY <1>1, SentGrows
  <2> QED
    BY <1>1, <1>2, <2>1 DEF Delivers
<1>3. ASSUME NEW w \in Workers, NEW f, worker' = [worker EXCEPT ![w] = f], Delivers(f, sent')
      PROVE  Delivers(worker'[v], sent')
  <2>1. worker'[v] = f \/ worker'[v] = worker[v]
    BY <1>1, <1>3
  <2> QED
    BY <1>2, <1>3, <2>1
<1>4. ASSUME NEW w \in Workers, NEW e, NEW m, NEW receipt, Start(w, e, m, receipt)
      PROVE  Delivers(worker'[v], sent')
  <2> DEFINE f == [IdleFrame EXCEPT !.stage = "claim", !.execution = e,
                                    !.message = m, !.receipt = receipt]
  <2>1. worker' = [worker EXCEPT ![w] = f]
    BY <1>4 DEF Start
  <2>2. f.stage = "claim"
    BY IdleFrameType DEF Frame
  <2> HIDE DEF f
  <2>3. Delivers(f, sent')
    BY <2>2 DEF Delivers, Claimed
  <2> QED
    BY <1>3, <2>1, <2>3
<1>5. ASSUME NEW w \in Workers, Work(w)  PROVE Delivers(worker'[v], sent')
  BY <1>3, <1>5, WorkDelivers
<1>6. ASSUME NEW w \in Workers, Delivery(w) \/ RunRoute(w)
      PROVE  Delivers(worker'[v], sent')
  BY <1>4, <1>6 DEF Delivery, RunRoute, Receive, Run
<1>7. ASSUME NEW w \in Workers, WorkerCrashes(w)
      PROVE  Delivers(worker'[v], sent')
  <2>1. Delivers(IdleFrame, sent')
    BY IdleFrameType DEF Delivers, Claimed
  <2> QED
    BY <1>3, <1>7, <2>1 DEF WorkerCrashes
<1>8. ASSUME NEW d \in Dispatchers, Dispatch(d)  PROVE UNCHANGED worker
  BY <1>8 DEF Dispatch, ListDispatchable, Enqueue, EnqueueFails, Mark
<1>9. CASE Reviewer \/ Owner \/ Time \/ Crash
  <2>1. UNCHANGED worker \/ \E w \in Workers : WorkerCrashes(w)
    BY <1>9 DEF Reviewer, Owner, Time, Crash, Approve, Disconnect, Reconnect,
       VisibilityExpires, LeaseExpires, DispatcherCrashes
  <2> QED
    BY <1>2, <1>7, <2>1
<1>10. CASE UNCHANGED vars
  BY <1>2, <1>10 DEF vars
<1> QED
  BY <1>2, <1>5, <1>6, <1>8, <1>9, <1>10 DEF Next

(* What Settle writes, when it changes the row.                            *)
LEMMA SettleWrites ==
  ASSUME TypeInv, NEW w \in Workers, Settle(w), NEW e \in Executions,
         exec'[e] # exec[e]
  PROVE  /\ worker[w].execution = e
         /\ worker[w].stage = "settle"
         /\ exec'[e].status = worker[w].result
         /\ worker[w].result = "completed" => exec'[e].operation = worker[w].operation
         /\ exec'[e].output = IF worker[w].result = "completed" /\ KindOf[e] = "pdf_form"
                              THEN worker[w].output ELSE exec[e].output
<1> DEFINE x == worker[w].execution
           op == IF worker[w].result \in {"completed", "delivery_uncertain"}
                 THEN worker[w].operation ELSE exec[x].operation
           out == IF worker[w].result = "completed" /\ KindOf[x] = "pdf_form"
                  THEN worker[w].output ELSE exec[x].output
           r == [exec[x] EXCEPT !.status = worker[w].result, !.lease = "none",
                                !.operation = op, !.output = out]
<1>1. exec \in [Executions -> Row]
  BY DEF TypeInv, TypeOK, StoreTypeOK
<1>2. worker[w].stage = "settle" /\ x \in Executions
  BY DEF Settle, TypeInv, WorkerOK
<1>3. exec' = [exec EXCEPT ![x] = r] \/ UNCHANGED exec
  BY Zenon DEF Settle, SettleExecution, storeVars
<1>4. /\ r.status = worker[w].result
      /\ r.operation = op
      /\ r.output = out
  <2>1. exec[x] \in Row
    BY <1>1, <1>2
  <2> QED
    BY <2>1 DEF Row
<1> HIDE DEF r
<1>5. x = e /\ exec'[e] = r
  BY <1>1, <1>2, <1>3
<1> QED
  BY <1>2, <1>4, <1>5

LEMMA OutputsKept ==
  ASSUME TypeInv, FramesDeliver, OnlyFormsStored, [Next]_vars
  PROVE  OnlyFormsStored'
<1> SUFFICES ASSUME NEW e \in Executions, KindOf[e] # "pdf_form"
             PROVE  exec'[e].output = NoOutput
  BY DEF OnlyFormsStored
<1>1. exec \in [Executions -> Row] /\ exec[e].output = NoOutput
  BY DEF TypeInv, TypeOK, StoreTypeOK, OnlyFormsStored
<1>2. ASSUME NEW x \in Executions, ApproveProposal(x) \/ MarkDispatched(x) \/ LeaseExpires(x)
      PROVE  exec'[e].output = NoOutput
  BY <1>1, <1>2 DEF ApproveProposal, MarkDispatched, LeaseExpires, Row
<1>3. ASSUME NEW w \in Workers, Claim(w)  PROVE exec'[e].output = NoOutput
  BY <1>1, <1>3 DEF Claim, ClaimExecution, Row
<1>4. ASSUME NEW w \in Workers, Attach(w)  PROVE exec'[e].output = NoOutput
  <2>1. worker[w].execution # e
    BY <1>4 DEF Attach, FramesDeliver, Delivers, Claimed
  <2> QED
    BY <1>1, <1>4, <2>1 DEF Attach, UpdateOutput, storeVars
<1>5. ASSUME NEW w \in Workers, Checkpoint(w)  PROVE exec'[e].output = NoOutput
  BY <1>1, <1>5 DEF Checkpoint, UpdateCheckpoint, storeVars, Row
<1>6. ASSUME NEW w \in Workers, Settle(w)  PROVE exec'[e].output = NoOutput
  BY <1>1, <1>6, SettleWrites
<1> QED
  BY <1>1, <1>2, <1>3, <1>4, <1>5, <1>6, RowSteps

LEMMA CompletedKept ==
  ASSUME TypeInv, CompletedInv, [Next]_vars
  PROVE  CompletedMeansDelivered'
<1> SUFFICES ASSUME NEW e \in Executions, exec'[e].status = "completed"
             PROVE  [operation |-> exec'[e].operation, output |-> exec'[e].output] \in sent'[e]
  BY DEF CompletedMeansDelivered
<1>1. exec \in [Executions -> Row] /\ sent[e] \subseteq sent'[e]
  BY SentGrows DEF TypeInv, TypeOK, StoreTypeOK
<1>2. CASE exec[e].status = "completed"
  <2>1. exec'[e] = exec[e]
    BY <1>2, SettledRowKept DEF Terminal
  <2> QED
    BY <1>1, <1>2, <2>1 DEF CompletedInv, CompletedMeansDelivered
<1>3. CASE exec[e].status # "completed"
  <2>1. ASSUME NEW x \in Executions, ApproveProposal(x) \/ MarkDispatched(x) \/ LeaseExpires(x)
        PROVE  FALSE
    BY <1>1, <1>3, <2>1 DEF ApproveProposal, MarkDispatched, LeaseExpires, Row
  <2>2. ASSUME NEW w \in Workers, Claim(w) \/ Attach(w) \/ Checkpoint(w)
        PROVE  FALSE
    <3>1. CASE Claim(w)
      BY <1>1, <1>3, <3>1 DEF Claim, ClaimExecution, Row
    <3>2. CASE Attach(w)
      BY <1>1, <1>3, <3>2 DEF Attach, UpdateOutput, storeVars, Row
    <3>3. CASE Checkpoint(w)
      BY <1>1, <1>3, <3>3 DEF Checkpoint, UpdateCheckpoint, storeVars, Row
    <3> QED
      BY <2>2, <3>1, <3>2, <3>3
  <2>3. PICK w \in Workers : Settle(w)
    BY <1>3, <2>1, <2>2, RowSteps
  <2>4. /\ worker[w].execution = e /\ worker[w].stage = "settle"
        /\ worker[w].result = "completed"
        /\ exec'[e].operation = worker[w].operation
        /\ exec'[e].output = IF KindOf[e] = "pdf_form" THEN worker[w].output ELSE exec[e].output
    BY <1>3, <2>3, SettleWrites
  <2>5. /\ [operation |-> worker[w].operation, output |-> worker[w].output] \in sent[e]
        /\ KindOf[e] # "pdf_form" => worker[w].output = NoOutput /\ exec[e].output = NoOutput
    BY <2>4 DEF CompletedInv, FramesDeliver, Delivers, Claimed, OnlyFormsStored
  <2>6. exec'[e].output = worker[w].output
    BY <2>4, <2>5
  <2> QED
    BY <1>1, <2>4, <2>5, <2>6
<1> QED
  BY <1>2, <1>3

(* The steps that change the drafts: one is created, or some disappear.    *)
LEMMA DraftSteps ==
  ASSUME TypeInv, [Next]_vars
  PROVE  \/ \A e \in Executions : drafts'[e] \subseteq drafts[e]
         \/ \E w \in Workers : /\ worker[w].stage = "draft"
                                /\ CreatesDraft(w)
                                /\ UNCHANGED exec
<1> DEFINE Fewer == \A e \in Executions : drafts'[e] \subseteq drafts[e]
<1>1. drafts \in [Executions -> SUBSET Effect]
  BY DEF TypeInv, TypeOK
<1>2. UNCHANGED drafts => Fewer
  OBVIOUS
<1>3. ASSUME NEW w, ProviderActs(w) PROVE Fewer
  <2>1. UNCHANGED drafts
        \/ \E d : drafts' = [drafts EXCEPT ![worker[w].execution]
                                            = drafts[worker[w].execution] \ {d}]
    BY <1>3 DEF ProviderActs, SendDraft
  <2> QED
    BY <1>1, <2>1
<1>4. ASSUME NEW w \in Workers, Work(w)
      PROVE  \/ Fewer
             \/ worker[w].stage = "draft" /\ CreatesDraft(w) /\ UNCHANGED exec
  <2>1. CASE Claim(w) \/ Attach(w) \/ Checkpoint(w) \/ Settle(w)
    BY <1>2, <2>1, Zenon DEF Claim, Attach, Checkpoint, Settle
  <2>2. CASE Send(w) \/ SendLost(w) \/ SendMisread(w)
    BY <1>2, <1>3, <2>2 DEF Send, SendLost, SendMisread
  <2>3. CASE CreateDraft(w) \/ CreateDraftFails(w)
    BY <1>2, <2>3 DEF CreateDraft, CreateDraftFails
  <2>4. CASE ~(Claim(w) \/ Attach(w) \/ Checkpoint(w) \/ Settle(w)
               \/ Send(w) \/ SendLost(w) \/ SendMisread(w)
               \/ CreateDraft(w) \/ CreateDraftFails(w))
    BY <1>4, <1>2, <2>4 DEF Work, ClaimRefused, Verify, VerifyFails, LoadCredentials,
       LoadCredentialsFails, AttachFails, SendDraftGone, SendRefused, Confirm,
       Reauthorize, StoreFails, Report
  <2> QED
    BY <2>1, <2>2, <2>3, <2>4
<1>5. ASSUME NEW w, Delivery(w) \/ RunRoute(w)  PROVE UNCHANGED drafts
  BY <1>5 DEF Delivery, RunRoute, Receive, Run
<1>6. ASSUME NEW d, Dispatch(d)  PROVE UNCHANGED drafts
  BY <1>6 DEF Dispatch, ListDispatchable, Enqueue, EnqueueFails, Mark
<1>7. CASE Reviewer \/ Owner \/ Time \/ Crash
  BY <1>2, <1>7 DEF Reviewer, Owner, Time, Crash, Approve, Disconnect, Reconnect,
     VisibilityExpires, LeaseExpires, DispatcherCrashes, WorkerCrashes
<1> QED
  BY <1>2, <1>4, <1>5, <1>6, <1>7 DEF Next, vars

(* Only a form's draft carries a stored output.                            *)
LEMMA PlainDraftsKept ==
  ASSUME TypeInv, FramesDeliver, PlainDrafts, [Next]_vars
  PROVE  PlainDrafts'
<1> SUFFICES ASSUME NEW e \in Executions, KindOf[e] # "pdf_form", NEW d \in drafts'[e]
             PROVE  d.output = NoOutput
  BY DEF PlainDrafts
<1>1. CASE drafts'[e] \subseteq drafts[e]
  BY <1>1 DEF PlainDrafts
<1>2. ASSUME NEW w \in Workers, worker[w].stage = "draft", CreatesDraft(w)
      PROVE  d.output = NoOutput
  <2>1. drafts \in [Executions -> SUBSET Effect]
    BY DEF TypeInv, TypeOK
  <2>2. CASE worker[w].execution # e
    BY <1>1, <1>2, <2>1, <2>2 DEF CreatesDraft
  <2>3. CASE worker[w].execution = e
    <3>1. worker[w].output = NoOutput
      BY <1>2, <2>3 DEF FramesDeliver, Delivers, Claimed
    <3>2. d \in drafts[e] \/ d = NewDraft(w)
      BY <1>2, <2>1, <2>3 DEF CreatesDraft
    <3> QED
      BY <3>1, <3>2 DEF PlainDrafts, NewDraft
  <2> QED
    BY <2>2, <2>3
<1> QED
  BY <1>1, <1>2, DraftSteps

LEMMA CompletedInit ==
  ASSUME Init
  PROVE  CompletedInv /\ PlainDrafts
<1>1. \A w \in Workers : worker[w] = IdleFrame
  BY DEF Init
<1>2. \A e \in Executions : /\ exec[e].output = NoOutput
                             /\ exec[e].status = "absent"
                             /\ drafts[e] = {}
  BY Zenon DEF Init, StoreInit, AbsentRow
<1>3. FramesDeliver
  BY <1>1, IdleFrameType DEF FramesDeliver, Delivers, Claimed
<1> QED
  BY <1>2, <1>3 DEF CompletedInv, OnlyFormsStored, PlainDrafts, CompletedMeansDelivered

LEMMA CompletedStep ==
  ASSUME TypeInv, CompletedInv, [Next]_vars, \A w \in Workers : SendsItsForm(w)
  PROVE  CompletedInv'
  BY FramesKeepDelivering, OutputsKept, CompletedKept DEF CompletedInv

(***************************************************************************)
(* Where no filled form goes through Outlook, a completed row names the    *)
(* mail or the event that exists, with the form it carried, under every    *)
(* fault and even if workers outlive their leases: the operation and the   *)
(* form a worker settles with are the ones it sent, and an attempt that    *)
(* has been superseded settles nothing. An Outlook form needs more         *)
(* (CompletedFormWasDelivered, in DeliveryProofs): the draft that is sent  *)
(* is found by its id alone, and a worker that lost its lease may have     *)
(* stored another form on the row meanwhile.                               *)
(***************************************************************************)
THEOREM CompletedWasDelivered ==
  ASSUME \A e \in Executions : KindOf[e] = "pdf_form" => ~OutlookMail(e)
  PROVE  Spec => []CompletedMeansDelivered
<1>1. TypeInv /\ CompletedInv /\ PlainDrafts /\ [Next]_vars => CompletedInv' /\ PlainDrafts'
  <2> SUFFICES ASSUME TypeInv, CompletedInv, PlainDrafts, [Next]_vars
               PROVE  CompletedInv' /\ PlainDrafts'
    OBVIOUS
  <2>1. \A w \in Workers : SendsItsForm(w)
    BY DEF SendsItsForm, CompletedInv, FramesDeliver, Delivers, PlainDrafts, Claimed,
           TypeInv, WorkerOK
  <2> QED
    BY <2>1, CompletedStep, PlainDraftsKept DEF CompletedInv
<1>2. CompletedInv => CompletedMeansDelivered
  BY DEF CompletedInv
<1> QED
  BY <1>1, <1>2, CompletedInit, TypeInit, TypeStep, PTL DEF Spec

=============================================================================
