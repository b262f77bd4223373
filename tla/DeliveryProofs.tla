--------------------------- MODULE DeliveryProofs ----------------------------
(***************************************************************************)
(* At most one delivery, and the refinement of ApprovedAction, for every   *)
(* number of workers, dispatchers, executions and attempts, and under      *)
(* every fault but two restrictions: no worker outlives its lease or its   *)
(* visibility ("slow"), and no execution is a mail sent through Gmail,     *)
(* whose send has no deduplication. Both restrictions are needed: the runs *)
(* MCExecutionResend and MCExecutionUnsettled show what happens to a Gmail *)
(* mail. The last part, on completed forms, needs the first one only.      *)
(***************************************************************************)
EXTENDS ExecutionProofs, FiniteSetTheorems

(***************************************************************************)
(* SingleDelivery is not inductive. What makes it so: an attempt has at    *)
(* most one live worker, which holds the row (AttemptHeld); an Outlook     *)
(* worker's draft id is the row's checkpoint, and it creates a draft only  *)
(* when the row has none (DraftFrame); a row's drafts have different ids,  *)
(* none of them the checkpoint's once the checkpointed draft was sent      *)
(* (DraftRow); a calendar event is the keyed one (EventRow).               *)
(***************************************************************************)
AttemptHeld ==
  /\ NoStaleWorker
  /\ \A v, w \in Workers :
       /\ worker[v].stage \in Claimed
       /\ worker[w].stage \in Claimed
       /\ worker[v].execution = worker[w].execution
       => v = w

DraftFrame(w) ==
  LET e == worker[w].execution IN
  worker[w].stage \in Claimed /\ ~GmailMail(e) =>
    /\ worker[w].attempts > 0
    /\ OutlookMail(e) => worker[w].operation = exec[e].operation
    /\ worker[w].stage \in {"draft", "checkpoint"} =>
         OutlookMail(e) /\ worker[w].operation = NoOperation
    /\ worker[w].stage \in {"verify", "credentials", "attach", "draft"} =>
         \A d \in drafts[e] : d.operation # worker[w].attempts
    /\ worker[w].stage = "confirm" => OutlookMail(e) /\ sent[e] # {}
    /\ worker[w].stage = "settle" /\ worker[w].result = "completed" => sent[e] # {}

DraftRow(e) ==
  OutlookMail(e) =>
    /\ \A d \in drafts[e] : 0 < d.operation /\ d.operation <= exec[e].attempts
    /\ \A c, d \in drafts[e] : c.operation = d.operation => c = d
    /\ exec[e].operation = NoOperation => sent[e] = {}
    /\ sent[e] # {} => \A d \in drafts[e] : d.operation # exec[e].operation
    /\ \A s, t \in sent[e] : s = t

Event == [operation |-> KeyOperation, output |-> NoOutput]

EventRow(e) ==
  ~IsMail(e) => drafts[e] = {} /\ sent[e] \subseteq {Event}

DeliveryInv ==
  /\ AttemptHeld
  /\ \A w \in Workers : DraftFrame(w)
  /\ \A e \in Executions : DraftRow(e) /\ EventRow(e)

-----------------------------------------------------------------------------

LEMMA MailKinds ==
  \A e \in Executions : ~GmailMail(e) => OutlookMail(e) \/ ~IsMail(e)
  BY ExecutionsAssumption DEF GmailMail, OutlookMail, IsMail, Provider

(* A worker that stays within its attempt keeps holding it.                *)
LEMMA HolderGoesOn ==
  ASSUME AttemptHeld, NEW w \in Workers,
         worker[w].stage \in Claimed,
         worker'[w].execution = worker[w].execution,
         worker'[w].attempts = worker[w].attempts,
         \A v \in Workers \ {w} : worker'[v] = worker[v],
         \A e \in Executions : /\ exec'[e].status = exec[e].status
                               /\ exec'[e].lease = exec[e].lease
                               /\ exec'[e].attempts = exec[e].attempts,
         \A v \in Workers : worker[v].stage \in Claimed => worker[v].execution \in Executions
  PROVE  AttemptHeld'
  BY DEF AttemptHeld, NoStaleWorker

(* A step of a worker outside its attempt changes no holder.               *)
LEMMA OutsiderMoves ==
  ASSUME AttemptHeld, NEW w \in Workers,
         worker'[w].stage \notin Claimed,
         \A v \in Workers \ {w} : worker'[v] = worker[v],
         UNCHANGED exec
  PROVE  AttemptHeld'
  BY DEF AttemptHeld, NoStaleWorker

(* Reviewer, owner, dispatchers and time leave held executions alone.      *)
LEMMA EnvironmentKeeps ==
  ASSUME TypeInv, AttemptHeld, "slow" \notin Faults,
         \/ Reviewer
         \/ Owner
         \/ Time
         \/ \E d \in Dispatchers : DispatcherCrashes(d) \/ Dispatch(d)
  PROVE  /\ UNCHANGED <<worker, drafts, sent>>
         /\ \A e \in Executions : /\ exec'[e].operation = exec[e].operation
                                  /\ exec'[e].attempts = exec[e].attempts
         /\ \A w \in Workers : worker[w].stage \in Claimed =>
              exec'[worker[w].execution] = exec[worker[w].execution]
<1> DEFINE Kept == /\ UNCHANGED <<worker, drafts, sent>>
                   /\ \A e \in Executions : /\ exec'[e].operation = exec[e].operation
                                            /\ exec'[e].attempts = exec[e].attempts
                   /\ \A w \in Workers : worker[w].stage \in Claimed =>
                        exec'[worker[w].execution] = exec[worker[w].execution]
<1>1. exec \in [Executions -> Row]
  BY DEF TypeInv, TypeOK, StoreTypeOK
<1>2. \A w \in Workers : worker[w].stage \in Claimed =>
        /\ worker[w].execution \in Executions
        /\ exec[worker[w].execution].status = "executing"
        /\ Owns(w, worker[w].execution)
  BY DEF TypeInv, WorkerOK, Claimed, AttemptHeld, NoStaleWorker, Owns
<1>3. ASSUME NEW e \in Executions, Approve(e) PROVE Kept
  BY <1>1, <1>2, <1>3 DEF Approve, ApproveProposal, Row
<1>4. ASSUME NEW c \in Connections, Disconnect(c) \/ Reconnect(c) PROVE Kept
  BY <1>4 DEF Disconnect, Reconnect
<1>5. ASSUME NEW m \in Messages, VisibilityExpires(m) PROVE Kept
  BY <1>5 DEF VisibilityExpires
<1>6. ASSUME NEW e \in Executions, LeaseExpires(e) PROVE Kept
  BY <1>1, <1>2, <1>6 DEF LeaseExpires, Row
<1>7. ASSUME NEW d \in Dispatchers, DispatcherCrashes(d) PROVE Kept
  BY <1>7 DEF DispatcherCrashes
<1>8. ASSUME NEW d \in Dispatchers, Dispatch(d) PROVE Kept
  <2>1. CASE Mark(d)
    BY <1>1, <1>2, <2>1 DEF Mark, MarkDispatched, Row
  <2>2. CASE ListDispatchable(d) \/ \E e \in Executions : Enqueue(d, e) \/ EnqueueFails(d, e)
    BY <2>2 DEF ListDispatchable, Enqueue, EnqueueFails
  <2>3. QED
    BY <1>8, <2>1, <2>2 DEF Dispatch
<1>9. QED
  BY <1>3, <1>4, <1>5, <1>6, <1>7, <1>8 DEF Reviewer, Owner, Time

(***************************************************************************)
(* What a step of worker w leaves alone: it touches only the execution it  *)
(* holds, and nobody else holds that one.                                  *)
(***************************************************************************)
LEMMA OthersKept ==
  ASSUME DeliveryInv, TypeInv, NEW w \in Workers, NEW e \in Executions,
         \A v \in Workers \ {w} :
           /\ worker'[v] = worker[v]
           /\ worker[v].stage \in Claimed => worker[v].execution # e,
         \A x \in Executions \ {e} :
           exec'[x] = exec[x] /\ drafts'[x] = drafts[x] /\ sent'[x] = sent[x],
         DraftFrame(w)', DraftRow(e)', EventRow(e)', AttemptHeld'
  PROVE  DeliveryInv'
<1>1. ASSUME NEW v \in Workers \ {w} PROVE DraftFrame(v)'
  <2>1. worker[v].stage \in Claimed => worker[v].execution \in Executions \ {e}
    BY DEF TypeInv, WorkerOK, Claimed
  <2>2. DraftFrame(v)
    BY DEF DeliveryInv
  <2>3. QED
    BY <2>1, <2>2 DEF DraftFrame, GmailMail, OutlookMail, IsMail, Provider
<1>2. ASSUME NEW x \in Executions \ {e} PROVE DraftRow(x)' /\ EventRow(x)'
  <2>1. DraftRow(x) /\ EventRow(x)
    BY DEF DeliveryInv
  <2>2. QED
    BY <2>1 DEF DraftRow, EventRow, OutlookMail, IsMail, Provider
<1>3. QED
  BY <1>1, <1>2 DEF DeliveryInv

(* Every step of a worker keeps the invariant.                             *)
LEMMA WorkerKeeps ==
  ASSUME TypeInv, DeliveryInv, "slow" \notin Faults, NEW w \in Workers,
         Delivery(w) \/ RunRoute(w) \/ Work(w) \/ WorkerCrashes(w)
  PROVE  DeliveryInv'
<1>e. PICK e : worker[w].execution = e
  OBVIOUS
<1>a. /\ exec \in [Executions -> Row]
      /\ worker \in [Workers -> Frame]
      /\ drafts \in [Executions -> SUBSET Effect]
      /\ sent \in [Executions -> SUBSET Effect]
      /\ \A v \in Workers : worker[v].stage \in Claimed => worker[v].execution \in Executions
      /\ worker[w].stage # "idle" => e \in Executions
  BY <1>e DEF TypeInv, TypeOK, StoreTypeOK, WorkerOK, Claimed
<1>b. worker[w] \in Frame
  BY <1>e, <1>a
<1>c. AttemptHeld /\ DraftFrame(w)
      /\ (e \in Executions => DraftRow(e) /\ EventRow(e))
  BY DEF DeliveryInv
<1>d. worker[w].stage \in Claimed =>
        /\ e \in Executions
        /\ exec[e].status = "executing"
        /\ exec[e].attempts = worker[w].attempts
        /\ exec[e] \in Row
        /\ \A v \in Workers \ {w} : worker[v].stage \in Claimed => worker[v].execution # e
  BY <1>e, <1>a, <1>c DEF AttemptHeld, NoStaleWorker
<1>1. ASSUME worker'[w].stage \notin Claimed,
             \A v \in Workers \ {w} : worker'[v] = worker[v],
             UNCHANGED <<exec, drafts, sent>>
      PROVE  DeliveryInv'
  <2>1. AttemptHeld'
    BY <1>e, <1>1, <1>c, OutsiderMoves
  <2>2. \A v \in Workers : DraftFrame(v)'
    BY <1>e, <1>1 DEF DeliveryInv, DraftFrame
  <2>3. \A x \in Executions : DraftRow(x)' /\ EventRow(x)'
    BY <1>e, <1>1 DEF DeliveryInv, DraftRow, EventRow
  <2>4. QED
    BY <1>e, <2>1, <2>2, <2>3 DEF DeliveryInv
<1>2. ASSUME worker[w].stage \in Claimed,
             worker'[w].execution = e,
             worker'[w].attempts = worker[w].attempts,
             \A v \in Workers \ {w} : worker'[v] = worker[v],
             \A x \in Executions : /\ exec'[x].status = exec[x].status
                                   /\ exec'[x].lease = exec[x].lease
                                   /\ exec'[x].attempts = exec[x].attempts,
             \A x \in Executions \ {e} :
               exec'[x] = exec[x] /\ drafts'[x] = drafts[x] /\ sent'[x] = sent[x],
             DraftFrame(w)', DraftRow(e)', EventRow(e)'
      PROVE  DeliveryInv'
  <2>1. AttemptHeld'
    BY <1>e, <1>2, <1>a, <1>c, HolderGoesOn
  <2>2. QED
    BY <1>e, <1>2, <1>d, <2>1, OthersKept
<1>3. ASSUME worker[w].stage \in Claimed, NEW f \in Frame,
             worker' = [worker EXCEPT ![w] = f],
             f.execution = e, f.attempts = worker[w].attempts,
             OutlookMail(e) => f.operation = worker[w].operation,
             f.stage \in {"draft", "checkpoint"} =>
               OutlookMail(e) /\ worker[w].operation = NoOperation,
             f.stage \in {"verify", "credentials", "attach", "draft"} =>
               worker[w].stage \in {"verify", "credentials", "attach", "draft"},
             f.stage # "confirm",
             f.stage = "settle" /\ f.result = "completed" => worker[w].stage = "confirm",
             UNCHANGED <<exec, drafts, sent>>
      PROVE  DeliveryInv'
  <2>1. worker'[w] = f /\ \A v \in Workers \ {w} : worker'[v] = worker[v]
    BY <1>e, <1>3, <1>a
  <2>2. DraftFrame(w)'
    BY <1>e, <1>3, <1>c, <2>1 DEF DraftFrame, GmailMail, OutlookMail, IsMail, Provider
  <2>3. DraftRow(e)' /\ EventRow(e)'
    BY <1>e, <1>3, <1>c, <1>d DEF DraftRow, EventRow
  <2>4. QED
    BY <1>e, <1>2, <1>3, <2>1, <2>2, <2>3
<1>4. ASSUME worker[w].stage \in Claimed, Retry(w) \/ GiveUp(w) \/ Unauthorized(w),
             UNCHANGED <<exec, drafts, sent>>
      PROVE  DeliveryInv'
  <2>1. ASSUME NEW result \in {"failed", "queued"}, Finish(w, result, worker[w].operation)
        PROVE  DeliveryInv'
    <3> DEFINE f == [worker[w] EXCEPT !.stage = "settle", !.result = result,
                                      !.operation = worker[w].operation]
    <3>1. f \in Frame /\ f.stage = "settle" /\ f.result = result /\ f.execution = e
          /\ f.attempts = worker[w].attempts /\ f.operation = worker[w].operation
      BY <1>e, <1>b DEF Frame, Claimed, Terminal
    <3>2. worker' = [worker EXCEPT ![w] = f]
      BY <1>e, <2>1 DEF Finish
    <3>3. QED
      BY <1>e, <1>3, <1>4, <3>1, <3>2
  <2>2. CASE Retry(w)
    BY <1>e, <2>1, <2>2 DEF Retry
  <2>3. CASE GiveUp(w)
    BY <1>e, <2>1, <2>3 DEF GiveUp
  <2>4. CASE Unauthorized(w)
    <3> DEFINE f == [worker[w] EXCEPT !.stage = "reauth"]
    <3>1. f \in Frame /\ f.stage = "reauth" /\ f.execution = e
          /\ f.attempts = worker[w].attempts /\ f.operation = worker[w].operation
      BY <1>e, <1>b DEF Frame, Claimed
    <3>2. worker' = [worker EXCEPT ![w] = f]
      BY <1>e, <2>4 DEF Unauthorized, GoTo
    <3>3. QED
      BY <1>e, <1>3, <1>4, <3>1, <3>2
  <2>5. QED
    BY <1>e, <1>4, <2>2, <2>3, <2>4
<1>5. CASE Delivery(w) \/ RunRoute(w) \/ ClaimRefused(w) \/ Report(w) \/ WorkerCrashes(w)
  <2>1. /\ worker'[w].stage \notin Claimed
        /\ \A v \in Workers \ {w} : worker'[v] = worker[v]
    <3>1. CASE Delivery(w) \/ RunRoute(w)
      <4>1. PICK x, m, r : Start(w, x, m, r)
        BY <1>e, <3>1 DEF Delivery, RunRoute, Receive, Run
      <4>2. QED
        BY <1>e, <1>a, <4>1 DEF Start, IdleFrame, Claimed
    <3>2. CASE ClaimRefused(w)
      BY <1>e, <1>a, <1>b, <3>2 DEF ClaimRefused, GoTo, Frame, Claimed
    <3>3. CASE Report(w) \/ WorkerCrashes(w)
      BY <1>e, <1>a, <3>3 DEF Report, WorkerCrashes, IdleFrame, Claimed
    <3>4. QED
      BY <1>e, <1>5, <3>1, <3>2, <3>3
  <2>2. UNCHANGED <<exec, drafts, sent>>
    BY <1>e, <1>5 DEF Delivery, RunRoute, Receive, Run, ClaimRefused, Report, WorkerCrashes
  <2>3. QED
    BY <1>e, <1>1, <2>1, <2>2
<1>6. CASE Claim(w)
  <2> DEFINE f == [worker[w] EXCEPT !.stage = "verify",
                                    !.attempts = exec[e].attempts + 1,
                                    !.operation = exec[e].operation,
                                    !.output = exec[e].output]
             r == [exec[e] EXCEPT !.status = "executing",
                                  !.attempts = exec[e].attempts + 1,
                                  !.lease = "held"]
  <2>1. /\ e \in Executions /\ exec[e] \in Row
        /\ drafts'[e] = drafts[e] /\ sent'[e] = sent[e] /\ UNCHANGED <<drafts, sent>>
    BY <1>e, <1>6, <1>a DEF Claim
  <2>2. /\ worker' = [worker EXCEPT ![w] = f]
        /\ exec' = [exec EXCEPT ![e] = r]
    BY <1>e, <1>6 DEF Claim, ClaimExecution
  <2>3. /\ f.stage = "verify" /\ f.execution = e
        /\ f.attempts = exec[e].attempts + 1 /\ f.operation = exec[e].operation
    BY <1>e, <1>b DEF Frame
  <2>4. /\ r.status = "executing" /\ r.lease = "held"
        /\ r.attempts = exec[e].attempts + 1 /\ r.operation = exec[e].operation
    BY <1>e, <2>1 DEF Row
  <2> HIDE DEF f, r
  <2>5. \A v \in Workers : worker[v].stage \in Claimed => worker[v].execution # e
    BY <1>e, <1>6, <1>c DEF Claim, ClaimExecution, Claimable, AttemptHeld, NoStaleWorker
  <2>6. /\ worker'[w] = f /\ \A v \in Workers \ {w} : worker'[v] = worker[v]
        /\ exec'[e] = r /\ \A x \in Executions \ {e} : exec'[x] = exec[x]
    BY <1>e, <1>a, <2>1, <2>2
  <2>7. AttemptHeld'
    BY <1>e, <1>a, <1>c, <2>3, <2>4, <2>5, <2>6 DEF AttemptHeld, NoStaleWorker
  <2>8. exec[e].attempts \in Nat /\ \A d \in drafts[e] : d.operation \in Int
    BY <1>e, <1>a, <2>1 DEF Row, Effect
  <2>9. DraftRow(e)' /\ EventRow(e)'
    <3>1. DraftRow(e) /\ EventRow(e)
      BY <1>c, <2>1
    <3>2. exec'[e].operation = exec[e].operation /\ exec'[e].attempts = exec[e].attempts + 1
      BY <2>4, <2>6
    <3>3. \A d \in drafts[e] : d.operation <= exec[e].attempts => d.operation <= exec'[e].attempts
      BY <2>8, <3>2
    <3>4. DraftRow(e)'
      BY <2>1, <3>1, <3>2, <3>3 DEF DraftRow
    <3>5. EventRow(e)'
      BY <2>1, <3>1 DEF EventRow
    <3>6. QED
      BY <3>4, <3>5
  <2>10. DraftFrame(w)'
    <3>1. ~GmailMail(e) => \A d \in drafts[e] : d.operation # exec[e].attempts + 1
      BY <1>c, <2>1, <2>8, MailKinds DEF DraftRow, EventRow
    <3>2. worker'[w].execution = e /\ worker'[w].stage = "verify"
          /\ worker'[w].attempts = exec[e].attempts + 1 /\ exec[e].attempts + 1 > 0
          /\ worker'[w].operation = exec'[e].operation
      BY <2>3, <2>4, <2>6, <2>8
    <3>3. QED
      BY <2>1, <3>1, <3>2 DEF DraftFrame, GmailMail, OutlookMail, IsMail, Provider
  <2>11. QED
    BY <1>e, <2>1, <2>5, <2>6, <2>7, <2>9, <2>10, OthersKept
<1>7. CASE Verify(w) \/ LoadCredentials(w)
  <2>1. PICK stage \in {"credentials", "attach", "draft", "send"} :
          /\ GoTo(w, stage)
          /\ stage = "draft" => OutlookMail(e) /\ worker[w].operation = NoOperation
    BY <1>e, <1>7 DEF Verify, LoadCredentials
  <2> DEFINE f == [worker[w] EXCEPT !.stage = stage]
  <2>2. f \in Frame /\ f.stage = stage /\ f.execution = e
        /\ f.attempts = worker[w].attempts /\ f.operation = worker[w].operation
    BY <1>e, <1>b DEF Frame, Claimed
  <2>3. worker' = [worker EXCEPT ![w] = f]
    BY <1>e, <2>1 DEF GoTo
  <2>4. worker[w].stage \in {"verify", "credentials"} /\ UNCHANGED <<exec, drafts, sent>>
    BY <1>e, <1>7 DEF Verify, LoadCredentials
  <2>5. QED
    BY <1>e, <1>3, <2>1, <2>2, <2>3, <2>4 DEF Claimed
<1>8. CASE VerifyFails(w) \/ LoadCredentialsFails(w) \/ AttachFails(w)
           \/ SendDraftGone(w) \/ SendRefused(w) \/ Reauthorize(w) \/ StoreFails(w)
  BY <1>e, <1>4, <1>8
  DEF VerifyFails, LoadCredentialsFails, AttachFails, SendDraftGone, SendRefused,
      Reauthorize, StoreFails, Claimed
<1>9. CASE Attach(w)
  <2> DEFINE output == IF worker[w].output = NoOutput
                       THEN worker[w].attempts ELSE worker[w].output
             next == IF OutlookMail(e) /\ worker[w].operation = NoOperation
                     THEN "draft" ELSE "send"
             f == [worker[w] EXCEPT !.stage = next, !.output = output]
  <2>1. /\ f.stage = next /\ f.execution = e
        /\ f.attempts = worker[w].attempts /\ f.operation = worker[w].operation
    BY <1>e, <1>b DEF Frame
  <2>2. /\ worker[w].stage = "attach" /\ UNCHANGED <<drafts, sent>>
        /\ worker' = [worker EXCEPT ![w] = f]
    BY <1>e, <1>9 DEF Attach
  <2>3. worker'[w] = f /\ \A v \in Workers \ {w} : worker'[v] = worker[v]
    BY <1>e, <1>a, <2>2
  <2>4. /\ \A x \in Executions : /\ exec'[x].status = exec[x].status
                                /\ exec'[x].lease = exec[x].lease
                                /\ exec'[x].attempts = exec[x].attempts
                                /\ exec'[x].operation = exec[x].operation
        /\ \A x \in Executions \ {e} : exec'[x] = exec[x]
    BY <1>e, <1>9, <1>a, <1>d DEF Attach, UpdateOutput, storeVars, Row
  <2>5. DraftFrame(w)'
    BY <1>e, <1>c, <1>d, <2>1, <2>2, <2>3, <2>4
    DEF DraftFrame, GmailMail, OutlookMail, IsMail, Provider, Claimed
  <2>6. DraftRow(e)' /\ EventRow(e)'
    BY <1>e, <1>c, <1>d, <2>2, <2>4 DEF DraftRow, EventRow, Claimed
  <2>7. QED
    BY <1>e, <1>2, <2>1, <2>2, <2>3, <2>4, <2>5, <2>6 DEF Claimed
<1>10. CASE CreateDraft(w) \/ CreateDraftFails(w)
  <2>1. /\ worker[w].stage = "draft" /\ e \in Executions
        /\ UNCHANGED <<exec, sent>>
    BY <1>e, <1>10, <1>a DEF CreateDraft, CreateDraftFails
  <2>2. CASE UNCHANGED drafts /\ (Retry(w) \/ Unauthorized(w))
    BY <1>e, <1>4, <2>1, <2>2 DEF Claimed
  <2>3. CASE CreatesDraft(w) /\ (GoTo(w, "checkpoint") \/ Retry(w))
    <3>1. /\ worker'[w].stage \in {"checkpoint", "settle"}
          /\ worker'[w].stage = "settle" => worker'[w].result # "completed"
          /\ worker'[w].execution = e
          /\ worker'[w].attempts = worker[w].attempts
          /\ worker'[w].operation = worker[w].operation
          /\ \A v \in Workers \ {w} : worker'[v] = worker[v]
      <4>1. CASE GoTo(w, "checkpoint")
        BY <1>e, <1>a, <1>b, <4>1 DEF GoTo, Frame
      <4>2. CASE Retry(w)
        BY <1>e, <1>a, <1>b, <4>2 DEF Retry, Finish, Frame
      <4>3. QED
        BY <2>3, <4>1, <4>2
    <3>2. /\ drafts'[e] = drafts[e] \cup {NewDraft(w)}
          /\ \A x \in Executions \ {e} : drafts'[x] = drafts[x]
          /\ NewDraft(w).operation = worker[w].attempts
      BY <1>e, <1>a, <2>1, <2>3 DEF CreatesDraft, NewDraft
    <3>3. /\ exec[e].attempts = worker[w].attempts
          /\ worker[w].attempts \in Nat
          /\ \A d \in drafts[e] : d.operation \in Int
      BY <1>e, <1>a, <1>b, <1>d, <2>1 DEF Frame, Effect, Claimed
    <3>4. ~GmailMail(e) =>
            /\ OutlookMail(e)
            /\ worker[w].attempts > 0
            /\ worker[w].operation = NoOperation
            /\ exec[e].operation = NoOperation
            /\ \A d \in drafts[e] : d.operation # worker[w].attempts
      BY <1>e, <1>c, <2>1 DEF DraftFrame, Claimed
    <3>5. DraftFrame(w)'
      BY <1>e, <2>1, <3>1, <3>3, <3>4
      DEF DraftFrame, GmailMail, OutlookMail, IsMail, Provider, Claimed
    <3>6. DraftRow(e)'
      BY <1>e, <1>c, <2>1, <3>2, <3>3, <3>4 DEF DraftRow, GmailMail, OutlookMail
    <3>7. EventRow(e)'
      BY <1>e, <1>c, <2>1, <3>4 DEF EventRow, GmailMail, OutlookMail
    <3>8. QED
      BY <1>e, <1>2, <1>a, <2>1, <3>1, <3>2, <3>5, <3>6, <3>7 DEF Claimed
  <2>4. QED
    BY <1>e, <1>10, <2>2, <2>3 DEF CreateDraft, CreateDraftFails
<1>11. CASE Checkpoint(w)
  <2> DEFINE f == [worker[w] EXCEPT !.stage = "send", !.operation = worker[w].attempts]
  <2>1. /\ worker[w].stage = "checkpoint" /\ UNCHANGED <<drafts, sent>>
        /\ e \in Executions /\ exec[e].status = "executing"
        /\ drafts'[e] = drafts[e] /\ sent'[e] = sent[e]
    BY <1>e, <1>11, <1>d DEF Checkpoint, Claimed
  <2>2. /\ worker'[w].stage = "send" /\ worker'[w].execution = e
        /\ worker'[w].attempts = worker[w].attempts
        /\ worker'[w].operation = worker[w].attempts
        /\ \A v \in Workers \ {w} : worker'[v] = worker[v]
    BY <1>e, <1>11, <1>a, <1>b DEF Checkpoint, Frame
  <2>3. /\ exec'[e].operation = worker[w].attempts
        /\ \A x \in Executions : /\ exec'[x].status = exec[x].status
                                /\ exec'[x].lease = exec[x].lease
                                /\ exec'[x].attempts = exec[x].attempts
        /\ \A x \in Executions \ {e} : exec'[x] = exec[x]
    BY <1>e, <1>11, <1>a, <2>1 DEF Checkpoint, UpdateCheckpoint, Row
  <2>4. ~GmailMail(e) => OutlookMail(e) /\ exec[e].operation = NoOperation
                         /\ worker[w].attempts > 0
    BY <1>e, <1>c, <2>1 DEF DraftFrame, Claimed
  <2>5. DraftFrame(w)'
    BY <1>e, <2>1, <2>2, <2>3, <2>4 DEF DraftFrame, GmailMail, OutlookMail, IsMail, Provider
  <2>6. DraftRow(e)' /\ EventRow(e)'
    BY <1>e, <1>b, <1>c, <2>1, <2>3, <2>4
    DEF DraftRow, EventRow, GmailMail, OutlookMail, Frame, NoOperation
  <2>7. QED
    BY <1>e, <1>2, <2>1, <2>2, <2>3, <2>5, <2>6 DEF Claimed
<1>12. CASE Send(w) \/ SendLost(w) \/ SendMisread(w)
  <2>1. /\ worker[w].stage = "send" /\ e \in Executions /\ UNCHANGED exec
        /\ exec'[e] = exec[e]
    BY <1>e, <1>12, <1>d DEF Send, SendLost, SendMisread, Claimed
  <2>2. /\ worker'[w].stage \in {"confirm", "settle"}
        /\ worker'[w].stage = "confirm" => OutlookMail(e)
        /\ worker'[w].execution = e
        /\ worker'[w].attempts = worker[w].attempts
        /\ OutlookMail(e) => worker'[w].operation = worker[w].operation
        /\ \A v \in Workers \ {w} : worker'[v] = worker[v]
        /\ worker'[w].stage = "settle" /\ worker'[w].result = "completed" => ProviderActs(w)
    <3>1. CASE Send(w)
      <4>1. CASE OutlookMail(e)
        BY <1>e, <1>a, <1>b, <3>1, <4>1 DEF Send, GoTo, Frame
      <4>2. CASE ~OutlookMail(e)
        <5>1. PICK o : Finish(w, "completed", o)
          BY <1>e, <3>1, <4>2 DEF Send
        <5>2. ProviderActs(w)
          BY <3>1 DEF Send
        <5>3. QED
          BY <1>e, <1>a, <1>b, <4>2, <5>1, <5>2 DEF Finish, Frame
      <4>3. QED
        BY <4>1, <4>2
    <3>2. CASE SendLost(w)
      BY <1>e, <1>a, <1>b, <3>2 DEF SendLost, Finish, UncertainOperation, Frame
    <3>3. CASE SendMisread(w)
      BY <1>e, <1>a, <1>b, <3>3 DEF SendMisread, Retry, Finish, Frame
    <3>4. QED
      BY <1>e, <1>12, <3>1, <3>2, <3>3
  <2>3. /\ worker[w].attempts \in Nat /\ exec[e].attempts = worker[w].attempts
        /\ \A d \in drafts[e] : d.operation \in Int
    BY <1>e, <1>a, <1>b, <1>d, <2>1 DEF Frame, Effect, Claimed
  <2>4. ~GmailMail(e) => /\ worker[w].attempts > 0
                         /\ OutlookMail(e) => worker[w].operation = exec[e].operation
    BY <1>e, <1>c, <2>1 DEF DraftFrame, Claimed
  <2>5. CASE UNCHANGED <<drafts, sent>> /\ ~ProviderActs(w)
    <3>1. ~Send(w)
      BY <2>5 DEF Send
    <3>2. worker'[w].stage = "settle" /\ worker'[w].result # "completed"
      <4>1. CASE SendLost(w)
        BY <1>a, <1>b, <4>1 DEF SendLost, Finish, Frame
      <4>2. CASE SendMisread(w)
        BY <1>a, <1>b, <4>2 DEF SendMisread, Retry, Finish, Frame
      <4>3. QED
        BY <1>12, <3>1, <4>1, <4>2
    <3>3. drafts'[e] = drafts[e] /\ sent'[e] = sent[e]
      BY <2>5
    <3>4. DraftFrame(w)'
      BY <1>e, <2>1, <2>2, <2>4, <3>2 DEF DraftFrame, GmailMail, OutlookMail, IsMail, Provider
    <3>5. DraftRow(e)' /\ EventRow(e)'
      BY <1>c, <2>1, <3>3 DEF DraftRow, EventRow
    <3>6. QED
      BY <1>2, <1>e, <2>1, <2>2, <2>5, <3>4, <3>5 DEF Claimed
  <2>6. CASE ProviderActs(w)
    <3>1. CASE OutlookMail(e)
      <4>1. PICK d \in drafts[e] : /\ d.operation = worker[w].operation
                                 /\ drafts' = [drafts EXCEPT ![e] = drafts[e] \ {d}]
                                 /\ sent' = [sent EXCEPT ![e] = sent[e] \cup {d}]
        BY <1>e, <2>6, <3>1 DEF ProviderActs, SendDraft, Leaves
      <4>2. /\ drafts'[e] = drafts[e] \ {d} /\ sent'[e] = sent[e] \cup {d}
            /\ \A x \in Executions \ {e} : drafts'[x] = drafts[x] /\ sent'[x] = sent[x]
        BY <1>a, <2>1, <4>1
      <4>3. DraftRow(e) /\ ~GmailMail(e) /\ IsMail(e)
        BY <1>c, <2>1, <3>1 DEF GmailMail, OutlookMail
      <4>4. d.operation = exec[e].operation /\ sent[e] = {} /\ exec[e].operation # NoOperation
        BY <2>3, <2>4, <3>1, <4>1, <4>3 DEF DraftRow, NoOperation
      <4>5. DraftRow(e)'
        BY <2>1, <3>1, <4>1, <4>2, <4>3, <4>4 DEF DraftRow
      <4>6. EventRow(e)'
        BY <4>3 DEF EventRow, IsMail
      <4>7. DraftFrame(w)'
        BY <1>e, <2>1, <2>2, <2>4, <4>2, <4>3
        DEF DraftFrame, GmailMail, OutlookMail, IsMail, Provider
      <4>8. QED
        BY <1>2, <1>e, <2>1, <2>2, <4>2, <4>5, <4>6, <4>7 DEF Claimed
    <3>2. CASE ~OutlookMail(e)
      <4>1. PICK s : s = (IF IsMail(e) THEN NewMail(w) ELSE KeyedEvent(w))
        OBVIOUS
      <4>2. /\ UNCHANGED drafts /\ drafts'[e] = drafts[e]
            /\ sent' = [sent EXCEPT ![e] = sent[e] \cup {s}]
        BY <1>e, <2>6, <3>2, <4>1 DEF ProviderActs, Leaves
      <4>3. /\ sent'[e] = sent[e] \cup {s}
            /\ \A x \in Executions \ {e} : drafts'[x] = drafts[x] /\ sent'[x] = sent[x]
        BY <1>a, <2>1, <4>2
      <4>4. ~IsMail(e) => s = Event
        BY <4>1 DEF KeyedEvent, Event
      <4>5. EventRow(e)'
        BY <1>c, <2>1, <4>2, <4>3, <4>4 DEF EventRow
      <4>6. DraftRow(e)'
        BY <3>2 DEF DraftRow, OutlookMail, IsMail, Provider
      <4>7. DraftFrame(w)'
        BY <1>e, <2>1, <2>2, <2>4, <3>2, <4>3
        DEF DraftFrame, GmailMail, OutlookMail, IsMail, Provider
      <4>8. QED
        BY <1>2, <1>e, <2>1, <2>2, <4>3, <4>5, <4>6, <4>7 DEF Claimed
    <3>3. QED
      BY <3>1, <3>2
  <2>7. QED
    BY <1>12, <2>5, <2>6 DEF Send, SendLost, SendMisread
<1>13. CASE Confirm(w)
  <2>1. PICK result \in {"completed", "delivery_uncertain"} :
          Finish(w, result, worker[w].operation)
    BY <1>13 DEF Confirm
  <2> DEFINE f == [worker[w] EXCEPT !.stage = "settle", !.result = result,
                                    !.operation = worker[w].operation]
  <2>2. f \in Frame /\ f.stage = "settle" /\ f.result = result /\ f.execution = e
        /\ f.attempts = worker[w].attempts /\ f.operation = worker[w].operation
    BY <1>b, <1>e DEF Frame, Claimed, Terminal
  <2>3. worker' = [worker EXCEPT ![w] = f]
    BY <2>1 DEF Finish
  <2>4. worker[w].stage = "confirm" /\ UNCHANGED <<exec, drafts, sent>>
    BY <1>13 DEF Confirm
  <2>5. QED
    BY <1>3, <2>2, <2>3, <2>4 DEF Claimed
<1>14. CASE Settle(w)
  <2>1. /\ worker[w].stage = "settle" /\ UNCHANGED <<drafts, sent>>
        /\ e \in Executions /\ exec[e].status = "executing"
        /\ exec[e].attempts = worker[w].attempts /\ exec[e] \in Row
        /\ drafts'[e] = drafts[e] /\ sent'[e] = sent[e]
    BY <1>14, <1>d DEF Settle, Claimed
  <2>2. /\ worker'[w].stage = "report"
        /\ \A v \in Workers \ {w} : worker'[v] = worker[v]
    BY <1>14, <1>a, <1>b DEF Settle, GoTo, Frame
  <2> DEFINE operation == IF worker[w].result \in {"completed", "delivery_uncertain"}
                          THEN worker[w].operation ELSE exec[e].operation
             output == IF worker[w].result = "completed" /\ KindOf[e] = "pdf_form"
                       THEN worker[w].output ELSE exec[e].output
  <2>3. exec' = [exec EXCEPT ![e] = [exec[e] EXCEPT !.status = worker[w].result,
                                                    !.lease = "none",
                                                    !.operation = operation,
                                                    !.output = output]]
    BY <1>14, <1>e, <2>1 DEF Settle, SettleExecution
  <2>4. /\ exec'[e].attempts = exec[e].attempts /\ exec'[e].operation = operation
        /\ \A x \in Executions \ {e} : exec'[x] = exec[x]
    BY <1>a, <2>1, <2>3 DEF Row
  <2>5. OutlookMail(e) => operation = exec[e].operation
    BY <1>c, <1>e, <2>1 DEF DraftFrame, Claimed, GmailMail, OutlookMail
  <2>6. \A v \in Workers \ {w} : worker[v].stage \in Claimed => worker[v].execution # e
    BY <1>d, <2>1 DEF Claimed
  <2>7. AttemptHeld'
    BY <1>a, <1>c, <2>2, <2>4, <2>6 DEF AttemptHeld, NoStaleWorker, Claimed
  <2>8. DraftFrame(w)'
    BY <2>2 DEF DraftFrame, Claimed
  <2> HIDE DEF operation
  <2>9. DraftRow(e)' /\ EventRow(e)'
    BY <1>c, <2>1, <2>4, <2>5 DEF DraftRow, EventRow, OutlookMail, IsMail, Provider
  <2>10. QED
    BY <2>1, <2>2, <2>4, <2>6, <2>7, <2>8, <2>9, OthersKept
<1>15. QED
  BY <1>5, <1>6, <1>7, <1>8, <1>9, <1>10, <1>11, <1>12, <1>13, <1>14 DEF Work

LEMMA DeliveryInit == Init => DeliveryInv
  BY DEF Init, StoreInit, AbsentRow, IdleFrame, Claimed, DeliveryInv, AttemptHeld, NoStaleWorker,
         DraftFrame, DraftRow, EventRow

LEMMA DeliveryStep ==
  ASSUME "slow" \notin Faults
  PROVE  TypeInv /\ DeliveryInv /\ [Next]_vars => DeliveryInv'
<1> SUFFICES ASSUME TypeInv, DeliveryInv, [Next]_vars PROVE DeliveryInv'
  OBVIOUS
<1>1. CASE UNCHANGED vars
  BY <1>1 DEF vars, DeliveryInv, AttemptHeld, NoStaleWorker, DraftFrame, DraftRow, EventRow
<1>2. CASE \/ Reviewer
           \/ Owner
           \/ Time
           \/ \E d \in Dispatchers : DispatcherCrashes(d) \/ Dispatch(d)
  <2>1. /\ UNCHANGED <<worker, drafts, sent>>
        /\ \A e \in Executions : /\ exec'[e].operation = exec[e].operation
                                 /\ exec'[e].attempts = exec[e].attempts
        /\ \A w \in Workers : worker[w].stage \in Claimed =>
             exec'[worker[w].execution] = exec[worker[w].execution]
    BY <1>2, EnvironmentKeeps DEF DeliveryInv
  <2>2. AttemptHeld'
    BY <2>1 DEF DeliveryInv, AttemptHeld, NoStaleWorker
  <2>3. \A w \in Workers : DraftFrame(w)'
    BY <2>1 DEF DeliveryInv, DraftFrame
  <2>4. \A e \in Executions : DraftRow(e)' /\ EventRow(e)'
    BY <2>1 DEF DeliveryInv, DraftRow, EventRow
  <2>5. QED
    BY <2>2, <2>3, <2>4 DEF DeliveryInv
<1>3. CASE \E w \in Workers : Delivery(w) \/ RunRoute(w) \/ Work(w) \/ WorkerCrashes(w)
  BY <1>3, WorkerKeeps
<1>4. QED
  BY <1>1, <1>2, <1>3 DEF Next, Crash

LEMMA AtMostOnce ==
  ASSUME \A e \in Executions : ~GmailMail(e), DeliveryInv
  PROVE  SingleDelivery
  BY MailKinds DEF DeliveryInv, DraftRow, EventRow, SingleDelivery

(***************************************************************************)
(* No worker acts on an attempt that is not the row's current one, and an  *)
(* approved version leaves at most one mail or event, however often        *)
(* workers crash between create, checkpoint and send, answers are lost or  *)
(* misread, commands are duplicated and leases reclaimed: the Outlook      *)
(* draft checkpoint and the keyed calendar ids make a repeated attempt     *)
(* harmless.                                                               *)
(***************************************************************************)
THEOREM DeliveredOnce ==
  ASSUME "slow" \notin Faults, \A e \in Executions : ~GmailMail(e)
  PROVE  Spec => [](NoStaleWorker /\ SingleDelivery)
<1>1. DeliveryInv => NoStaleWorker /\ SingleDelivery
  BY AtMostOnce DEF DeliveryInv, AttemptHeld
<1>2. TypeInv /\ DeliveryInv /\ [Next]_vars => DeliveryInv'
  BY DeliveryStep
<1>3. QED
  BY TypeInit, TypeStep, DeliveryInit, <1>1, <1>2, PTL DEF Spec

-----------------------------------------------------------------------------
(* Refinement                                                              *)

(* The refinement mapping of Promise, written out.                         *)
Outcome(row) ==
  CASE row.status = "absent"   -> "none"
    [] row.status \in Terminal -> row.status
    [] OTHER                   -> "open"

OutcomeMap == [e \in Executions |-> Outcome(exec[e])]
DeliveryMap == [e \in Executions |-> Cardinality(sent[e])]

LEMMA AbstractInit == Init => Promise!Init
<1> SUFFICES ASSUME Init PROVE Promise!Init
  OBVIOUS
<1>1. \A e \in Executions : exec[e].status = "absent"
  BY DEF Init, StoreInit, AbsentRow
<1>2. \A e \in Executions : Cardinality(sent[e]) = 0
  BY FS_EmptySet DEF Init
<1>3. OutcomeMap = [e \in Executions |-> "none"]
  BY <1>1 DEF OutcomeMap, Outcome, Terminal
<1>4. DeliveryMap = [e \in Executions |-> 0]
  BY <1>2 DEF DeliveryMap
<1>5. QED
  BY <1>3, <1>4 DEF Promise!Init, OutcomeMap, DeliveryMap, Outcome

LEMMA AbstractApprove ==
  ASSUME NEW e \in Executions, OutcomeMap[e] = "none",
         OutcomeMap' = [OutcomeMap EXCEPT ![e] = "open"], UNCHANGED DeliveryMap
  PROVE  Promise!Next
  BY DEF Promise!Next, Promise!Approve, OutcomeMap, DeliveryMap, Outcome

LEMMA AbstractDeliver ==
  ASSUME NEW e \in Executions, OutcomeMap[e] = "open", DeliveryMap[e] = 0,
         DeliveryMap' = [DeliveryMap EXCEPT ![e] = 1], UNCHANGED OutcomeMap
  PROVE  Promise!Next
  BY DEF Promise!Next, Promise!Deliver, OutcomeMap, DeliveryMap, Outcome

LEMMA AbstractConclude ==
  ASSUME NEW e \in Executions, NEW result \in Terminal, OutcomeMap[e] = "open",
         result = "completed" => DeliveryMap[e] = 1,
         OutcomeMap' = [OutcomeMap EXCEPT ![e] = result], UNCHANGED DeliveryMap
  PROVE  Promise!Next
  BY DEF Promise!Next, Promise!Conclude, OutcomeMap, DeliveryMap, Outcome, Terminal

(* What the refinement needs of a conclusion.                              *)
CompletesWhatItSent(w) ==
  worker[w].stage = "settle" /\ worker[w].result = "completed" =>
    sent[worker[w].execution] # {}

(* The steps that change sent: one more effect for an executing row.       *)
LEMMA SentSteps ==
  ASSUME TypeInv, AttemptHeld, [Next]_vars
  PROVE  \/ UNCHANGED sent
         \/ \E w \in Workers, e \in Executions, s \in Effect :
              /\ worker[w].stage = "send"
              /\ worker[w].execution = e
              /\ exec[e].status = "executing"
              /\ UNCHANGED exec
              /\ sent' = [sent EXCEPT ![e] = sent[e] \cup {s}]
<1> SUFFICES ASSUME Next, ~UNCHANGED sent
             PROVE  \E w \in Workers, e \in Executions, s \in Effect :
                      /\ worker[w].stage = "send"
                      /\ worker[w].execution = e
                      /\ exec[e].status = "executing"
                      /\ UNCHANGED exec
                      /\ sent' = [sent EXCEPT ![e] = sent[e] \cup {s}]
  BY DEF vars
<1>1. ~(Reviewer \/ Owner \/ Time \/ Crash)
  BY DEF Reviewer, Owner, Time, Crash, Approve, Disconnect, Reconnect,
         VisibilityExpires, LeaseExpires, DispatcherCrashes, WorkerCrashes
<1>2. ASSUME NEW d \in Dispatchers, Dispatch(d) PROVE FALSE
  BY <1>2 DEF Dispatch, ListDispatchable, Enqueue, EnqueueFails, Mark
<1>3. ASSUME NEW w \in Workers, Delivery(w) \/ RunRoute(w) PROVE FALSE
  BY <1>3 DEF Delivery, RunRoute, Receive, Run
<1>4. PICK w \in Workers : Work(w)
  BY <1>1, <1>2, <1>3 DEF Next
<1>5. Send(w) \/ SendLost(w) \/ SendMisread(w)
  BY <1>4 DEF Work, Claim, ClaimRefused, Verify, VerifyFails, LoadCredentials,
              LoadCredentialsFails, Attach, AttachFails, CreateDraft, CreateDraftFails,
              Checkpoint, SendDraftGone, SendRefused, Confirm, Reauthorize, Settle,
              StoreFails, Report
<1>6. worker[w].stage = "send" /\ UNCHANGED exec /\ ProviderActs(w)
  BY <1>5 DEF Send, SendLost, SendMisread
<1>7. /\ worker[w] \in Frame /\ worker[w].execution \in Executions
      /\ drafts \in [Executions -> SUBSET Effect]
  BY <1>6 DEF TypeInv, TypeOK, WorkerOK
<1>8. exec[worker[w].execution].status = "executing"
  BY <1>6 DEF AttemptHeld, NoStaleWorker, Claimed
<1>9. NewMail(w) \in Effect /\ KeyedEvent(w) \in Effect
  BY <1>7 DEF Frame, Effect, NewMail, KeyedEvent, KeyOperation, NoOutput
<1>10. \E s \in Effect : Leaves(w, s)
  <2>1. CASE OutlookMail(worker[w].execution)
    BY <1>6, <1>7, <2>1 DEF ProviderActs, SendDraft
  <2>2. CASE ~OutlookMail(worker[w].execution)
    BY <1>6, <1>9, <2>2 DEF ProviderActs
  <2>3. QED
    BY <2>1, <2>2
<1>11. QED
  BY <1>6, <1>7, <1>8, <1>10 DEF Leaves

LEMMA AbstractStep ==
  ASSUME TypeInv, AttemptHeld, SingleDelivery, SingleDelivery',
         \A w \in Workers : CompletesWhatItSent(w),
         [Next]_vars
  PROVE  [Promise!Next]_<<OutcomeMap, DeliveryMap>>
<1>1. TypeInv'
  BY TypeStep
<1>2. SingleDelivery /\ SingleDelivery'
  OBVIOUS
<1>3. /\ exec \in [Executions -> Row] /\ exec' \in [Executions -> Row]
      /\ sent \in [Executions -> SUBSET Effect]
  BY <1>1 DEF TypeInv, TypeOK, StoreTypeOK
<1>4. CASE ~UNCHANGED sent
  <2>1. PICK e \in Executions, s \in Effect :
          /\ exec[e].status = "executing"
          /\ UNCHANGED exec
          /\ sent' = [sent EXCEPT ![e] = sent[e] \cup {s}]
    BY <1>4, SentSteps
  <2>2. UNCHANGED OutcomeMap /\ OutcomeMap[e] = "open"
    BY <2>1 DEF OutcomeMap, Outcome, Terminal
  <2>3. sent'[e] = sent[e] \cup {s} /\ \A x \in Executions \ {e} : sent'[x] = sent[x]
    BY <1>3, <2>1
  <2>4. sent'[e] = {s}
    BY <1>2, <2>3 DEF SingleDelivery
  <2>5. sent[e] = {}
    BY <1>3, <1>4, <2>1, <2>3, <2>4
  <2>6. Cardinality(sent[e]) = 0 /\ Cardinality(sent'[e]) = 1
    BY <2>4, <2>5, FS_EmptySet, FS_Singleton
  <2>7. DeliveryMap[e] = 0 /\ DeliveryMap' = [DeliveryMap EXCEPT ![e] = 1]
    BY <2>3, <2>6 DEF DeliveryMap
  <2>8. QED
    BY <2>2, <2>7, AbstractDeliver
<1>5. CASE UNCHANGED sent
  <2>1. UNCHANGED DeliveryMap
    BY <1>5 DEF DeliveryMap
  <2>2. ASSUME \A e \in Executions : Outcome(exec'[e]) = Outcome(exec[e])
        PROVE  UNCHANGED OutcomeMap
    BY <2>2 DEF OutcomeMap
  <2>3. ASSUME NEW e \in Executions, ApproveProposal(e)
        PROVE  Promise!Next
    <3>1. OutcomeMap[e] = "none" /\ OutcomeMap' = [OutcomeMap EXCEPT ![e] = "open"]
      BY <1>3, <2>3 DEF ApproveProposal, OutcomeMap, Outcome, Terminal, Row
    <3>2. QED
      BY <2>1, <3>1, AbstractApprove
  <2>4. ASSUME NEW e \in Executions, MarkDispatched(e) \/ LeaseExpires(e)
        PROVE  UNCHANGED OutcomeMap
    BY <1>3, <2>4 DEF MarkDispatched, LeaseExpires, OutcomeMap, Outcome, Terminal, Row
  <2>5. ASSUME NEW w \in Workers, Claim(w) \/ Attach(w) \/ Checkpoint(w)
        PROVE  UNCHANGED OutcomeMap
    <3>1. ASSUME NEW e \in Executions, exec[e].status # "absent", exec[e].status \notin Terminal,
                 exec'[e].status # "absent", exec'[e].status \notin Terminal
          PROVE  Outcome(exec'[e]) = Outcome(exec[e])
      BY <3>1 DEF Outcome
    <3>2. ASSUME NEW e \in Executions
          PROVE  Outcome(exec'[e]) = Outcome(exec[e])
      <4>1. CASE exec'[e] = exec[e]
        BY <4>1
      <4>2. CASE Claim(w) /\ exec'[e] # exec[e]
        BY <1>3, <3>1, <4>2 DEF Claim, ClaimExecution, Claimable, Terminal, Row
      <4>3. CASE Attach(w) /\ exec'[e] # exec[e]
        BY <1>3, <3>1, <4>3 DEF Attach, UpdateOutput, storeVars, Terminal, Row
      <4>4. CASE Checkpoint(w) /\ exec'[e] # exec[e]
        BY <1>3, <3>1, <4>4 DEF Checkpoint, UpdateCheckpoint, storeVars, Terminal, Row
      <4>5. QED
        BY <2>5, <4>1, <4>2, <4>3, <4>4
    <3>3. QED
      BY <2>2, <3>2
  <2>6. ASSUME NEW w \in Workers, Settle(w)
        PROVE  Promise!Next \/ UNCHANGED OutcomeMap
    <3>1. PICK e \in Executions : e = worker[w].execution
      BY <2>6 DEF Settle, TypeInv, WorkerOK
    <3>a. worker[w].stage = "settle" /\ CompletesWhatItSent(w) /\ worker[w] \in Frame
      BY <2>6 DEF Settle, TypeInv, WorkerOK
    <3>2. /\ exec[e].status = "executing" /\ exec[e].attempts = worker[w].attempts
          /\ worker[w].result \in Terminal \cup {"queued"}
          /\ worker[w].result = "completed" => sent[e] # {}
      <4>1. exec[e].status = "executing" /\ exec[e].attempts = worker[w].attempts
        BY <3>1, <3>a DEF AttemptHeld, NoStaleWorker, Claimed
      <4>2. worker[w].result \in Terminal \cup {"queued"}
        BY <3>a DEF TypeInv, WorkerOK, Frame
      <4>3. worker[w].result = "completed" => sent[e] # {}
        BY <3>1, <3>a DEF CompletesWhatItSent
      <4>4. QED
        BY <4>1, <4>2, <4>3
    <3>3. /\ exec'[e].status = worker[w].result
          /\ \A x \in Executions \ {e} : exec'[x] = exec[x]
      <4>1. PICK o, u : SettleExecution(e, worker[w].attempts, worker[w].result, o, u)
        BY <2>6, <3>1 DEF Settle
      <4>2. exec' = [exec EXCEPT ![e] = [exec[e] EXCEPT !.status = worker[w].result,
                                                        !.lease = "none",
                                                        !.operation = o,
                                                        !.output = u]]
        BY <3>2, <4>1 DEF SettleExecution
      <4>3. QED
        BY <1>3, <4>2 DEF Row
    <3>4. worker[w].result = "completed" => DeliveryMap[e] = 1
      <4>1. ASSUME sent[e] # {} PROVE \E s : sent[e] = {s}
        <5>1. PICK s : s \in sent[e]
          BY <4>1
        <5>2. \A t \in sent[e] : t = s
          BY <5>1 DEF SingleDelivery
        <5>3. QED
          BY <5>1, <5>2
      <4>2. ASSUME NEW s, sent[e] = {s} PROVE DeliveryMap[e] = 1
        BY <4>2, FS_Singleton DEF DeliveryMap
      <4>3. QED
        BY <3>2, <4>1, <4>2
    <3>5. CASE worker[w].result = "queued"
      BY <3>2, <3>3, <3>5 DEF OutcomeMap, Outcome, Terminal
    <3>6. CASE worker[w].result \in Terminal
      <4>1. OutcomeMap[e] = "open"
            /\ OutcomeMap' = [OutcomeMap EXCEPT ![e] = worker[w].result]
        BY <3>2, <3>3, <3>6 DEF OutcomeMap, Outcome, Terminal
      <4>2. QED
        BY <2>1, <3>4, <3>6, <4>1, AbstractConclude
    <3>7. QED
      BY <3>2, <3>5, <3>6
  <2>7. UNCHANGED exec => UNCHANGED OutcomeMap
    BY DEF OutcomeMap
  <2>8. Promise!Next \/ UNCHANGED OutcomeMap
    BY <2>3, <2>4, <2>5, <2>6, <2>7, RowSteps
  <2>9. QED
    BY <2>1, <2>8
<1>6. QED
  BY <1>4, <1>5

(***************************************************************************)
(* Execution implements ApprovedAction: each step of the queue, the        *)
(* workers and the provider is an approval, a delivery that is the first   *)
(* and happens while the action is open, a conclusion that says completed  *)
(* only of a delivered action, or invisible.                               *)
(***************************************************************************)
THEOREM PromiseKept ==
  ASSUME "slow" \notin Faults, \A e \in Executions : ~GmailMail(e)
  PROVE  Spec => KeepsPromise
<1>1. TypeInv /\ DeliveryInv /\ [Next]_vars => DeliveryInv'
  BY DeliveryStep
<1>2. TypeInv /\ DeliveryInv /\ [Next]_vars => [Promise!Next]_<<OutcomeMap, DeliveryMap>>
  <2> SUFFICES ASSUME TypeInv, DeliveryInv, [Next]_vars
               PROVE  [Promise!Next]_<<OutcomeMap, DeliveryMap>>
    OBVIOUS
  <2>1. DeliveryInv'
    BY DeliveryStep
  <2>2. SingleDelivery'
    BY <2>1, MailKinds DEF DeliveryInv, DraftRow, EventRow, SingleDelivery
  <2>3. \A w \in Workers : CompletesWhatItSent(w)
    BY DEF DeliveryInv, DraftFrame, CompletesWhatItSent, TypeInv, WorkerOK, Claimed
  <2> QED
    BY <2>2, <2>3, AtMostOnce, AbstractStep DEF DeliveryInv
<1>3. QED
  BY TypeInit, TypeStep, DeliveryInit, AbstractInit, <1>1, <1>2, PTL
  DEF Spec, KeepsPromise, Promise!Spec, OutcomeMap, DeliveryMap, Outcome

-----------------------------------------------------------------------------
(* Completed forms                                                         *)

OutlookForm(e) == OutlookMail(e) /\ KindOf[e] = "pdf_form"

(***************************************************************************)
(* The form of an Outlook mail is stored before its first draft is created *)
(* and never replaced, so that every draft carries the stored form, and    *)
(* so does the worker of the attempt.                                      *)
(***************************************************************************)
FormDraft(e) ==
  OutlookForm(e) =>
    /\ \A d \in drafts[e] : d.output = exec[e].output
    /\ exec[e].output = NoOutput => drafts[e] = {}

FormFrame(w) ==
  LET e == worker[w].execution IN
  worker[w].stage \in Claimed /\ OutlookForm(e) =>
    /\ worker[w].output = exec[e].output
    /\ worker[w].stage = "draft" => worker[w].output # NoOutput

FormInv ==
  /\ \A w \in Workers : FormFrame(w)
  /\ \A e \in Executions : FormDraft(e)

(* With an Outlook form, only the attempt that stores it writes the row's  *)
(* output: a settlement repeats what is there.                             *)
LEMMA OutputSteps ==
  ASSUME TypeInv, DeliveryInv, FormInv, [Next]_vars,
         NEW e \in Executions, OutlookForm(e)
  PROVE  \/ exec'[e].output = exec[e].output
         \/ \E w \in Workers : /\ Attach(w)
                               /\ worker[w].execution = e
                               /\ exec[e].output = NoOutput
<1>1. exec \in [Executions -> Row]
  BY DEF TypeInv, TypeOK, StoreTypeOK
<1>2. ASSUME NEW x \in Executions, ApproveProposal(x) \/ MarkDispatched(x) \/ LeaseExpires(x)
      PROVE  exec'[e].output = exec[e].output
  BY <1>1, <1>2 DEF ApproveProposal, MarkDispatched, LeaseExpires, Row
<1>3. ASSUME NEW w \in Workers, Claim(w) \/ Checkpoint(w)
      PROVE  exec'[e].output = exec[e].output
  <2>1. CASE Claim(w)
    BY <1>1, <2>1 DEF Claim, ClaimExecution, Row
  <2>2. CASE Checkpoint(w)
    BY <1>1, <2>2 DEF Checkpoint, UpdateCheckpoint, storeVars, Row
  <2> QED
    BY <1>3, <2>1, <2>2
<1>4. ASSUME NEW w \in Workers, Settle(w)
      PROVE  exec'[e].output = exec[e].output
  <2>1. CASE exec'[e] = exec[e]
    BY <2>1
  <2>2. CASE exec'[e] # exec[e]
    BY <1>4, <2>2, SettleWrites DEF FormInv, FormFrame, Claimed
  <2> QED
    BY <2>1, <2>2
<1>5. ASSUME NEW w \in Workers, Attach(w), exec'[e].output # exec[e].output
      PROVE  worker[w].execution = e /\ exec[e].output = NoOutput
  <2>1. worker[w].output = NoOutput /\ worker[w].execution = e
    BY <1>1, <1>5 DEF Attach, UpdateOutput, storeVars
  <2> QED
    BY <1>5, <2>1 DEF Attach, FormInv, FormFrame, Claimed
<1> QED
  BY <1>2, <1>3, <1>4, <1>5, RowSteps

LEMMA FormDraftsKept ==
  ASSUME TypeInv, DeliveryInv, FormInv, [Next]_vars, NEW e \in Executions
  PROVE  FormDraft(e)'
<1> SUFFICES ASSUME OutlookForm(e)
             PROVE  /\ \A d \in drafts'[e] : d.output = exec'[e].output
                    /\ exec'[e].output = NoOutput => drafts'[e] = {}
  BY DEF FormDraft, OutlookForm, OutlookMail, IsMail, Provider
<1>1. /\ \A d \in drafts[e] : d.output = exec[e].output
      /\ exec[e].output = NoOutput => drafts[e] = {}
      /\ drafts \in [Executions -> SUBSET Effect]
  BY DEF FormInv, FormDraft, TypeInv, TypeOK
<1>2. ASSUME NEW w \in Workers, Attach(w), exec[e].output = NoOutput
      PROVE  drafts'[e] = {}
  BY <1>1, <1>2 DEF Attach
<1>3. CASE exec'[e].output = exec[e].output
  <2>1. CASE drafts'[e] \subseteq drafts[e]
    BY <1>1, <1>3, <2>1
  <2>2. ASSUME NEW w \in Workers, worker[w].stage = "draft", CreatesDraft(w),
               worker[w].execution = e
        PROVE  /\ \A d \in drafts'[e] : d.output = exec[e].output
               /\ exec[e].output # NoOutput
    <3>1. worker[w].output = exec[e].output /\ worker[w].output # NoOutput
      BY <2>2 DEF FormInv, FormFrame, Claimed
    <3>2. drafts'[e] = drafts[e] \cup {NewDraft(w)}
      BY <1>1, <2>2 DEF CreatesDraft
    <3> QED
      BY <1>1, <3>1, <3>2 DEF NewDraft
  <2>3. ASSUME NEW w \in Workers, CreatesDraft(w), worker[w].execution # e
        PROVE  drafts'[e] = drafts[e]
    BY <1>1, <2>3 DEF CreatesDraft
  <2> QED
    BY <1>3, <2>1, <2>2, <2>3, DraftSteps
<1> QED
  BY <1>2, <1>3, OutputSteps

(* What a step of a worker does to its frame, but for claim and attach.    *)
LEMMA FrameSteps ==
  ASSUME TypeInv, NEW w \in Workers, Work(w), ~Claim(w), ~Attach(w),
         worker'[w].stage \in Claimed
  PROVE  /\ worker[w].stage \in Claimed
         /\ worker'[w].execution = worker[w].execution
         /\ worker'[w].output = worker[w].output
         /\ worker'[w].stage = "draft" => KindOf[worker[w].execution] # "pdf_form"
<1> DEFINE Goal == /\ worker[w].stage \in Claimed
                   /\ worker'[w].execution = worker[w].execution
                   /\ worker'[w].output = worker[w].output
                   /\ worker'[w].stage = "draft" =>
                        KindOf[worker[w].execution] # "pdf_form"
<1>1. worker \in [Workers -> Frame] /\ worker[w] \in Frame
  BY DEF TypeInv, TypeOK
<1>2. ASSUME NEW stage, GoTo(w, stage), worker[w].stage \in Claimed,
             stage = "draft" => KindOf[worker[w].execution] # "pdf_form"
      PROVE  Goal
  <2> DEFINE f == [worker[w] EXCEPT !.stage = stage]
  <2>1. worker'[w] = f
    BY <1>1, <1>2 DEF GoTo
  <2>2. f.stage = stage /\ f.execution = worker[w].execution /\ f.output = worker[w].output
    BY <1>1 DEF Frame
  <2> HIDE DEF f
  <2> QED
    BY <1>2, <2>1, <2>2
<1>3. ASSUME NEW r, NEW o, Finish(w, r, o), worker[w].stage \in Claimed
      PROVE  Goal
  <2> DEFINE f == [worker[w] EXCEPT !.stage = "settle", !.result = r, !.operation = o]
  <2>1. worker' = [worker EXCEPT ![w] = f]
    BY <1>3, Zenon DEF Finish
  <2>2. f.stage = "settle" /\ f.execution = worker[w].execution /\ f.output = worker[w].output
    BY <1>1 DEF Frame
  <2> HIDE DEF f
  <2>3. worker'[w] = f
    BY <1>1, <2>1
  <2> QED
    BY <1>3, <2>2, <2>3
<1>4. ASSUME worker[w].stage \in Claimed, Retry(w) \/ GiveUp(w) \/ Unauthorized(w)
      PROVE  Goal
  <2>1. CASE Retry(w) \/ GiveUp(w)
    BY <1>3, <1>4, <2>1 DEF Retry, GiveUp
  <2>2. CASE Unauthorized(w)
    BY <1>2, <1>4, <2>2 DEF Unauthorized
  <2> QED
    BY <1>4, <2>1, <2>2
<1>5. CASE ClaimRefused(w) \/ Settle(w)
  <2>1. GoTo(w, "report")
    BY <1>5, Zenon DEF ClaimRefused, Settle
  <2> QED
    BY <1>1, <2>1 DEF GoTo, Claimed, Frame
<1>6. CASE Report(w)
  BY <1>1, <1>6, IdleFrameType DEF Report, Claimed, IdleFrame
<1>7. CASE Verify(w) \/ LoadCredentials(w)
  <2>1. PICK stage : GoTo(w, stage) /\ (stage = "draft" => KindOf[worker[w].execution] # "pdf_form")
    BY <1>7 DEF Verify, LoadCredentials
  <2>2. worker[w].stage \in Claimed
    BY <1>7 DEF Verify, LoadCredentials, Claimed
  <2> QED
    BY <1>2, <2>1, <2>2
<1>8. CASE Checkpoint(w)
  <2> DEFINE f == [worker[w] EXCEPT !.stage = "send", !.operation = worker[w].attempts]
  <2>1. worker' = [worker EXCEPT ![w] = f]
    BY <1>8, Zenon DEF Checkpoint
  <2>2. f.stage = "send" /\ f.execution = worker[w].execution /\ f.output = worker[w].output
    BY <1>1 DEF Frame
  <2>3. worker[w].stage \in Claimed
    BY <1>8 DEF Checkpoint, Claimed
  <2> HIDE DEF f
  <2>4. worker'[w] = f
    BY <1>1, <2>1
  <2> QED
    BY <2>2, <2>3, <2>4
<1>9. CASE \/ CreateDraft(w) \/ Send(w) \/ SendLost(w) \/ SendMisread(w) \/ Confirm(w)
           \/ VerifyFails(w) \/ LoadCredentialsFails(w) \/ AttachFails(w)
           \/ CreateDraftFails(w) \/ SendDraftGone(w) \/ SendRefused(w) \/ Reauthorize(w)
           \/ StoreFails(w)
  <2>1. worker[w].stage \in Claimed
    BY <1>9 DEF CreateDraft, Send, SendLost, SendMisread, Confirm, VerifyFails,
                LoadCredentialsFails, AttachFails, CreateDraftFails, SendDraftGone,
                SendRefused, Reauthorize, StoreFails, Claimed
  <2>2. \/ GoTo(w, "checkpoint") \/ GoTo(w, "confirm")
        \/ \E r, o : Finish(w, r, o)
        \/ Retry(w) \/ GiveUp(w) \/ Unauthorized(w)
    BY <1>9 DEF CreateDraft, Send, SendLost, SendMisread, Confirm, VerifyFails,
                LoadCredentialsFails, AttachFails, CreateDraftFails, SendDraftGone,
                SendRefused, Reauthorize, StoreFails
  <2> QED
    BY <1>2, <1>3, <1>4, <2>1, <2>2
<1> QED
  BY <1>5, <1>6, <1>7, <1>8, <1>9 DEF Work

(* A step of a worker changes its own frame.                               *)
LEMMA OneFrameMoves ==
  ASSUME NEW w, Delivery(w) \/ RunRoute(w) \/ Work(w) \/ WorkerCrashes(w)
  PROVE  \E f : worker' = [worker EXCEPT ![w] = f]
<1> DEFINE Goal == \E f : worker' = [worker EXCEPT ![w] = f]
<1>1. ASSUME NEW stage, GoTo(w, stage)  PROVE Goal
  BY <1>1, Zenon DEF GoTo
<1>2. ASSUME NEW r, NEW o, Finish(w, r, o)  PROVE Goal
  BY <1>2, Zenon DEF Finish
<1>3. ASSUME NEW e, NEW m, NEW r, Start(w, e, m, r)  PROVE Goal
  BY <1>3, Zenon DEF Start
<1>4. ASSUME Retry(w) \/ GiveUp(w) \/ Unauthorized(w)  PROVE Goal
  BY <1>1, <1>2, <1>4, Zenon DEF Retry, GiveUp, Unauthorized
<1>5. CASE Delivery(w) \/ RunRoute(w)
  BY <1>3, <1>5, Zenon DEF Delivery, RunRoute, Receive, Run
<1>6. CASE Claim(w) \/ Attach(w) \/ Checkpoint(w) \/ Report(w) \/ WorkerCrashes(w)
  BY <1>6, Zenon DEF Claim, Attach, Checkpoint, Report, WorkerCrashes
<1>7. CASE \/ ClaimRefused(w) \/ Verify(w) \/ LoadCredentials(w) \/ CreateDraft(w)
           \/ Send(w) \/ Settle(w) \/ SendLost(w) \/ Confirm(w)
  BY <1>1, <1>2, <1>7, Zenon DEF ClaimRefused, Verify, LoadCredentials, CreateDraft,
     Send, Settle, SendLost, Confirm
<1>8. CASE \/ VerifyFails(w) \/ LoadCredentialsFails(w) \/ AttachFails(w)
           \/ CreateDraftFails(w) \/ SendDraftGone(w) \/ SendRefused(w)
           \/ SendMisread(w) \/ Reauthorize(w) \/ StoreFails(w)
  BY <1>4, <1>8 DEF VerifyFails, LoadCredentialsFails, AttachFails, CreateDraftFails,
     SendDraftGone, SendRefused, SendMisread, Reauthorize, StoreFails
<1> QED
  BY <1>5, <1>6, <1>7, <1>8 DEF Work

LEMMA FormFramesKept ==
  ASSUME TypeInv, DeliveryInv, FormInv, [Next]_vars, NEW v \in Workers
  PROVE  FormFrame(v)'
<1> DEFINE x == worker'[v].execution
<1> SUFFICES ASSUME worker'[v].stage \in Claimed, OutlookForm(x)
             PROVE  /\ worker'[v].output = exec'[x].output
                    /\ worker'[v].stage = "draft" => worker'[v].output # NoOutput
  BY DEF FormFrame, OutlookForm, OutlookMail, IsMail, Provider
<1> DEFINE Goal == /\ worker'[v].output = exec'[x].output
                   /\ worker'[v].stage = "draft" => worker'[v].output # NoOutput
<1>1. /\ exec \in [Executions -> Row]
      /\ worker \in [Workers -> Frame]
      /\ worker[v] \in Frame
      /\ \A w \in Workers : worker[w].stage # "idle" => worker[w].execution \in Executions
  BY DEF TypeInv, TypeOK, StoreTypeOK, WorkerOK
<1>2. ASSUME NEW w \in Workers, Attach(w), worker[v].stage \in Claimed,
             worker[w].execution = worker[v].execution
      PROVE  w = v
  BY <1>2 DEF Attach, DeliveryInv, AttemptHeld, Claimed
<1>3. ASSUME Attach(v)  PROVE Goal
  <2> DEFINE e == worker[v].execution
             o == IF worker[v].output = NoOutput THEN worker[v].attempts ELSE worker[v].output
             st == IF OutlookMail(e) /\ worker[v].operation = NoOperation
                   THEN "draft" ELSE "send"
             f == [worker[v] EXCEPT !.stage = st, !.output = o]
  <2>1. worker' = [worker EXCEPT ![v] = f]
    BY <1>3, Zenon DEF Attach
  <2>2. f.execution = e /\ f.output = o
    BY <1>1 DEF Frame
  <2> HIDE DEF f
  <2>3. worker'[v].output = o /\ x = e
    BY <1>1, <2>1, <2>2
  <2>4. /\ worker[v].stage = "attach" /\ e \in Executions
        /\ worker[v].attempts > 0
        /\ worker[v].output = exec[e].output
        /\ exec[e].status = "executing"
    <3>1. worker[v].stage = "attach" /\ worker[v].stage \in Claimed
      BY <1>3 DEF Attach, Claimed
    <3>2. ~GmailMail(e)
      BY <2>3 DEF OutlookForm, OutlookMail, GmailMail
    <3>3. FormFrame(v) /\ DraftFrame(v) /\ NoStaleWorker
      BY DEF FormInv, DeliveryInv, AttemptHeld
    <3> QED
      BY <1>1, <2>3, <3>1, <3>2, <3>3 DEF FormFrame, DraftFrame, NoStaleWorker
  <2>5. exec'[e].output = o
    BY <1>1, <1>3, <2>4 DEF Attach, UpdateOutput, storeVars, Row
  <2>6. o # NoOutput
    BY <2>4 DEF NoOutput
  <2> HIDE DEF o
  <2> QED
    BY <2>3, <2>5, <2>6
<1>4. ASSUME worker[v].stage \in Claimed, worker'[v].execution = worker[v].execution,
             worker'[v].output = worker[v].output,
             worker'[v].stage = "draft" => worker[v].stage = "draft",
             ~Attach(v)
      PROVE  Goal
  <2>1. x \in Executions
    BY <1>1, <1>4 DEF Claimed
  <2>2. exec'[x].output = exec[x].output
    BY <1>2, <1>4, <2>1, OutputSteps
  <2> QED
    BY <1>4, <2>2 DEF FormInv, FormFrame
<1>5. ASSUME worker'[v] = worker[v]  PROVE Goal
  <2>1. ASSUME Attach(v)  PROVE FALSE
    <3>1. worker[v].stage = "attach" /\ \E g : /\ worker' = [worker EXCEPT ![v] = g]
                                                /\ g.stage # "attach"
      <4> DEFINE g == [worker[v] EXCEPT
                         !.stage = IF /\ OutlookMail(worker[v].execution)
                                      /\ worker[v].operation = NoOperation
                                   THEN "draft" ELSE "send",
                         !.output = IF worker[v].output = NoOutput
                                    THEN worker[v].attempts ELSE worker[v].output]
      <4>1. worker' = [worker EXCEPT ![v] = g] /\ worker[v].stage = "attach"
        BY <2>1, Zenon DEF Attach
      <4>2. g.stage # "attach"
        BY <1>1 DEF Frame
      <4> HIDE DEF g
      <4> QED
        BY <4>1, <4>2
    <3> QED
      BY <1>1, <1>5, <3>1
  <2> QED
    BY <1>4, <1>5, <2>1
<1>6. ASSUME Claim(v)  PROVE Goal
  <2> DEFINE e == worker[v].execution
             f == [worker[v] EXCEPT !.stage = "verify",
                                    !.attempts = exec[e].attempts + 1,
                                    !.operation = exec[e].operation,
                                    !.output = exec[e].output]
  <2>1. worker' = [worker EXCEPT ![v] = f] /\ worker[v].stage = "claim"
    BY <1>6, Zenon DEF Claim
  <2>2. f.execution = e /\ f.output = exec[e].output /\ f.stage = "verify"
    BY <1>1 DEF Frame
  <2> HIDE DEF f
  <2>3. worker'[v] = f
    BY <1>1, <2>1
  <2>4. exec'[e].output = exec[e].output
    BY <1>1, <1>6, <2>1 DEF Claim, ClaimExecution, Row
  <2> QED
    BY <2>2, <2>3, <2>4
<1>7. CASE Work(v)
  <2>1. CASE ~Claim(v) /\ ~Attach(v)
    <3>1. /\ worker[v].stage \in Claimed
          /\ worker'[v].execution = worker[v].execution
          /\ worker'[v].output = worker[v].output
          /\ worker'[v].stage # "draft"
      BY <1>7, <2>1, FrameSteps DEF OutlookForm
    <3> QED
      BY <1>4, <2>1, <3>1
  <2> QED
    BY <1>3, <1>6, <2>1
<1>8. ASSUME Delivery(v) \/ RunRoute(v) \/ WorkerCrashes(v)  PROVE FALSE
  <2>1. CASE Delivery(v) \/ RunRoute(v)
    <3>1. PICK y, m, r : Start(v, y, m, r)
      BY <2>1 DEF Delivery, RunRoute, Receive, Run
    <3> QED
      BY <1>1, <3>1 DEF Start, IdleFrame, Claimed
  <2>2. CASE WorkerCrashes(v)
    BY <1>1, <2>2 DEF WorkerCrashes, IdleFrame, Claimed
  <2> QED
    BY <1>8, <2>1, <2>2
<1>9. ASSUME NEW w \in Workers, w # v,
             Delivery(w) \/ RunRoute(w) \/ Work(w) \/ WorkerCrashes(w)
      PROVE  worker'[v] = worker[v]
  <2>1. PICK f : worker' = [worker EXCEPT ![w] = f]
    BY <1>9, OneFrameMoves
  <2> QED
    BY <1>1, <1>9, <2>1
<1>10. CASE UNCHANGED worker
  BY <1>5, <1>10
<1>11. ASSUME NEW d \in Dispatchers, Dispatch(d)  PROVE UNCHANGED worker
  BY <1>11 DEF Dispatch, ListDispatchable, Enqueue, EnqueueFails, Mark
<1>12. CASE Reviewer \/ Owner \/ Time \/ \E d \in Dispatchers : DispatcherCrashes(d)
  BY <1>10, <1>12 DEF Reviewer, Owner, Time, Approve, Disconnect, Reconnect,
     VisibilityExpires, LeaseExpires, DispatcherCrashes
<1> QED
  BY <1>5, <1>7, <1>8, <1>9, <1>10, <1>11, <1>12 DEF Next, Crash, vars

LEMMA FormInit ==
  ASSUME Init
  PROVE  FormInv
BY IdleFrameType, Zenon DEF Init, StoreInit, IdleFrame, FormInv, FormFrame, FormDraft, Claimed

(* Every draft an Outlook worker sends carries the form it settles with.   *)
LEMMA FormsMatch ==
  ASSUME TypeInv, FormInv, FramesDeliver, PlainDrafts, NEW w \in Workers
  PROVE  SendsItsForm(w)
<1> SUFFICES ASSUME worker[w].stage = "send", OutlookMail(worker[w].execution),
                    NEW d \in drafts[worker[w].execution]
             PROVE  d.output = worker[w].output
  BY DEF SendsItsForm
<1>1. worker[w].execution \in Executions /\ worker[w].stage \in Claimed
  BY DEF TypeInv, WorkerOK, Claimed
<1>2. CASE KindOf[worker[w].execution] = "pdf_form"
  BY <1>1, <1>2 DEF FormInv, FormFrame, FormDraft, OutlookForm
<1>3. CASE KindOf[worker[w].execution] # "pdf_form"
  BY <1>1, <1>3 DEF FramesDeliver, Delivers, PlainDrafts
<1> QED
  BY <1>2, <1>3

FormsInv == DeliveryInv /\ FormInv /\ CompletedInv /\ PlainDrafts

LEMMA FormsInit == Init => FormsInv
  BY DeliveryInit, FormInit, CompletedInit DEF FormsInv

LEMMA FormsStep ==
  ASSUME "slow" \notin Faults
  PROVE  TypeInv /\ FormsInv /\ [Next]_vars => FormsInv'
<1> SUFFICES ASSUME TypeInv, FormsInv, [Next]_vars PROVE FormsInv'
  OBVIOUS
<1>1. DeliveryInv'
  BY DeliveryStep DEF FormsInv
<1>2. FormInv'
  BY FormFramesKept, FormDraftsKept DEF FormInv, FormsInv
<1>3. CompletedInv'
  BY FormsMatch, CompletedStep DEF FormsInv, CompletedInv
<1>4. PlainDrafts'
  BY PlainDraftsKept DEF FormsInv, CompletedInv
<1> QED
  BY <1>1, <1>2, <1>3, <1>4 DEF FormsInv

(***************************************************************************)
(* While no worker outlives its lease, a completed row names the mail or   *)
(* the event that exists, with the form it carried, for every kind of      *)
(* action and both providers: the form of an Outlook mail is stored once,  *)
(* before its first draft, so a draft that a crashed attempt left behind   *)
(* and a later one sends carries the form the row names.                   *)
(***************************************************************************)
THEOREM CompletedFormWasDelivered ==
  ASSUME "slow" \notin Faults
  PROVE  Spec => []CompletedMeansDelivered
<1>1. TypeInv /\ FormsInv /\ [Next]_vars => FormsInv'
  BY FormsStep
<1>2. FormsInv => CompletedMeansDelivered
  BY DEF FormsInv, CompletedInv
<1> QED
  BY TypeInit, TypeStep, FormsInit, <1>1, <1>2, PTL DEF Spec

=============================================================================
