---------------------------- MODULE AttemptProofs -----------------------------
(***************************************************************************)
(* Attempts, retries and commands, for every kind of action: a live worker *)
(* holds its attempt, attempts stay within MAX_ATTEMPTS, only an action    *)
(* without effect is tried again, so that a Gmail mail leaves once too,    *)
(* and no row waits for a command that will not come. None of this         *)
(* survives a worker that outlives its lease ("slow"), and all but the     *)
(* first part needs workers that finish what they begin and a database     *)
(* that answers them: the runs execution_resend and execution_stranded     *)
(* show what a crash does, execution_unsettled what a refused settlement   *)
(* does.                                                                   *)
(***************************************************************************)
EXTENDS DeliveryProofs

(* What a worker concluded of an action that may have happened.            *)
Acted(w) ==
  \/ worker[w].stage = "confirm"
  \/ worker[w].stage = "settle" /\ worker[w].result \in {"completed", "delivery_uncertain"}

(* An executing row has its worker, and one that can be claimed has an     *)
(* attempt left.                                                           *)
Attended(e) ==
  /\ exec[e].status = "executing" => \E w \in Workers : Owns(w, e)
  /\ exec[e].status \in {"absent", "pending_dispatch", "queued"} => exec[e].attempts < MaxAttempts

Settling(w) ==
  /\ worker[w].stage \in Claimed => worker[w].attempts > 0
  /\ worker[w].stage = "settle" /\ worker[w].result = "queued" => worker[w].attempts < MaxAttempts

AttemptsInv ==
  /\ AttemptHeld
  /\ AttemptsWithinLimit
  /\ \A e \in Executions : Attended(e)
  /\ \A w \in Workers : Settling(w)

(* Whoever sees the effect of an action is the worker that caused it.      *)
EffectKnown(e) ==
  sent[e] # {} => \/ exec[e].status \in {"completed", "delivery_uncertain"}
                  \/ \E w \in Workers : Owns(w, e) /\ Acted(w)

EffectsInv == AttemptsInv /\ \A e \in Executions : EffectKnown(e)

(* A worker carries the command it received, alone in its household.       *)
Open == {"pending_dispatch", "queued", "executing"}

Carries(w) ==
  LET m == worker[w].message
      e == worker[w].execution
  IN  worker[w].stage # "idle" =>
        /\ m \in Messages /\ m[1] = e
        /\ queue[m] = [state |-> "inflight", receives |-> worker[w].receipt]
        /\ worker[w].stage = "claim" => exec[e].status \in {"pending_dispatch", "queued"} \cup Terminal
        /\ worker[w].stage = "report" =>
             \/ exec[e].status \in Terminal
             \/ exec[e].status = "queued" /\ worker[w].attempts > 0

Announced(e) == \E m \in Messages : m[1] = e /\ queue[m].state # "unsent"

Delivered(m) ==
  LET e == m[1] IN
  /\ queue[m].state = "unsent" => queue[m].receives = 0
  /\ queue[m].state # "unsent" => exec[e].status # "absent"
  /\ exec[e].status \in Open => queue[m].state \in {"unsent", "visible", "inflight"}
  /\ exec[e].status \notin Terminal =>
       \/ queue[m].receives <= exec[e].attempts
       \/ /\ queue[m].receives <= exec[e].attempts + 1
          /\ \E w \in Workers : worker[w].stage = "claim" /\ worker[w].message = m

(* One worker to a message, one message of a household in flight.          *)
Alone ==
  /\ \A v, w \in Workers :
       worker[v].stage # "idle" /\ worker[w].stage # "idle" /\ worker[v].message = worker[w].message
         => v = w
  /\ \A m, n \in Messages :
       /\ queue[m].state = "inflight"
       /\ queue[n].state = "inflight"
       /\ HouseholdOf[m[1]] = HouseholdOf[n[1]]
       => m = n

Awaited(e) == exec[e].status \in {"queued", "executing"} => Announced(e)

Dispatching(d) ==
  /\ \A e \in dispatcher[d].todo : exec[e].status # "absent"
  /\ dispatcher[d].current # Nobody =>
       exec[dispatcher[d].current].status # "absent" /\ Announced(dispatcher[d].current)

Commands ==
  /\ \A w \in Workers : Carries(w)
  /\ Alone
  /\ \A m \in Messages : Delivered(m)
  /\ \A e \in Executions : Awaited(e)
  /\ \A d \in Dispatchers : Dispatching(d)

CommandsInv == AttemptsInv /\ Commands

-----------------------------------------------------------------------------
(* What a worker does within its attempt.                                  *)

(* The frame of w becomes f; everybody else's is kept.                     *)
Becomes(w, f) ==
  /\ f \in Frame
  /\ worker' = [worker EXCEPT ![w] = f]

(* f is a later frame of the same attempt.                                 *)
Continues(w, f) ==
  /\ f.stage \in Claimed
  /\ f.execution = worker[w].execution
  /\ f.message = worker[w].message
  /\ f.receipt = worker[w].receipt
  /\ f.attempts = worker[w].attempts

ActedIn(f) ==
  \/ f.stage = "confirm"
  \/ f.stage = "settle" /\ f.result \in {"completed", "delivery_uncertain"}

WithinAttempt(w, f) ==
  /\ worker[w].stage \in Claimed
  /\ Becomes(w, f)
  /\ Continues(w, f)
  /\ f.stage = "settle" /\ f.result = "queued" => worker[w].attempts < MaxAttempts
  /\ Acted(w) => ActedIn(f) \/ StoreFails(w)
  /\ \/ UNCHANGED sent
     \/ /\ ActedIn(f) \/ SendMisread(w)
        /\ worker[w].stage = "send"
        /\ \A e \in Executions \ {worker[w].execution} : sent'[e] = sent[e]
  /\ \A e \in Executions : /\ exec'[e].status = exec[e].status
                           /\ exec'[e].lease = exec[e].lease
                           /\ exec'[e].attempts = exec[e].attempts
  /\ UNCHANGED <<outbox, dispatcher, queue>>

LEMMA GoesWithin ==
  ASSUME TypeInv, NEW w \in Workers, worker[w].stage \in Claimed \ {"settle"},
         NEW stage \in Claimed \ {"settle"}, GoTo(w, stage),
         Acted(w) => stage = "confirm"
  PROVE  \E f : Becomes(w, f) /\ Continues(w, f) /\ f.stage = stage
                /\ (Acted(w) => ActedIn(f))
<1> DEFINE f == [worker[w] EXCEPT !.stage = stage]
<1>1. worker[w] \in Frame
  BY DEF TypeInv, WorkerOK
<1>2. /\ f.stage = stage
      /\ f.execution = worker[w].execution
      /\ f.message = worker[w].message
      /\ f.receipt = worker[w].receipt
      /\ f.attempts = worker[w].attempts
      /\ f \in Frame
  BY <1>1 DEF Frame, Claimed
<1>3. worker' = [worker EXCEPT ![w] = f]
  BY DEF GoTo
<1> HIDE DEF f
<1> QED
  BY <1>2, <1>3 DEF Becomes, Continues, ActedIn

LEMMA FinishesWithin ==
  ASSUME TypeInv, NEW w \in Workers, worker[w].stage \in Claimed,
         NEW result \in {"queued"} \cup Terminal, NEW operation \in Int,
         Finish(w, result, operation)
  PROVE  \E f : Becomes(w, f) /\ Continues(w, f) /\ f.stage = "settle" /\ f.result = result
<1> DEFINE f == [worker[w] EXCEPT !.stage = "settle", !.result = result,
                                  !.operation = operation]
<1>1. worker[w] \in Frame
  BY DEF TypeInv, WorkerOK
<1>2. /\ f.stage = "settle"
      /\ f.execution = worker[w].execution
      /\ f.message = worker[w].message
      /\ f.receipt = worker[w].receipt
      /\ f.attempts = worker[w].attempts
      /\ f.result = result
      /\ f \in Frame
  BY <1>1 DEF Frame, Claimed, Terminal
<1>3. worker' = [worker EXCEPT ![w] = f]
  BY Zenon DEF Finish
<1> HIDE DEF f
<1> QED
  BY <1>2, <1>3 DEF Becomes, Continues, Claimed

(* A retry goes back to the queue only while there are attempts left.      *)
LEMMA RetriesWithin ==
  ASSUME TypeInv, NEW w \in Workers, worker[w].stage \in Claimed, Retry(w)
  PROVE  \E f : /\ Becomes(w, f) /\ Continues(w, f)
                /\ f.stage = "settle" /\ f.result = "queued" => worker[w].attempts < MaxAttempts
<1> DEFINE result == IF worker[w].attempts >= MaxAttempts THEN "failed" ELSE "queued"
<1>1. worker[w].operation \in Int /\ worker[w].attempts \in Nat
  BY DEF TypeInv, WorkerOK, Frame
<1>2. Finish(w, result, worker[w].operation)
  BY DEF Retry
<1>3. result \in {"queued"} \cup Terminal /\ (result = "queued" => worker[w].attempts < MaxAttempts)
  BY <1>1, LimitsAssumption DEF Terminal
<1> HIDE DEF result
<1>4. PICK f : Becomes(w, f) /\ Continues(w, f) /\ f.result = result
  BY <1>1, <1>2, <1>3, FinishesWithin
<1> QED
  BY <1>3, <1>4

(* A failure before the provider has acted: back to the queue while there  *)
(* are attempts left, or reauthorization, or failed.                       *)
LEMMA GivesUpWithin ==
  ASSUME TypeInv, NEW w \in Workers, worker[w].stage \in Claimed \ {"settle", "confirm"},
         Retry(w) \/ GiveUp(w) \/ Unauthorized(w)
  PROVE  \E f : /\ Becomes(w, f) /\ Continues(w, f)
                /\ f.stage = "settle" /\ f.result = "queued" => worker[w].attempts < MaxAttempts
<1>1. ~Acted(w) /\ worker[w].operation \in Int /\ worker[w].attempts \in Nat
  BY DEF Acted, TypeInv, WorkerOK, Frame
<1>2. CASE Unauthorized(w)
  <2>1. PICK f : Becomes(w, f) /\ Continues(w, f) /\ f.stage = "reauth"
    BY <1>1, <1>2, GoesWithin DEF Unauthorized, Claimed
  <2> QED
    BY <2>1
<1>3. CASE GiveUp(w)
  <2>1. PICK f : Becomes(w, f) /\ Continues(w, f) /\ f.result = "failed"
    BY <1>1, <1>3, FinishesWithin DEF GiveUp, Terminal
  <2> QED
    BY <2>1
<1>4. CASE Retry(w)
  BY <1>4, RetriesWithin
<1> QED
  BY <1>2, <1>3, <1>4

(***************************************************************************)
(* The steps of a worker: those that begin or end an attempt, and those    *)
(* within it.                                                              *)
(***************************************************************************)
LEMMA WorkSteps ==
  ASSUME TypeInv, NEW w \in Workers, Work(w)
  PROVE  \/ Claim(w) \/ ClaimRefused(w) \/ Settle(w) \/ Report(w)
         \/ \E f : WithinAttempt(w, f)
<1>1. /\ exec \in [Executions -> Row]
      /\ sent \in [Executions -> SUBSET Effect]
      /\ worker[w] \in Frame
      /\ worker[w].operation \in Int /\ worker[w].attempts \in Int /\ KeyOperation \in Int
      /\ worker[w].stage # "idle" => worker[w].execution \in Executions
  BY DEF TypeInv, TypeOK, StoreTypeOK, WorkerOK, Frame, KeyOperation
<1> DEFINE Quiet == UNCHANGED <<exec, outbox, dispatcher, queue, sent>>
           Inside == \E f : WithinAttempt(w, f)
<1>2. ASSUME worker[w].stage \in Claimed, Quiet,
             NEW f, Becomes(w, f), Continues(w, f), Acted(w) => ActedIn(f) \/ StoreFails(w),
             f.stage = "settle" /\ f.result = "queued" => worker[w].attempts < MaxAttempts
      PROVE  Inside
  BY <1>2 DEF WithinAttempt
<1>3. ASSUME worker[w].stage \in Claimed \ {"settle", "confirm"}, Quiet,
             NEW stage \in Claimed \ {"settle"}, GoTo(w, stage)
      PROVE  Inside
  <2>1. ~Acted(w)
    BY <1>3 DEF Acted
  <2>2. PICK f : Becomes(w, f) /\ Continues(w, f) /\ f.stage = stage
    BY <1>3, <2>1, GoesWithin
  <2> QED
    BY <1>2, <1>3, <2>1, <2>2
<1>4. ASSUME worker[w].stage \in Claimed \ {"settle", "confirm"}, Quiet,
             Retry(w) \/ GiveUp(w) \/ Unauthorized(w)
      PROVE  Inside
  <2>1. ~Acted(w)
    BY <1>4 DEF Acted
  <2>2. PICK f : /\ Becomes(w, f) /\ Continues(w, f)
                 /\ f.stage = "settle" /\ f.result = "queued" => worker[w].attempts < MaxAttempts
    BY <1>4, GivesUpWithin
  <2> QED
    BY <1>2, <1>4, <2>1, <2>2
<1>5. CASE Verify(w) \/ LoadCredentials(w)
  <2>1. \E stage \in {"credentials", "attach", "draft", "send"} : GoTo(w, stage)
    BY <1>5 DEF Verify, LoadCredentials
  <2>2. worker[w].stage \in {"verify", "credentials"} /\ Quiet
    BY <1>5 DEF Verify, LoadCredentials
  <2> QED
    BY <1>3, <2>1, <2>2 DEF Claimed
<1>6. CASE VerifyFails(w) \/ LoadCredentialsFails(w) \/ AttachFails(w) \/ CreateDraftFails(w)
           \/ SendDraftGone(w) \/ SendRefused(w) \/ Reauthorize(w)
  <2>1. Retry(w) \/ GiveUp(w) \/ Unauthorized(w)
    BY <1>6 DEF VerifyFails, LoadCredentialsFails, AttachFails, CreateDraftFails,
       SendDraftGone, SendRefused, Reauthorize
  <2>2. /\ worker[w].stage \in {"verify", "credentials", "attach", "draft", "send", "reauth"}
        /\ Quiet
    BY <1>6 DEF VerifyFails, LoadCredentialsFails, AttachFails, CreateDraftFails,
       SendDraftGone, SendRefused, Reauthorize
  <2> QED
    BY <1>4, <2>1, <2>2 DEF Claimed
<1>7. CASE CreateDraft(w)
  <2>1. worker[w].stage = "draft" /\ Quiet /\ GoTo(w, "checkpoint")
    BY <1>7 DEF CreateDraft
  <2> QED
    BY <1>3, <2>1 DEF Claimed
<1>8. CASE Confirm(w)
  <2>1. PICK result \in {"completed", "delivery_uncertain"} :
          Finish(w, result, worker[w].operation)
    BY <1>8 DEF Confirm
  <2>2. worker[w].stage = "confirm" /\ Quiet /\ result \in {"queued"} \cup Terminal
    BY <1>8 DEF Confirm, Terminal
  <2>3. PICK f : Becomes(w, f) /\ Continues(w, f) /\ f.stage = "settle" /\ f.result = result
    BY <1>1, <2>1, <2>2, FinishesWithin DEF Claimed
  <2> QED
    BY <1>2, <2>2, <2>3 DEF ActedIn, Claimed
<1>9. CASE Attach(w) \/ Checkpoint(w)
  <2>1. \A e \in Executions : /\ exec'[e].status = exec[e].status
                              /\ exec'[e].lease = exec[e].lease
                              /\ exec'[e].attempts = exec[e].attempts
    <3>1. CASE Attach(w)
      BY <1>1, <3>1 DEF Attach, UpdateOutput, storeVars, Row
    <3>2. CASE Checkpoint(w)
      BY <1>1, <3>2 DEF Checkpoint, UpdateCheckpoint, storeVars, Row
    <3> QED
      BY <1>9, <3>1, <3>2
  <2>2. /\ worker[w].stage \in {"attach", "checkpoint"}
        /\ UNCHANGED <<outbox, dispatcher, queue, sent>>
    BY <1>9 DEF Attach, UpdateOutput, Checkpoint, UpdateCheckpoint, storeVars
  <2>3. \E f : Becomes(w, f) /\ Continues(w, f) /\ f.stage \in {"draft", "send"}
    <3>1. ASSUME NEW stage \in {"draft", "send"}, NEW o \in Nat,
                 worker' = [worker EXCEPT ![w] = [worker[w] EXCEPT !.stage = stage, !.output = o]]
          PROVE  \E f : Becomes(w, f) /\ Continues(w, f) /\ f.stage \in {"draft", "send"}
      <4> DEFINE f == [worker[w] EXCEPT !.stage = stage, !.output = o]
      <4>1. /\ f.stage = stage /\ f.execution = worker[w].execution
            /\ f.message = worker[w].message /\ f.receipt = worker[w].receipt
            /\ f.attempts = worker[w].attempts /\ f \in Frame
        BY <1>1 DEF Frame, Claimed
      <4>2. worker' = [worker EXCEPT ![w] = f]
        BY <3>1
      <4> HIDE DEF f
      <4> QED
        BY <4>1, <4>2 DEF Becomes, Continues, Claimed
    <3>2. CASE Attach(w)
      <4> DEFINE o == IF worker[w].output = NoOutput THEN worker[w].attempts ELSE worker[w].output
                 stage == IF OutlookMail(worker[w].execution) /\ worker[w].operation = NoOperation
                          THEN "draft" ELSE "send"
      <4>1. worker' = [worker EXCEPT ![w] = [worker[w] EXCEPT !.stage = stage, !.output = o]]
        BY <3>2, Zenon DEF Attach
      <4>2. o \in Nat /\ stage \in {"draft", "send"}
        BY <1>1 DEF Frame
      <4> QED
        BY <3>1, <4>1, <4>2
    <3>3. CASE Checkpoint(w)
      <4> DEFINE f == [worker[w] EXCEPT !.stage = "send", !.operation = worker[w].attempts]
      <4>1. /\ f.stage = "send" /\ f.execution = worker[w].execution
            /\ f.message = worker[w].message /\ f.receipt = worker[w].receipt
            /\ f.attempts = worker[w].attempts /\ f \in Frame
        BY <1>1 DEF Frame, Claimed
      <4>2. worker' = [worker EXCEPT ![w] = f]
        BY <3>3, Zenon DEF Checkpoint
      <4> HIDE DEF f
      <4> QED
        BY <4>1, <4>2 DEF Becomes, Continues, Claimed
    <3> QED
      BY <1>9, <3>2, <3>3
  <2> QED
    BY <2>1, <2>2, <2>3 DEF WithinAttempt, Acted, Claimed
<1>10. CASE Send(w) \/ SendLost(w) \/ SendMisread(w)
  <2>1. /\ worker[w].stage = "send" /\ ~Acted(w)
        /\ UNCHANGED <<exec, outbox, dispatcher, queue>>
    BY <1>10 DEF Send, SendLost, SendMisread, Acted
  <2>2. \A e \in Executions \ {worker[w].execution} : sent'[e] = sent[e]
    <3>1. ASSUME NEW s, Leaves(w, s)
          PROVE  \A e \in Executions \ {worker[w].execution} : sent'[e] = sent[e]
      BY <1>1, <3>1 DEF Leaves
    <3>2. UNCHANGED sent \/ ProviderActs(w)
      BY <1>10 DEF Send, SendLost, SendMisread
    <3>3. UNCHANGED sent \/ \E s : Leaves(w, s)
      BY <3>2 DEF ProviderActs, SendDraft
    <3> QED
      BY <3>1, <3>3
  <2>3. ASSUME NEW f, Becomes(w, f), Continues(w, f), ActedIn(f) \/ SendMisread(w),
               f.stage = "settle" /\ f.result = "queued" => worker[w].attempts < MaxAttempts
        PROVE  Inside
    BY <2>1, <2>2, <2>3 DEF WithinAttempt, Claimed
  <2>4. ASSUME NEW result \in {"completed", "delivery_uncertain"}, NEW o \in Int,
               Finish(w, result, o)
        PROVE  Inside
    <3>1. result \in {"queued"} \cup Terminal
      BY DEF Terminal
    <3>2. PICK f : Becomes(w, f) /\ Continues(w, f) /\ f.stage = "settle" /\ f.result = result
      BY <2>1, <2>4, <3>1, FinishesWithin DEF Claimed
    <3> QED
      BY <2>3, <3>2 DEF ActedIn
  <2>5. CASE Send(w)
    <3>1. CASE OutlookMail(worker[w].execution)
      <4>1. GoTo(w, "confirm")
        BY <2>5, <3>1 DEF Send
      <4>2. PICK f : Becomes(w, f) /\ Continues(w, f) /\ f.stage = "confirm"
        BY <2>1, <4>1, GoesWithin DEF Claimed
      <4> QED
        BY <2>3, <4>2 DEF ActedIn
    <3>2. CASE ~OutlookMail(worker[w].execution)
      <4>1. PICK o \in Int : Finish(w, "completed", o)
        BY <1>1, <2>5, <3>2 DEF Send
      <4> QED
        BY <2>4, <4>1
    <3> QED
      BY <3>1, <3>2
  <2>6. CASE SendLost(w)
    <3>1. UncertainOperation(w) \in Int
      BY <1>1 DEF UncertainOperation
    <3> QED
      BY <2>4, <2>6, <3>1 DEF SendLost
  <2>7. CASE SendMisread(w)
    <3>1. PICK f : /\ Becomes(w, f) /\ Continues(w, f)
                   /\ f.stage = "settle" /\ f.result = "queued" => worker[w].attempts < MaxAttempts
      BY <2>1, <2>7, GivesUpWithin DEF SendMisread, Claimed
    <3> QED
      BY <2>3, <2>7, <3>1
  <2> QED
    BY <1>10, <2>5, <2>6, <2>7
<1>11. CASE StoreFails(w)
  <2>1. worker[w].stage \in Claimed /\ Quiet /\ Retry(w)
    BY <1>11 DEF StoreFails, Claimed
  <2>2. PICK f : /\ Becomes(w, f) /\ Continues(w, f)
                 /\ f.stage = "settle" /\ f.result = "queued" => worker[w].attempts < MaxAttempts
    BY <2>1, RetriesWithin
  <2> QED
    BY <1>2, <1>11, <2>1, <2>2
<1> QED
  BY <1>5, <1>6, <1>7, <1>8, <1>9, <1>10, <1>11 DEF Work

-----------------------------------------------------------------------------
(* Live workers                                                            *)

LEMMA WithinKeepsHeld ==
  ASSUME TypeInv, AttemptHeld, NEW w \in Workers, NEW f, WithinAttempt(w, f)
  PROVE  AttemptHeld'
<1>1. /\ worker'[w] = f
      /\ \A v \in Workers \ {w} : worker'[v] = worker[v]
      /\ \A v \in Workers : worker[v].stage \in Claimed => worker[v].execution \in Executions
  BY DEF WithinAttempt, Becomes, TypeInv, WorkerOK, Claimed
<1> QED
  BY <1>1, HolderGoesOn DEF WithinAttempt, Continues

(* The frames and rows after a claim or a settlement.                      *)
LEMMA ClaimMoves ==
  ASSUME TypeInv, NEW w \in Workers, Claim(w), NEW e, e = worker[w].execution
  PROVE  /\ worker[w].stage = "claim" /\ Claimable(e) /\ e \in Executions
         /\ worker'[w].stage = "verify"
         /\ worker'[w].execution = e
         /\ worker'[w].message = worker[w].message
         /\ worker'[w].receipt = worker[w].receipt
         /\ worker'[w].attempts = exec[e].attempts + 1
         /\ \A v \in Workers \ {w} : worker'[v] = worker[v]
         /\ exec'[e].status = "executing" /\ exec'[e].lease = "held"
         /\ exec'[e].attempts = exec[e].attempts + 1
         /\ \A x \in Executions \ {e} : exec'[x] = exec[x]
         /\ UNCHANGED <<dispatcher, queue, sent>>
<1> DEFINE f == [worker[w] EXCEPT !.stage = "verify",
                                  !.attempts = exec[e].attempts + 1,
                                  !.operation = exec[e].operation,
                                  !.output = exec[e].output]
           r == [exec[e] EXCEPT !.status = "executing",
                                !.attempts = exec[e].attempts + 1,
                                !.lease = "held"]
<1>1. /\ worker[w].stage = "claim" /\ Claimable(e) /\ e \in Executions
      /\ exec \in [Executions -> Row] /\ worker \in [Workers -> Frame]
  BY DEF Claim, ClaimExecution, TypeInv, TypeOK, StoreTypeOK, WorkerOK
<1>2. /\ worker' = [worker EXCEPT ![w] = f] /\ exec' = [exec EXCEPT ![e] = r]
      /\ UNCHANGED <<dispatcher, queue, sent>>
  BY Zenon DEF Claim, ClaimExecution
<1>3. /\ f.stage = "verify" /\ f.execution = e /\ f.message = worker[w].message
      /\ f.receipt = worker[w].receipt /\ f.attempts = exec[e].attempts + 1
  <2>1. worker[w] \in Frame
    BY <1>1
  <2> QED
    BY <2>1 DEF Frame
<1>4. r.status = "executing" /\ r.lease = "held" /\ r.attempts = exec[e].attempts + 1
  <2>1. exec[e] \in Row
    BY <1>1
  <2> QED
    BY <2>1 DEF Row
<1> HIDE DEF f, r
<1>5. /\ worker'[w] = f /\ \A v \in Workers \ {w} : worker'[v] = worker[v]
      /\ exec'[e] = r /\ \A x \in Executions \ {e} : exec'[x] = exec[x]
  BY <1>1, <1>2
<1> QED
  BY <1>1, <1>2, <1>3, <1>4, <1>5

LEMMA SettleMoves ==
  ASSUME TypeInv, AttemptHeld, NEW w \in Workers, Settle(w), NEW e, e = worker[w].execution
  PROVE  /\ worker[w].stage = "settle" /\ e \in Executions /\ Owns(w, e)
         /\ exec[e].status = "executing"
         /\ worker'[w].stage = "report"
         /\ worker'[w].execution = e
         /\ worker'[w].message = worker[w].message
         /\ worker'[w].receipt = worker[w].receipt
         /\ worker'[w].attempts = worker[w].attempts
         /\ \A v \in Workers \ {w} : worker'[v] = worker[v]
         /\ exec'[e].status = worker[w].result
         /\ worker[w].result \in {"queued"} \cup Terminal
         /\ exec'[e].attempts = exec[e].attempts
         /\ \A x \in Executions \ {e} : exec'[x] = exec[x]
         /\ UNCHANGED <<dispatcher, queue, sent>>
<1> DEFINE f == [worker[w] EXCEPT !.stage = "report"]
           o == IF worker[w].result \in {"completed", "delivery_uncertain"}
                THEN worker[w].operation ELSE exec[e].operation
           u == IF worker[w].result = "completed" /\ KindOf[e] = "pdf_form"
                THEN worker[w].output ELSE exec[e].output
           r == [exec[e] EXCEPT !.status = worker[w].result, !.lease = "none",
                                !.operation = o, !.output = u]
<1>1. /\ worker[w].stage = "settle" /\ e \in Executions
      /\ exec \in [Executions -> Row] /\ worker \in [Workers -> Frame]
      /\ worker[w].result # "none"
  BY DEF Settle, TypeInv, TypeOK, StoreTypeOK, WorkerOK
<1>2. Owns(w, e) /\ exec[e].status = "executing" /\ exec[e].attempts = worker[w].attempts
  BY <1>1 DEF AttemptHeld, NoStaleWorker, Owns, Claimed
<1>3. /\ worker' = [worker EXCEPT ![w] = f]
      /\ SettleExecution(e, worker[w].attempts, worker[w].result, o, u)
      /\ UNCHANGED <<dispatcher, queue, sent>>
  BY Zenon DEF Settle, GoTo
<1>4. exec' = [exec EXCEPT ![e] = r]
  BY <1>2, <1>3 DEF SettleExecution
<1>5. /\ f.stage = "report" /\ f.execution = e /\ f.message = worker[w].message
      /\ f.receipt = worker[w].receipt /\ f.attempts = worker[w].attempts
      /\ worker[w].result \in {"queued"} \cup Terminal
  <2>1. worker[w] \in Frame
    BY <1>1
  <2> QED
    BY <1>1, <2>1 DEF Frame
<1>6. r.status = worker[w].result /\ r.attempts = exec[e].attempts
  <2>1. exec[e] \in Row
    BY <1>1
  <2> QED
    BY <2>1 DEF Row
<1> HIDE DEF f, r, o, u
<1>7. /\ worker'[w] = f /\ \A v \in Workers \ {w} : worker'[v] = worker[v]
      /\ exec'[e] = r /\ \A x \in Executions \ {e} : exec'[x] = exec[x]
  BY <1>1, <1>3, <1>4
<1> QED
  BY <1>1, <1>2, <1>3, <1>5, <1>6, <1>7

LEMMA OutsideMoves ==
  ASSUME TypeInv, NEW w \in Workers,
         Delivery(w) \/ RunRoute(w) \/ ClaimRefused(w) \/ Report(w) \/ WorkerCrashes(w)
  PROVE  /\ worker'[w].stage \notin Claimed
         /\ \A v \in Workers \ {w} : worker'[v] = worker[v]
         /\ UNCHANGED <<exec, sent>>
<1>1. worker \in [Workers -> Frame] /\ worker[w] \in Frame
  BY DEF TypeInv, WorkerOK
<1>2. UNCHANGED <<exec, sent>>
  BY DEF Delivery, RunRoute, Receive, Run, ClaimRefused, Report, WorkerCrashes
<1>3. ASSUME NEW f, worker' = [worker EXCEPT ![w] = f], f.stage \in {"idle", "claim", "report"}
      PROVE  /\ worker'[w].stage \notin Claimed
             /\ \A v \in Workers \ {w} : worker'[v] = worker[v]
  BY <1>1, <1>3 DEF Claimed
<1>4. CASE Delivery(w) \/ RunRoute(w)
  <2>1. PICK x, m, r : Start(w, x, m, r)
    BY <1>4 DEF Delivery, RunRoute, Receive, Run
  <2> DEFINE f == [IdleFrame EXCEPT !.stage = "claim", !.execution = x,
                                    !.message = m, !.receipt = r]
  <2>2. worker' = [worker EXCEPT ![w] = f]
    BY <2>1 DEF Start
  <2>3. f.stage = "claim"
    BY IdleFrameType DEF Frame
  <2> HIDE DEF f
  <2> QED
    BY <1>2, <1>3, <2>2, <2>3
<1>5. CASE ClaimRefused(w)
  <2> DEFINE f == [worker[w] EXCEPT !.stage = "report"]
  <2>1. worker' = [worker EXCEPT ![w] = f]
    BY <1>5 DEF ClaimRefused, GoTo
  <2>2. f.stage = "report"
    BY <1>1 DEF Frame
  <2> HIDE DEF f
  <2> QED
    BY <1>2, <1>3, <2>1, <2>2
<1>6. CASE Report(w) \/ WorkerCrashes(w)
  <2>1. worker' = [worker EXCEPT ![w] = IdleFrame]
    BY <1>6 DEF Report, WorkerCrashes
  <2> QED
    BY <1>2, <1>3, <2>1, IdleFrameType
<1> QED
  BY <1>2, <1>4, <1>5, <1>6

LEMMA HeldStep ==
  ASSUME "slow" \notin Faults
  PROVE  TypeInv /\ AttemptHeld /\ [Next]_vars => AttemptHeld'
<1> SUFFICES ASSUME TypeInv, AttemptHeld, [Next]_vars PROVE AttemptHeld'
  OBVIOUS
<1>1. CASE UNCHANGED vars
  BY <1>1 DEF vars, AttemptHeld, NoStaleWorker
<1>2. CASE \/ Reviewer
           \/ Owner
           \/ Time
           \/ \E d \in Dispatchers : DispatcherCrashes(d) \/ Dispatch(d)
  <2>1. /\ UNCHANGED worker
        /\ \A w \in Workers : worker[w].stage \in Claimed =>
             exec'[worker[w].execution] = exec[worker[w].execution]
    BY <1>2, EnvironmentKeeps
  <2> QED
    BY <2>1 DEF AttemptHeld, NoStaleWorker
<1>3. ASSUME NEW w \in Workers, Claim(w)  PROVE AttemptHeld'
  <2>1. PICK e : e = worker[w].execution
    OBVIOUS
  <2>2. /\ Claimable(e)
        /\ worker'[w].execution = e
        /\ worker'[w].attempts = exec[e].attempts + 1
        /\ \A v \in Workers \ {w} : worker'[v] = worker[v]
        /\ exec'[e].status = "executing" /\ exec'[e].lease = "held"
        /\ exec'[e].attempts = exec[e].attempts + 1
        /\ \A x \in Executions \ {e} : exec'[x] = exec[x]
    BY <1>3, <2>1, ClaimMoves
  <2>3. \A v \in Workers : worker[v].stage \in Claimed =>
          worker[v].execution \in Executions \ {e}
    BY <2>2 DEF Claimable, AttemptHeld, NoStaleWorker, TypeInv, WorkerOK, Claimed
  <2> QED
    BY <2>2, <2>3 DEF AttemptHeld, NoStaleWorker
<1>4. ASSUME NEW w \in Workers, Settle(w)  PROVE AttemptHeld'
  <2>1. PICK e : e = worker[w].execution
    OBVIOUS
  <2>2. /\ worker[w].stage = "settle"
        /\ worker'[w].stage = "report"
        /\ \A v \in Workers \ {w} : worker'[v] = worker[v]
        /\ \A x \in Executions \ {e} : exec'[x] = exec[x]
    BY <1>4, <2>1, SettleMoves
  <2>3. \A v \in Workers \ {w} : worker[v].stage \in Claimed =>
          worker[v].execution \in Executions \ {e}
    BY <2>1, <2>2 DEF AttemptHeld, TypeInv, WorkerOK, Claimed
  <2> QED
    BY <2>2, <2>3 DEF AttemptHeld, NoStaleWorker, Claimed
<1>5. ASSUME NEW w \in Workers, Work(w)  PROVE AttemptHeld'
  BY <1>3, <1>4, <1>5, WorkSteps, WithinKeepsHeld, OutsideMoves, OutsiderMoves
<1>6. ASSUME NEW w \in Workers, Delivery(w) \/ RunRoute(w) \/ WorkerCrashes(w)
      PROVE  AttemptHeld'
  BY <1>6, OutsideMoves, OutsiderMoves
<1> QED
  BY <1>1, <1>2, <1>5, <1>6 DEF Next, Crash

LEMMA HeldInit == Init => AttemptHeld
  BY DEF Init, IdleFrame, AttemptHeld, NoStaleWorker, Claimed

(***************************************************************************)
(* Every worker inside an attempt holds the row's current attempt under a  *)
(* live lease, also of Gmail mails and whatever crashes: claim_execution   *)
(* takes no row whose lease is held, and a lease is found expired only     *)
(* after its worker has died.                                              *)
(***************************************************************************)
THEOREM LiveWorkersHoldTheirAttempt ==
  ASSUME "slow" \notin Faults
  PROVE  Spec => []NoStaleWorker
<1>1. TypeInv /\ AttemptHeld /\ [Next]_vars => AttemptHeld'
  BY HeldStep
<1>2. AttemptHeld => NoStaleWorker
  BY DEF AttemptHeld
<1> QED
  BY TypeInit, TypeStep, HeldInit, <1>1, <1>2, PTL DEF Spec

-----------------------------------------------------------------------------
(* Attempts                                                                *)

LEMMA EnvironmentStatuses ==
  ASSUME TypeInv, NEW e \in Executions,
         \/ Reviewer
         \/ Owner
         \/ Time
         \/ \E d \in Dispatchers : DispatcherCrashes(d) \/ Dispatch(d)
  PROVE  \/ exec'[e].status = exec[e].status
         \/ exec[e].status = "absent" /\ exec'[e].status = "pending_dispatch"
         \/ exec[e].status = "pending_dispatch" /\ exec'[e].status = "queued"
<1>1. exec \in [Executions -> Row]
  BY DEF TypeInv, TypeOK, StoreTypeOK
<1>2. CASE UNCHANGED exec
  BY <1>2
<1>3. ASSUME NEW x \in Executions, ApproveProposal(x) \/ MarkDispatched(x) \/ LeaseExpires(x)
      PROVE  \/ exec'[e].status = exec[e].status
             \/ exec[e].status = "absent" /\ exec'[e].status = "pending_dispatch"
             \/ exec[e].status = "pending_dispatch" /\ exec'[e].status = "queued"
  BY <1>1, <1>3 DEF ApproveProposal, MarkDispatched, LeaseExpires, Row
<1>4. CASE Reviewer \/ Owner \/ Time
  BY <1>2, <1>3, <1>4 DEF Reviewer, Owner, Time, Approve, Disconnect, Reconnect,
     VisibilityExpires
<1>5. ASSUME NEW d \in Dispatchers, DispatcherCrashes(d) \/ Dispatch(d)
      PROVE  UNCHANGED exec \/ \E x \in Executions : MarkDispatched(x)
  <2>1. dispatcher[d].current # Nobody => dispatcher[d].current \in Executions
    BY DEF TypeInv, TypeOK
  <2> QED
    BY <1>5, <2>1 DEF DispatcherCrashes, Dispatch, ListDispatchable, Enqueue, EnqueueFails, Mark
<1> QED
  BY <1>2, <1>3, <1>4, <1>5

(* A worker not yet or no longer inside an attempt.                        *)
LEMMA OutsideStages ==
  ASSUME NEW w, Delivery(w) \/ RunRoute(w) \/ ClaimRefused(w) \/ Report(w)
  PROVE  worker[w].stage \in {"idle", "claim", "report"}
  BY DEF Delivery, RunRoute, Receive, Run, ClaimRefused, Report

(* What can be claimed has nobody working on it.                           *)
LEMMA ClaimableIsFree ==
  ASSUME AttemptsInv, NEW e \in Executions, Claimable(e)
  PROVE  /\ exec[e].status \in {"pending_dispatch", "queued"}
         /\ \A w \in Workers : ~Owns(w, e)
  BY DEF AttemptsInv, Attended, AttemptHeld, NoStaleWorker, Owns, Claimable

LEMMA AttemptsInit == Init => AttemptsInv
<1> SUFFICES ASSUME Init PROVE AttemptsInv
  OBVIOUS
<1>1. \A e \in Executions : exec[e].status = "absent" /\ exec[e].attempts = 0
  BY Zenon DEF Init, StoreInit, AbsentRow
<1>2. \A w \in Workers : worker[w] = IdleFrame
  BY DEF Init
<1>3. \A w \in Workers : Settling(w)
  BY <1>2, IdleFrameType DEF Settling, Claimed
<1> QED
  BY <1>1, <1>3, HeldInit, LimitsAssumption DEF AttemptsInv, Attended, AttemptsWithinLimit

LEMMA AttemptsStep ==
  ASSUME "slow" \notin Faults, "worker_crash" \notin Faults, "store" \notin Faults
  PROVE  TypeInv /\ AttemptsInv /\ [Next]_vars => AttemptsInv'
<1> SUFFICES ASSUME TypeInv, AttemptsInv, [Next]_vars PROVE AttemptsInv'
  OBVIOUS
<1>1. /\ AttemptHeld /\ AttemptHeld'
      /\ exec \in [Executions -> Row]
      /\ \A e \in Executions : exec[e].attempts \in Nat
      /\ MaxAttempts \in Nat \ {0}
  BY HeldStep, LimitsAssumption DEF AttemptsInv, TypeInv, TypeOK, StoreTypeOK, Row
<1> DEFINE Rest == /\ AttemptsWithinLimit'
                   /\ \A e \in Executions : Attended(e)'
                   /\ \A w \in Workers : Settling(w)'
<1>2. CASE UNCHANGED vars
  BY <1>2 DEF vars, AttemptsInv, AttemptsWithinLimit, Attended, Settling, Owns,
     AttemptHeld, NoStaleWorker
<1>3. CASE \/ Reviewer
           \/ Owner
           \/ Time
           \/ \E d \in Dispatchers : DispatcherCrashes(d) \/ Dispatch(d)
  <2>1. UNCHANGED worker /\ \A e \in Executions : exec'[e].attempts = exec[e].attempts
    BY <1>1, <1>3, EnvironmentKeeps
  <2>2. \A e \in Executions : Attended(e)'
    BY <1>3, <2>1, EnvironmentStatuses DEF AttemptsInv, Attended, Owns
  <2> QED
    BY <1>1, <2>1, <2>2 DEF AttemptsInv, AttemptsWithinLimit, Settling
<1>4. ASSUME NEW w \in Workers, Delivery(w) \/ RunRoute(w) \/ ClaimRefused(w) \/ Report(w)
      PROVE  Rest
  <2>1. /\ worker[w].stage \notin Claimed /\ worker'[w].stage \notin Claimed
        /\ \A v \in Workers \ {w} : worker'[v] = worker[v]
        /\ UNCHANGED exec
    BY <1>4, OutsideMoves, OutsideStages DEF Claimed
  <2>2. \A e \in Executions : Attended(e)'
    BY <2>1 DEF AttemptsInv, Attended, Owns
  <2>3. \A v \in Workers : Settling(v)'
    BY <2>1 DEF AttemptsInv, Settling, Claimed
  <2> QED
    BY <2>1, <2>2, <2>3 DEF AttemptsInv, AttemptsWithinLimit
<1>5. ASSUME NEW w \in Workers, Claim(w)  PROVE Rest
  <2>1. PICK e : e = worker[w].execution
    OBVIOUS
  <2>2. /\ worker[w].stage = "claim" /\ Claimable(e) /\ e \in Executions
        /\ worker'[w].stage = "verify"
        /\ worker'[w].execution = e
        /\ worker'[w].attempts = exec[e].attempts + 1
        /\ \A v \in Workers \ {w} : worker'[v] = worker[v]
        /\ exec'[e].status = "executing"
        /\ exec'[e].attempts = exec[e].attempts + 1
        /\ \A x \in Executions \ {e} : exec'[x] = exec[x]
    BY <1>5, <2>1, ClaimMoves
  <2>3. exec[e].attempts < MaxAttempts
    BY <2>2, ClaimableIsFree DEF AttemptsInv, Attended
  <2>4. AttemptsWithinLimit'
    BY <1>1, <2>2, <2>3 DEF AttemptsInv, AttemptsWithinLimit
  <2>5. \A x \in Executions \ {e} : Attended(x)'
    BY <2>2 DEF AttemptsInv, Attended, Owns, Claimed
  <2>6. Attended(e)'
    BY <2>2 DEF Attended, Owns, Claimed
  <2>7. \A v \in Workers : Settling(v)'
    BY <1>1, <2>2 DEF AttemptsInv, Settling
  <2> QED
    BY <2>4, <2>5, <2>6, <2>7
<1>6. ASSUME NEW w \in Workers, Settle(w)  PROVE Rest
  <2>1. PICK e : e = worker[w].execution
    OBVIOUS
  <2>2. /\ worker[w].stage = "settle" /\ e \in Executions /\ Owns(w, e)
        /\ worker'[w].stage = "report"
        /\ \A v \in Workers \ {w} : worker'[v] = worker[v]
        /\ exec'[e].status = worker[w].result
        /\ worker[w].result \in {"queued"} \cup Terminal
        /\ exec'[e].attempts = exec[e].attempts
        /\ \A x \in Executions \ {e} : exec'[x] = exec[x]
    BY <1>1, <1>6, <2>1, SettleMoves
  <2>3. AttemptsWithinLimit'
    BY <2>2 DEF AttemptsInv, AttemptsWithinLimit
  <2>4. \A x \in Executions \ {e} : Attended(x)'
    BY <2>1, <2>2 DEF AttemptsInv, Attended, Owns
  <2>5. Attended(e)'
    BY <2>2 DEF AttemptsInv, Attended, Settling, Owns, Terminal
  <2>6. \A v \in Workers : Settling(v)'
    BY <2>2 DEF AttemptsInv, Settling, Claimed
  <2> QED
    BY <2>3, <2>4, <2>5, <2>6
<1>7. ASSUME NEW w \in Workers, NEW f, WithinAttempt(w, f)  PROVE Rest
  <2>1. /\ worker'[w] = f
        /\ \A v \in Workers \ {w} : worker'[v] = worker[v]
        /\ worker[w].stage \in Claimed /\ f.stage \in Claimed
        /\ f.execution = worker[w].execution /\ f.attempts = worker[w].attempts
        /\ f.stage = "settle" /\ f.result = "queued" => worker[w].attempts < MaxAttempts
        /\ \A e \in Executions : /\ exec'[e].status = exec[e].status
                                 /\ exec'[e].attempts = exec[e].attempts
    BY <1>7 DEF WithinAttempt, Becomes, Continues, TypeInv, WorkerOK
  <2>2. \A e \in Executions : \A v \in Workers : Owns(v, e) => Owns(v, e)'
    BY <2>1 DEF Owns
  <2>3. \A e \in Executions : Attended(e)'
    BY <2>1, <2>2 DEF AttemptsInv, Attended
  <2>4. \A v \in Workers : Settling(v)'
    BY <2>1 DEF AttemptsInv, Settling
  <2> QED
    BY <2>1, <2>3, <2>4 DEF AttemptsInv, AttemptsWithinLimit
<1>8. ASSUME NEW w \in Workers, Delivery(w) \/ RunRoute(w) \/ Work(w) \/ WorkerCrashes(w)
      PROVE  Rest
  BY <1>4, <1>5, <1>6, <1>7, <1>8, WorkSteps DEF WorkerCrashes, StoreRaises
<1> QED
  BY <1>1, <1>2, <1>3, <1>8 DEF Next, Crash, AttemptsInv

(***************************************************************************)
(* MAX_ATTEMPTS bounds the attempts, although claim_execution does not     *)
(* look at it, as long as every attempt that begins is also settled: a row *)
(* goes back to the queue only while there are attempts left. Attempts     *)
(* that end in a crash, or in a settlement the database refuses, are not   *)
(* counted against the limit by anyone, hence the hypotheses.              *)
(***************************************************************************)
THEOREM AttemptsAreLimited ==
  ASSUME "slow" \notin Faults, "worker_crash" \notin Faults, "store" \notin Faults
  PROVE  Spec => []AttemptsWithinLimit
<1>1. TypeInv /\ AttemptsInv /\ [Next]_vars => AttemptsInv'
  BY AttemptsStep
<1>2. AttemptsInv => AttemptsWithinLimit
  BY DEF AttemptsInv
<1> QED
  BY TypeInit, TypeStep, AttemptsInit, <1>1, <1>2, PTL DEF Spec

-----------------------------------------------------------------------------
(* Retries                                                                 *)

LEMMA EffectsStep ==
  ASSUME "slow" \notin Faults, "worker_crash" \notin Faults, "store" \notin Faults,
         "gateway" \notin Faults, "malformed" \in Faults => \A e \in Executions : ~ReadsAnswer(e)
  PROVE  TypeInv /\ EffectsInv /\ [Next]_vars => EffectsInv'
<1> SUFFICES ASSUME TypeInv, EffectsInv, [Next]_vars,
                    NEW e \in Executions, sent'[e] # {}
             PROVE  \/ exec'[e].status \in {"completed", "delivery_uncertain"}
                    \/ \E w \in Workers : Owns(w, e)' /\ Acted(w)'
  BY AttemptsStep DEF EffectsInv, EffectKnown
<1> DEFINE Known == \/ exec'[e].status \in {"completed", "delivery_uncertain"}
                    \/ \E w \in Workers : Owns(w, e)' /\ Acted(w)'
<1>1. AttemptsInv /\ AttemptHeld /\ EffectKnown(e)
  BY DEF EffectsInv, AttemptsInv
<1>2. CASE UNCHANGED vars
  BY <1>1, <1>2 DEF vars, EffectKnown, Owns, Acted
<1>3. CASE \/ Reviewer
           \/ Owner
           \/ Time
           \/ \E d \in Dispatchers : DispatcherCrashes(d) \/ Dispatch(d)
  <2>1. UNCHANGED <<worker, sent>> /\ exec'[e].attempts = exec[e].attempts
    BY <1>1, <1>3, EnvironmentKeeps
  <2> QED
    BY <1>1, <1>3, <2>1, EnvironmentStatuses DEF EffectKnown, Owns, Acted
<1>4. ASSUME NEW w \in Workers, Delivery(w) \/ RunRoute(w) \/ ClaimRefused(w) \/ Report(w)
      PROVE  Known
  <2>1. /\ worker[w].stage \notin Claimed
        /\ \A v \in Workers \ {w} : worker'[v] = worker[v]
        /\ UNCHANGED <<exec, sent>>
    BY <1>4, OutsideMoves, OutsideStages DEF Claimed
  <2> QED
    BY <1>1, <2>1 DEF EffectKnown, Owns, Acted
<1>5. ASSUME NEW w \in Workers, Claim(w)  PROVE Known
  <2>1. PICK x : x = worker[w].execution
    OBVIOUS
  <2>2. /\ worker[w].stage = "claim" /\ Claimable(x) /\ x \in Executions
        /\ \A v \in Workers \ {w} : worker'[v] = worker[v]
        /\ \A y \in Executions \ {x} : exec'[y] = exec[y]
        /\ UNCHANGED sent
    BY <1>5, <2>1, ClaimMoves
  <2>3. x # e
    BY <1>1, <2>2, ClaimableIsFree DEF EffectKnown
  <2> QED
    BY <1>1, <2>2, <2>3 DEF EffectKnown, Owns, Acted, Claimed
<1>6. ASSUME NEW w \in Workers, Settle(w)  PROVE Known
  <2>1. PICK x : x = worker[w].execution
    OBVIOUS
  <2>2. /\ worker[w].stage = "settle" /\ x \in Executions /\ Owns(w, x)
        /\ exec[x].status = "executing"
        /\ \A v \in Workers \ {w} : worker'[v] = worker[v]
        /\ exec'[x].status = worker[w].result
        /\ \A y \in Executions \ {x} : exec'[y] = exec[y]
        /\ UNCHANGED sent
    BY <1>1, <1>6, <2>1, SettleMoves
  <2>3. CASE x = e
    <3>1. PICK v \in Workers : Owns(v, e) /\ Acted(v)
      BY <1>1, <2>2, <2>3 DEF EffectKnown
    <3>2. v = w
      BY <1>1, <2>2, <2>3, <3>1 DEF AttemptHeld, Owns
    <3> QED
      BY <2>2, <2>3, <3>1, <3>2 DEF Acted
  <2>4. CASE x # e
    BY <1>1, <2>1, <2>2, <2>4 DEF EffectKnown, Owns, Acted
  <2> QED
    BY <2>3, <2>4
<1>7. ASSUME NEW w \in Workers, NEW f, WithinAttempt(w, f)  PROVE Known
  <2>1. PICK x : x = worker[w].execution
    OBVIOUS
  <2>2. /\ worker'[w] = f
        /\ \A v \in Workers \ {w} : worker'[v] = worker[v]
        /\ worker[w].stage \in Claimed /\ f.stage \in Claimed
        /\ f.execution = x /\ f.attempts = worker[w].attempts
        /\ Acted(w) => Acted(w)'
        /\ \A y \in Executions : /\ exec'[y].status = exec[y].status
                                 /\ exec'[y].attempts = exec[y].attempts
    BY <1>7, <2>1 DEF WithinAttempt, Becomes, Continues, StoreFails, TypeInv, WorkerOK, Acted, ActedIn
  <2>3. /\ x \in Executions /\ Owns(w, x) /\ Owns(w, x)'
        /\ exec[x].status = "executing"
    BY <1>1, <2>1, <2>2 DEF TypeInv, WorkerOK, Claimed, AttemptHeld, NoStaleWorker, Owns
  <2>4. CASE x # e
    <3>1. sent'[e] = sent[e]
      BY <1>7, <2>1, <2>4 DEF WithinAttempt
    <3> QED
      BY <1>1, <2>1, <2>2, <2>4, <3>1 DEF EffectKnown, Owns, Acted
  <2>5. CASE x = e
    <3>1. ASSUME sent[e] # {}  PROVE Acted(w)
      <4>1. PICK v \in Workers : Owns(v, e) /\ Acted(v)
        BY <1>1, <2>3, <2>5, <3>1 DEF EffectKnown
      <4>2. v = w
        BY <1>1, <2>3, <2>5, <4>1 DEF AttemptHeld, Owns
      <4> QED
        BY <4>1, <4>2
    <3>2. CASE sent[e] # {}
      BY <2>2, <2>3, <2>5, <3>1, <3>2
    <3>3. CASE sent[e] = {}
      <4>1. ~SendMisread(w)
        BY <2>1, <2>5, <3>3 DEF SendMisread
      <4>2. ActedIn(f)
        BY <1>7, <3>3, <4>1 DEF WithinAttempt
      <4> QED
        BY <2>2, <2>3, <2>5, <4>2 DEF Acted, ActedIn
    <3> QED
      BY <3>2, <3>3
  <2> QED
    BY <2>4, <2>5
<1>8. ASSUME NEW w \in Workers, Delivery(w) \/ RunRoute(w) \/ Work(w) \/ WorkerCrashes(w)
      PROVE  Known
  BY <1>4, <1>5, <1>6, <1>7, <1>8, WorkSteps DEF WorkerCrashes, StoreRaises
<1> QED
  BY <1>2, <1>3, <1>8 DEF Next, Crash

(***************************************************************************)
(* "Retries are limited to pre-side-effect failures", and "failed" is said *)
(* only of an action that did not happen, whatever is refused, lost,       *)
(* disconnected, duplicated or dropped on the way: a lost answer settles   *)
(* as delivery_uncertain. The hypotheses are the exceptions: answers that  *)
(* are read and cannot be parsed, 5xx answers after the fact, workers that *)
(* crash or outlive their lease after the provider has acted, and a        *)
(* database that refuses the settlement of what was carried out, which     *)
(* execute_command takes for a failure of the attempt                      *)
(* (execution_unsettled).                                                  *)
(***************************************************************************)
THEOREM RetriesPrecedeEffects ==
  ASSUME "slow" \notin Faults, "worker_crash" \notin Faults, "store" \notin Faults,
         "gateway" \notin Faults, "malformed" \in Faults => \A e \in Executions : ~ReadsAnswer(e)
  PROVE  Spec => []RetryOnlyBeforeEffect
<1>1. Init => EffectsInv
  BY AttemptsInit DEF Init, EffectsInv, EffectKnown
<1>2. TypeInv /\ EffectsInv /\ [Next]_vars => EffectsInv'
  BY EffectsStep
<1>3. EffectsInv => RetryOnlyBeforeEffect
  BY DEF EffectsInv, EffectKnown, RetryOnlyBeforeEffect, AttemptsInv, AttemptHeld,
     NoStaleWorker, Owns
<1> QED
  BY TypeInit, TypeStep, <1>1, <1>2, <1>3, PTL DEF Spec

(***************************************************************************)
(* The worker that makes the irreversible call is the first to have an     *)
(* effect: who had one before it would still hold the attempt.             *)
(***************************************************************************)
LEMMA FirstEffect ==
  ASSUME TypeInv, EffectsInv, [Next]_vars, SingleDelivery
  PROVE  SingleDelivery'
<1>1. AttemptHeld
  BY DEF EffectsInv, AttemptsInv
<1>2. CASE UNCHANGED sent
  BY <1>2 DEF SingleDelivery
<1>3. CASE ~UNCHANGED sent
  <2>1. PICK w \in Workers, e \in Executions, s \in Effect :
          /\ worker[w].stage = "send"
          /\ worker[w].execution = e
          /\ exec[e].status = "executing"
          /\ sent' = [sent EXCEPT ![e] = sent[e] \cup {s}]
    BY <1>1, <1>3, SentSteps
  <2>2. sent[e] = {}
    <3>1. ASSUME NEW v \in Workers, Owns(v, e), Acted(v)  PROVE FALSE
      BY <1>1, <2>1, <3>1 DEF AttemptHeld, Owns, Acted, Claimed
    <3> QED
      BY <2>1, <3>1 DEF EffectsInv, EffectKnown
  <2>3. sent'[e] = {s} /\ \A x \in Executions \ {e} : sent'[x] = sent[x]
    BY <2>1, <2>2 DEF TypeInv, TypeOK
  <2> QED
    BY <2>3 DEF SingleDelivery
<1> QED
  BY <1>2, <1>3

(***************************************************************************)
(* The promise of ApprovedAction for Gmail mail too, whose send the        *)
(* provider does not deduplicate: where retries precede effects, every     *)
(* action is carried out at most once, while it is open, and is reported   *)
(* as completed only if it was. Lost answers, refusals, duplicate commands *)
(* and disconnects are covered; the hypotheses name the faults that are    *)
(* not (execution_resend and execution_unsettled show a Gmail mail that is *)
(* sent again, or put back to be, after it left).                          *)
(***************************************************************************)
THEOREM PromiseKeptByRetries ==
  ASSUME "slow" \notin Faults, "worker_crash" \notin Faults, "store" \notin Faults,
         "gateway" \notin Faults, "malformed" \in Faults => \A e \in Executions : ~ReadsAnswer(e)
  PROVE  Spec => KeepsPromise /\ []SingleDelivery
<1> DEFINE Inv == EffectsInv /\ FormsInv /\ SingleDelivery
<1>1. Init => Inv
  BY AttemptsInit, FormsInit DEF Init, EffectsInv, EffectKnown, SingleDelivery
<1>2. TypeInv /\ Inv /\ [Next]_vars => Inv'
  BY EffectsStep, FormsStep, FirstEffect
<1>3. TypeInv /\ Inv /\ [Next]_vars => [Promise!Next]_<<OutcomeMap, DeliveryMap>>
  <2> SUFFICES ASSUME TypeInv, Inv, [Next]_vars
               PROVE  [Promise!Next]_<<OutcomeMap, DeliveryMap>>
    OBVIOUS
  <2>1. SingleDelivery'
    BY FirstEffect
  <2>2. \A w \in Workers : CompletesWhatItSent(w)
    BY DEF FormsInv, CompletedInv, FramesDeliver, Delivers, CompletesWhatItSent, Claimed
  <2>3. AttemptHeld
    BY DEF FormsInv, DeliveryInv
  <2> QED
    BY <2>1, <2>2, <2>3, AbstractStep
<1> QED
  BY TypeInit, TypeStep, AbstractInit, <1>1, <1>2, <1>3, PTL
  DEF Spec, KeepsPromise, Promise!Spec, OutcomeMap, DeliveryMap, Outcome

-----------------------------------------------------------------------------
(* Commands                                                                *)

(* What a busy worker holds.                                               *)
LEMMA Carried ==
  ASSUME CommandsInv, NEW w \in Workers, worker[w].stage # "idle"
  PROVE  /\ worker[w].message \in Messages
         /\ worker[w].message[1] = worker[w].execution
         /\ queue[worker[w].message].state = "inflight"
         /\ queue[worker[w].message].receives = worker[w].receipt
<1>1. Carries(w)
  BY DEF CommandsInv, Commands
<1> QED
  BY <1>1 DEF Carries

(* Only one worker at a time is busy with an execution.                    *)
LEMMA BusyAlone ==
  ASSUME TypeInv, CommandsInv, NEW v \in Workers, NEW w \in Workers,
         worker[v].stage # "idle", worker[w].stage # "idle",
         worker[v].execution = worker[w].execution
  PROVE  v = w
<1>1. /\ worker[v].message \in Messages /\ worker[w].message \in Messages
      /\ worker[v].message[1] = worker[w].message[1]
      /\ queue[worker[v].message].state = "inflight"
      /\ queue[worker[w].message].state = "inflight"
  BY Carried
<1>2. worker[v].message = worker[w].message
  BY <1>1 DEF CommandsInv, Commands, Alone
<1> QED
  BY <1>2 DEF CommandsInv, Commands, Alone

(* A message in flight whose row is being executed is the one its worker   *)
(* carries.                                                                *)
LEMMA ExecutingIsHandled ==
  ASSUME TypeInv, CommandsInv, NEW m \in Messages, queue[m].state = "inflight",
         exec[m[1]].status = "executing"
  PROVE  \E w \in Workers : worker[w].message = m /\ worker[w].stage # "idle"
<1>1. m[1] \in Executions
  BY DEF Messages
<1>2. PICK w \in Workers : Owns(w, m[1])
  BY <1>1 DEF CommandsInv, AttemptsInv, Attended
<1>3. worker[w].stage # "idle" /\ worker[w].execution = m[1]
  BY <1>2 DEF Owns, Claimed
<1>4. /\ worker[w].message \in Messages /\ worker[w].message[1] = m[1]
      /\ queue[worker[w].message].state = "inflight"
  BY <1>3, Carried
<1> QED
  BY <1>3, <1>4 DEF CommandsInv, Commands, Alone

(***************************************************************************)
(* Rows go on, queue and workers stay: what the reviewer, the owner, the   *)
(* dispatchers' other steps and time do.                                   *)
(***************************************************************************)
LEMMA RowsGoOn ==
  ASSUME TypeInv, CommandsInv, UNCHANGED <<worker, queue>>,
         \A e \in Executions :
           /\ exec'[e].attempts = exec[e].attempts
           /\ \/ exec'[e].status = exec[e].status
              \/ exec[e].status = "absent" /\ exec'[e].status = "pending_dispatch"
              \/ /\ exec[e].status = "pending_dispatch"
                 /\ exec'[e].status = "queued"
                 /\ Announced(e)
  PROVE  /\ \A w \in Workers : Carries(w)'
         /\ Alone'
         /\ \A m \in Messages : Delivered(m)'
         /\ \A e \in Executions : Awaited(e)'
<1>1. \A e \in Executions : Announced(e)' = Announced(e)
  BY DEF Announced
<1>2. ASSUME NEW w \in Workers  PROVE Carries(w)'
  <2>1. worker[w].stage # "idle" => worker[w].execution \in Executions
    BY DEF TypeInv, WorkerOK
  <2>2. Carries(w)
    BY DEF CommandsInv, Commands
  <2> QED
    BY <2>1, <2>2 DEF Carries, Terminal
<1>3. ASSUME NEW m \in Messages  PROVE Delivered(m)'
  <2>1. m[1] \in Executions /\ Delivered(m)
    BY DEF Messages, CommandsInv, Commands
  <2> QED
    BY <2>1 DEF Delivered, Open, Terminal
<1>4. Alone'
  BY DEF CommandsInv, Commands, Alone
<1>5. \A e \in Executions : Awaited(e)'
  BY <1>1 DEF CommandsInv, Commands, Awaited
<1> QED
  BY <1>2, <1>3, <1>4, <1>5

LEMMA DispatchersGoOn ==
  ASSUME TypeInv, CommandsInv, UNCHANGED dispatcher,
         \A e \in Executions :
           /\ exec[e].status # "absent" => exec'[e].status # "absent"
           /\ Announced(e) => Announced(e)'
  PROVE  \A d \in Dispatchers : Dispatching(d)'
<1> SUFFICES ASSUME NEW d \in Dispatchers PROVE Dispatching(d)'
  OBVIOUS
<1>1. /\ dispatcher[d].todo \subseteq Executions
      /\ dispatcher[d].current \in Executions \cup {Nobody}
  BY DEF TypeInv, TypeOK
<1>2. Dispatching(d)
  BY DEF CommandsInv, Commands
<1> QED
  BY <1>1, <1>2 DEF Dispatching

LEMMA EnvironmentKeepsCommands ==
  ASSUME TypeInv, CommandsInv, "slow" \notin Faults,
         Reviewer \/ Owner \/ \E e \in Executions : LeaseExpires(e)
  PROVE  Commands'
<1>1. exec \in [Executions -> Row]
  BY DEF TypeInv, TypeOK, StoreTypeOK
<1>2. /\ UNCHANGED <<worker, queue, dispatcher>>
      /\ \A e \in Executions :
           /\ exec'[e].attempts = exec[e].attempts
           /\ \/ exec'[e].status = exec[e].status
              \/ exec[e].status = "absent" /\ exec'[e].status = "pending_dispatch"
  <2>1. CASE Reviewer
    BY <1>1, <2>1 DEF Reviewer, Approve, ApproveProposal, Row
  <2>2. CASE Owner
    BY <2>2 DEF Owner, Disconnect, Reconnect
  <2>3. CASE \E e \in Executions : LeaseExpires(e)
    BY <1>1, <2>3 DEF LeaseExpires, Row
  <2> QED
    BY <2>1, <2>2, <2>3
<1>3. \A e \in Executions : /\ exec[e].status # "absent" => exec'[e].status # "absent"
                            /\ Announced(e) => Announced(e)'
  BY <1>2 DEF Announced
<1> QED
  BY <1>2, <1>3, RowsGoOn, DispatchersGoOn DEF Commands

LEMMA VisibilityKeepsCommands ==
  ASSUME TypeInv, CommandsInv, "slow" \notin Faults, MaxAttempts <= MaxReceives,
         NEW m \in Messages, VisibilityExpires(m)
  PROVE  Commands'
<1> DEFINE state == IF queue[m].receives >= MaxReceives THEN "dead" ELSE "visible"
<1>1. /\ queue \in [Messages ->
           [state    : {"unsent", "visible", "inflight", "deleted", "dead"},
            receives : Nat]]
      /\ m[1] \in Executions /\ exec[m[1]].attempts \in Nat
      /\ MaxAttempts \in Nat /\ MaxReceives \in Nat
  BY LimitsAssumption DEF Messages, TypeInv, TypeOK, StoreTypeOK, Row
<1>2. /\ queue[m].state = "inflight" /\ ~Handled(m)
      /\ queue' = [queue EXCEPT ![m].state = state]
      /\ UNCHANGED <<exec, dispatcher, worker>>
  BY DEF VisibilityExpires
<1>3. /\ queue'[m].state = state /\ queue'[m].receives = queue[m].receives
      /\ \A n \in Messages \ {m} : queue'[n] = queue[n]
  BY <1>1, <1>2
<1>4. \A w \in Workers : worker[w].stage # "idle" => worker[w].message # m
  BY <1>2, Carried DEF Handled
<1>5. exec[m[1]].status \in Open => state = "visible"
  <2>1. SUFFICES ASSUME exec[m[1]].status \in Open PROVE queue[m].receives < MaxReceives
    BY <1>1
  <2>2. exec[m[1]].status # "executing"
    BY <1>2, <1>4, ExecutingIsHandled
  <2>3. exec[m[1]].attempts < MaxAttempts
    BY <1>1, <2>1, <2>2 DEF CommandsInv, AttemptsInv, Attended, Open
  <2>4. queue[m].receives <= exec[m[1]].attempts
    BY <1>4, <2>1 DEF CommandsInv, Commands, Delivered, Open, Terminal
  <2> QED
    BY <1>1, <2>3, <2>4
<1> HIDE DEF state
<1>6. state \in {"visible", "dead"}
  BY DEF state
<1>7. \A e \in Executions : Announced(e) => Announced(e)'
  BY <1>3, <1>6 DEF Announced
<1>8. \A w \in Workers : Carries(w)'
  BY <1>2, <1>3, <1>4 DEF CommandsInv, Commands, Carries
<1>9. Alone'
  BY <1>2, <1>3, <1>6 DEF CommandsInv, Commands, Alone
<1>10. ASSUME NEW n \in Messages  PROVE Delivered(n)'
  <2>1. Delivered(n)
    BY DEF CommandsInv, Commands
  <2>2. CASE n = m
    BY <1>2, <1>3, <1>5, <1>6, <2>1, <2>2 DEF Delivered
  <2>3. CASE n # m
    BY <1>2, <1>3, <2>1, <2>3 DEF Delivered
  <2> QED
    BY <2>2, <2>3
<1>11. \A e \in Executions : Awaited(e)'
  BY <1>2, <1>7 DEF CommandsInv, Commands, Awaited
<1>12. \A d \in Dispatchers : Dispatching(d)'
  BY <1>2, <1>7, DispatchersGoOn
<1> QED
  BY <1>8, <1>9, <1>10, <1>11, <1>12 DEF Commands

LEMMA DispatchKeepsCommands ==
  ASSUME TypeInv, CommandsInv, NEW d \in Dispatchers, Dispatch(d) \/ DispatcherCrashes(d)
  PROVE  Commands'
<1>1. /\ exec \in [Executions -> Row]
      /\ queue \in [Messages ->
           [state    : {"unsent", "visible", "inflight", "deleted", "dead"},
            receives : Nat]]
      /\ dispatcher \in [Dispatchers -> [todo    : SUBSET Executions,
                                         current : Executions \cup {Nobody}]]
      /\ Nobody \notin Executions
  BY ExecutionsAssumption DEF TypeInv, TypeOK, StoreTypeOK
<1>2. Dispatching(d) /\ \A c \in Dispatchers : Dispatching(c)
  BY DEF CommandsInv, Commands
<1>3. ASSUME NEW r, dispatcher' = [dispatcher EXCEPT ![d] = r],
             r.todo \subseteq dispatcher[d].todo \cup Dispatchable,
             r.current # Nobody => /\ exec[r.current].status # "absent"
                                   /\ Announced(r.current)'
                                   /\ r.current \in Executions,
             \A e \in Executions :
               /\ exec[e].status # "absent" => exec'[e].status # "absent"
               /\ Announced(e) => Announced(e)'
      PROVE  \A c \in Dispatchers : Dispatching(c)'
  <2> SUFFICES ASSUME NEW c \in Dispatchers PROVE Dispatching(c)'
    OBVIOUS
  <2>1. /\ dispatcher[c].todo \subseteq Executions
        /\ dispatcher[c].current \in Executions \cup {Nobody}
        /\ Dispatchable \subseteq Executions
        /\ dispatcher[d].todo \subseteq Executions
    BY <1>1 DEF Dispatchable
  <2>2. CASE c = d
    <3>1. dispatcher'[c] = r
      BY <1>1, <1>3, <2>2
    <3>2. \A e \in r.todo : exec'[e].status # "absent"
      BY <1>2, <1>3, <2>1 DEF Dispatching, Dispatchable
    <3> QED
      BY <1>3, <3>1, <3>2 DEF Dispatching
  <2>3. CASE c # d
    <3>1. dispatcher'[c] = dispatcher[c]
      BY <1>1, <1>3, <2>3
    <3> QED
      BY <1>2, <1>3, <2>1, <3>1 DEF Dispatching
  <2> QED
    BY <2>2, <2>3
<1>4. ASSUME UNCHANGED <<worker, queue, exec>>
      PROVE  /\ \A w \in Workers : Carries(w)'
             /\ Alone'
             /\ \A m \in Messages : Delivered(m)'
             /\ \A e \in Executions : Awaited(e)'
             /\ \A e \in Executions : /\ exec[e].status # "absent" => exec'[e].status # "absent"
                                      /\ Announced(e) => Announced(e)'
  <2>1. \A e \in Executions : Announced(e) => Announced(e)'
    BY <1>4 DEF Announced
  <2> QED
    BY <1>4, <2>1, RowsGoOn
<1>5. CASE ListDispatchable(d)
  <2> DEFINE r == [dispatcher[d] EXCEPT !.todo = Dispatchable]
  <2>1. dispatcher' = [dispatcher EXCEPT ![d] = r] /\ UNCHANGED <<worker, queue, exec>>
    BY <1>5 DEF ListDispatchable
  <2>2. r.todo = Dispatchable /\ r.current = Nobody
    BY <1>1, <1>5 DEF ListDispatchable, IdleDispatcher
  <2> HIDE DEF r
  <2> QED
    BY <1>3, <1>4, <2>1, <2>2 DEF Commands
<1>6. ASSUME NEW e \in Executions, EnqueueFails(d, e)  PROVE Commands'
  <2> DEFINE r == [dispatcher[d] EXCEPT !.todo = dispatcher[d].todo \ {e}]
  <2>1. dispatcher' = [dispatcher EXCEPT ![d] = r] /\ UNCHANGED <<worker, queue, exec>>
        /\ dispatcher[d].current = Nobody
    BY <1>6 DEF EnqueueFails
  <2>2. r.todo = dispatcher[d].todo \ {e} /\ r.current = Nobody
    BY <1>1, <2>1
  <2> HIDE DEF r
  <2> QED
    BY <1>3, <1>4, <2>1, <2>2 DEF Commands
<1>7. CASE DispatcherCrashes(d)
  <2>1. dispatcher' = [dispatcher EXCEPT ![d] = IdleDispatcher] /\ UNCHANGED <<worker, queue, exec>>
    BY <1>7 DEF DispatcherCrashes
  <2>2. IdleDispatcher.todo = {} /\ IdleDispatcher.current = Nobody
    BY DEF IdleDispatcher
  <2> QED
    BY <1>3, <1>4, <2>1, <2>2 DEF Commands
<1>8. ASSUME NEW e \in Executions, Enqueue(d, e)  PROVE Commands'
  <2> DEFINE r == [todo |-> dispatcher[d].todo \ {e}, current |-> e]
  <2>1. /\ dispatcher' = [dispatcher EXCEPT ![d] = r]
        /\ UNCHANGED <<worker, exec>>
        /\ e \in dispatcher[d].todo
        /\ StoresCommand(e) \/ DropsDuplicate(e)
    BY <1>8 DEF Enqueue
  <2>2. exec[e].status # "absent"
    BY <1>2, <2>1 DEF Dispatching
  <2>3. CASE DropsDuplicate(e)
    <3>1. UNCHANGED <<worker, queue, exec>> /\ Announced(e)'
      BY <2>1, <2>3 DEF DropsDuplicate, Announced
    <3> QED
      BY <1>3, <1>4, <2>1, <2>2, <3>1 DEF Commands
  <2>4. CASE StoresCommand(e)
    <3>1. PICK m \in Messages : /\ m[1] = e
                                /\ queue[m].state = "unsent"
                                /\ queue' = [queue EXCEPT ![m].state = "visible"]
      BY <2>4 DEF StoresCommand
    <3>2. /\ queue'[m].state = "visible" /\ queue'[m].receives = queue[m].receives
          /\ \A n \in Messages \ {m} : queue'[n] = queue[n]
      BY <1>1, <3>1
    <3>3. \A x \in Executions : Announced(x) => Announced(x)'
      BY <3>1, <3>2 DEF Announced
    <3>4. Announced(e)'
      BY <3>1, <3>2 DEF Announced
    <3>5. \A c \in Dispatchers : Dispatching(c)'
      BY <1>3, <2>1, <2>2, <3>3, <3>4
    <3>6. \A w \in Workers : Carries(w)'
      BY <2>1, <3>1, <3>2 DEF CommandsInv, Commands, Carries
    <3>7. Alone'
      BY <2>1, <3>1, <3>2 DEF CommandsInv, Commands, Alone
    <3>8. ASSUME NEW n \in Messages  PROVE Delivered(n)'
      <4>1. Delivered(n)
        BY DEF CommandsInv, Commands
      <4>2. CASE n = m
        BY <2>1, <2>2, <3>1, <3>2, <4>1, <4>2 DEF Delivered, Open
      <4>3. CASE n # m
        BY <2>1, <3>2, <4>1, <4>3 DEF Delivered
      <4> QED
        BY <4>2, <4>3
    <3>9. \A x \in Executions : Awaited(x)'
      BY <2>1, <3>3 DEF CommandsInv, Commands, Awaited
    <3> QED
      BY <3>5, <3>6, <3>7, <3>8, <3>9 DEF Commands
  <2> QED
    BY <2>1, <2>3, <2>4
<1>9. CASE Mark(d)
  <2> DEFINE r == [dispatcher[d] EXCEPT !.current = Nobody]
  <2>1. PICK x : x = dispatcher[d].current
    OBVIOUS
  <2>2. /\ dispatcher' = [dispatcher EXCEPT ![d] = r]
        /\ UNCHANGED <<worker, queue>>
        /\ x # Nobody /\ MarkDispatched(x)
    BY <1>9, <2>1 DEF Mark
  <2>3. r.todo = dispatcher[d].todo /\ r.current = Nobody
    BY <1>1
  <2> HIDE DEF r
  <2>4. x \in Executions /\ Announced(x)
    BY <1>1, <1>2, <2>1, <2>2 DEF Dispatching
  <2>5. \A e \in Executions :
           /\ exec'[e].attempts = exec[e].attempts
           /\ \/ exec'[e].status = exec[e].status
              \/ /\ exec[e].status = "pending_dispatch"
                 /\ exec'[e].status = "queued"
                 /\ Announced(e)
    BY <1>1, <2>2, <2>4 DEF MarkDispatched, Row
  <2>6. \A e \in Executions : /\ exec[e].status # "absent" => exec'[e].status # "absent"
                              /\ Announced(e) => Announced(e)'
    BY <2>2, <2>5 DEF Announced
  <2>7. \A c \in Dispatchers : Dispatching(c)'
    BY <1>3, <2>2, <2>3, <2>6
  <2> QED
    BY <2>2, <2>5, <2>7, RowsGoOn DEF Commands
<1> QED
  BY <1>5, <1>6, <1>7, <1>8, <1>9 DEF Dispatch

(***************************************************************************)
(* A busy worker goes on with its command: the steps of execute_command    *)
(* that leave the queue alone.                                             *)
(***************************************************************************)
LEMMA BusyKeepsCommands ==
  ASSUME TypeInv, CommandsInv, NEW w \in Workers, NEW e \in Executions,
         worker[w].stage # "idle", worker[w].execution = e,
         \A v \in Workers \ {w} : worker'[v] = worker[v],
         worker'[w].stage \notin {"idle", "claim"},
         worker'[w].execution = e,
         worker'[w].message = worker[w].message,
         worker'[w].receipt = worker[w].receipt,
         \A x \in Executions \ {e} : /\ exec'[x].status = exec[x].status
                                     /\ exec'[x].attempts = exec[x].attempts,
         exec'[e].status # "absent",
         exec'[e].status \in Terminal \/ exec[e].status \notin Terminal,
         exec'[e].attempts \in {exec[e].attempts, exec[e].attempts + 1},
         worker[w].stage = "claim" =>
           exec'[e].status \in Terminal \/ exec'[e].attempts = exec[e].attempts + 1,
         worker'[w].stage = "report" =>
           \/ exec'[e].status \in Terminal
           \/ exec'[e].status = "queued" /\ worker'[w].attempts > 0,
         exec'[e].status \in Open => exec[e].status \in Open,
         UNCHANGED <<queue, dispatcher>>
  PROVE  Commands'
<1>1. /\ exec \in [Executions -> Row] /\ \A x \in Executions : exec[x].attempts \in Nat
      /\ queue \in [Messages ->
           [state    : {"unsent", "visible", "inflight", "deleted", "dead"},
            receives : Nat]]
      /\ \A m \in Messages : m[1] \in Executions
      /\ \A v \in Workers : worker[v].stage # "idle" => worker[v].execution \in Executions
  BY DEF TypeInv, TypeOK, StoreTypeOK, Row, Messages, WorkerOK
<1>2. /\ worker[w].message \in Messages
      /\ worker[w].message[1] = e
      /\ queue[worker[w].message].state = "inflight"
  BY Carried
<1>3. \A x \in Executions : Announced(x)' = Announced(x)
  BY DEF Announced
<1>4. Announced(e)
  BY <1>2 DEF Announced
<1>5. \A v \in Workers : /\ (worker'[v].stage = "idle") = (worker[v].stage = "idle")
                         /\ worker'[v].message = worker[v].message
                         /\ worker'[v].execution = worker[v].execution
  OBVIOUS
<1>6. ASSUME NEW v \in Workers  PROVE Carries(v)'
  <2>1. Carries(v)
    BY DEF CommandsInv, Commands
  <2>2. CASE v = w
    BY <1>2, <2>1, <2>2 DEF Carries
  <2>3. CASE v # w /\ worker[v].stage # "idle"
    <3>1. worker[v].execution # e
      BY <2>3, BusyAlone
    <3>2. worker[v].execution \in Executions \ {e}
      BY <1>1, <2>3, <3>1
    <3> QED
      BY <2>1, <2>3, <3>2 DEF Carries
  <2>4. CASE v # w /\ worker[v].stage = "idle"
    BY <2>4 DEF Carries
  <2> QED
    BY <2>2, <2>3, <2>4
<1>7. Alone'
  BY <1>5 DEF CommandsInv, Commands, Alone
<1>8. ASSUME NEW m \in Messages  PROVE Delivered(m)'
  <2>1. Delivered(m) /\ m[1] \in Executions
    BY <1>1 DEF CommandsInv, Commands
  <2>2. CASE m[1] # e
    <3>1. worker[w].message # m
      BY <1>2, <2>2
    <3>2. /\ exec'[m[1]].status = exec[m[1]].status
          /\ exec'[m[1]].attempts = exec[m[1]].attempts
      BY <2>1, <2>2
    <3>3. (\E v \in Workers : worker[v].stage = "claim" /\ worker[v].message = m) =>
             \E v \in Workers : worker'[v].stage = "claim" /\ worker'[v].message = m
      BY <3>1
    <3> QED
      BY <2>1, <3>2, <3>3 DEF Delivered
  <2>3. CASE m[1] = e
    <3>1. ASSUME exec'[e].status \notin Terminal
          PROVE  \/ queue[m].receives <= exec'[e].attempts
                 \/ /\ queue[m].receives <= exec'[e].attempts + 1
                    /\ \E v \in Workers : worker'[v].stage = "claim" /\ worker'[v].message = m
      <4>1. /\ exec[e].status \notin Terminal
            /\ exec[e].attempts \in Nat /\ exec'[e].attempts \in Nat
            /\ exec[e].attempts <= exec'[e].attempts
            /\ queue[m].receives \in Nat
        BY <1>1, <3>1
      <4>2. CASE queue[m].receives <= exec[e].attempts
        BY <4>1, <4>2
      <4>3. CASE /\ queue[m].receives <= exec[e].attempts + 1
                 /\ \E v \in Workers : worker[v].stage = "claim" /\ worker[v].message = m
        <5>1. PICK v \in Workers : worker[v].stage = "claim" /\ worker[v].message = m
          BY <4>3
        <5>2. CASE v = w
          BY <3>1, <4>1, <4>3, <5>1, <5>2
        <5>3. CASE v # w
          BY <4>1, <4>3, <5>1, <5>3
        <5> QED
          BY <5>2, <5>3
      <4> QED
        BY <2>1, <2>3, <4>1, <4>2, <4>3 DEF Delivered
    <3> QED
      BY <2>1, <2>3, <3>1 DEF Delivered
  <2> QED
    BY <2>2, <2>3
<1>9. ASSUME NEW x \in Executions  PROVE Awaited(x)'
  <2>1. CASE x = e
    BY <1>3, <1>4, <2>1 DEF Awaited
  <2>2. CASE x # e
    BY <1>3, <2>2 DEF CommandsInv, Commands, Awaited
  <2> QED
    BY <2>1, <2>2
<1>10. \A d \in Dispatchers : Dispatching(d)'
  <2>1. \A x \in Executions : /\ exec[x].status # "absent" => exec'[x].status # "absent"
                              /\ Announced(x) => Announced(x)'
    BY <1>3
  <2> QED
    BY <2>1, DispatchersGoOn
<1> QED
  BY <1>6, <1>7, <1>8, <1>9, <1>10 DEF Commands

LEMMA WorkKeepsCommands ==
  ASSUME TypeInv, CommandsInv, NEW w \in Workers,
         \/ Claim(w) \/ ClaimRefused(w) \/ Settle(w)
         \/ \E f : WithinAttempt(w, f)
  PROVE  Commands'
<1>1. PICK e : e = worker[w].execution
  OBVIOUS
<1>2. /\ exec \in [Executions -> Row] /\ worker \in [Workers -> Frame]
      /\ \A x \in Executions : exec[x].attempts \in Nat
      /\ worker[w].stage # "idle" => e \in Executions
  BY <1>1 DEF TypeInv, TypeOK, StoreTypeOK, WorkerOK, Row
<1>3. AttemptHeld /\ Settling(w) /\ Carries(w)
  BY DEF CommandsInv, Commands, AttemptsInv
<1>4. worker[w].stage # "idle" => exec[e].status # "absent"
  <2>1. SUFFICES ASSUME worker[w].stage # "idle" PROVE exec[e].status # "absent"
    OBVIOUS
  <2>2. /\ worker[w].message \in Messages /\ worker[w].message[1] = e
        /\ queue[worker[w].message].state = "inflight"
    BY <1>1, <2>1, Carried
  <2>3. Delivered(worker[w].message)
    BY <2>2 DEF CommandsInv, Commands
  <2> QED
    BY <2>2, <2>3 DEF Delivered
<1>5. CASE Claim(w)
  <2>1. /\ worker[w].stage = "claim" /\ Claimable(e) /\ e \in Executions
        /\ worker'[w].stage = "verify"
        /\ worker'[w].execution = e
        /\ worker'[w].message = worker[w].message
        /\ worker'[w].receipt = worker[w].receipt
        /\ \A v \in Workers \ {w} : worker'[v] = worker[v]
        /\ exec'[e].status = "executing"
        /\ exec'[e].attempts = exec[e].attempts + 1
        /\ \A x \in Executions \ {e} : exec'[x] = exec[x]
        /\ UNCHANGED <<dispatcher, queue>>
    BY <1>1, <1>5, ClaimMoves
  <2>2. exec[e].status \in Open /\ exec[e].status \notin Terminal
    BY <2>1 DEF Claimable, Open, Terminal
  <2> QED
    BY <1>1, <2>1, <2>2, BusyKeepsCommands
<1>6. CASE ClaimRefused(w)
  <2> DEFINE f == [worker[w] EXCEPT !.stage = "report"]
  <2>1. /\ worker[w].stage = "claim" /\ ~Claimable(e)
        /\ worker' = [worker EXCEPT ![w] = f]
        /\ UNCHANGED <<exec, queue, dispatcher>>
    BY <1>1, <1>6 DEF ClaimRefused, GoTo
  <2>2. /\ f.stage = "report" /\ f.execution = e /\ f.message = worker[w].message
        /\ f.receipt = worker[w].receipt
    <3>1. worker[w] \in Frame
      BY <1>2
    <3> QED
      BY <1>1, <3>1 DEF Frame
  <2> HIDE DEF f
  <2>3. worker'[w] = f /\ \A v \in Workers \ {w} : worker'[v] = worker[v]
    BY <1>2, <2>1
  <2>4. exec[e].status \in Terminal
    BY <1>1, <1>3, <2>1 DEF Carries, Claimable
  <2>5. exec[e].status # "absent" /\ e \in Executions
    BY <1>2, <1>4, <2>1
  <2> QED
    BY <1>1, <2>1, <2>2, <2>3, <2>4, <2>5, BusyKeepsCommands
<1>7. CASE Settle(w)
  <2>1. /\ worker[w].stage = "settle" /\ e \in Executions /\ Owns(w, e)
        /\ exec[e].status = "executing"
        /\ worker'[w].stage = "report"
        /\ worker'[w].execution = e
        /\ worker'[w].message = worker[w].message
        /\ worker'[w].receipt = worker[w].receipt
        /\ worker'[w].attempts = worker[w].attempts
        /\ \A v \in Workers \ {w} : worker'[v] = worker[v]
        /\ exec'[e].status = worker[w].result
        /\ worker[w].result \in {"queued"} \cup Terminal
        /\ exec'[e].attempts = exec[e].attempts
        /\ \A x \in Executions \ {e} : exec'[x] = exec[x]
        /\ UNCHANGED <<dispatcher, queue>>
    BY <1>1, <1>3, <1>7, SettleMoves
  <2>2. worker[w].attempts > 0
    BY <1>3, <2>1 DEF Settling, Claimed
  <2>3. /\ exec[e].status \in Open /\ exec[e].status \notin Terminal
        /\ exec'[e].status # "absent"
    BY <2>1 DEF Open, Terminal
  <2> QED
    BY <1>1, <2>1, <2>2, <2>3, BusyKeepsCommands
<1>8. ASSUME NEW f, WithinAttempt(w, f)  PROVE Commands'
  <2>1. /\ worker[w].stage \in Claimed /\ e \in Executions
        /\ worker' = [worker EXCEPT ![w] = f]
        /\ f.stage \in Claimed /\ f.execution = e
        /\ f.message = worker[w].message /\ f.receipt = worker[w].receipt
        /\ \A x \in Executions : /\ exec'[x].status = exec[x].status
                                 /\ exec'[x].attempts = exec[x].attempts
        /\ UNCHANGED <<queue, dispatcher>>
    BY <1>1, <1>2, <1>8 DEF WithinAttempt, Becomes, Continues, Claimed
  <2>2. worker'[w] = f /\ \A v \in Workers \ {w} : worker'[v] = worker[v]
    BY <1>2, <2>1
  <2>3. exec[e].status = "executing"
    BY <1>1, <1>3, <2>1 DEF AttemptHeld, NoStaleWorker
  <2> QED
    BY <1>1, <2>1, <2>2, <2>3, BusyKeepsCommands DEF Claimed, Terminal
<1> QED
  BY <1>5, <1>6, <1>7, <1>8

LEMMA ReceiveKeepsCommands ==
  ASSUME TypeInv, CommandsInv, NEW w \in Workers, NEW m \in Messages, Receive(w, m)
  PROVE  Commands'
<1> DEFINE f == [IdleFrame EXCEPT !.stage = "claim", !.execution = m[1], !.message = m,
                                  !.receipt = queue[m].receives + 1]
<1>1. /\ exec \in [Executions -> Row] /\ worker \in [Workers -> Frame]
      /\ queue \in [Messages ->
           [state    : {"unsent", "visible", "inflight", "deleted", "dead"},
            receives : Nat]]
      /\ m[1] \in Executions /\ exec[m[1]].attempts \in Nat
  BY DEF TypeInv, TypeOK, StoreTypeOK, WorkerOK, Row, Messages
<1>2. /\ worker[w].stage = "idle"
      /\ queue[m].state = "visible"
      /\ ~GroupBlocked(m)
      /\ queue' = [queue EXCEPT ![m] = [state    |-> "inflight",
                                        receives |-> queue[m].receives + 1]]
      /\ worker' = [worker EXCEPT ![w] = f]
      /\ UNCHANGED <<exec, dispatcher>>
  BY DEF Receive, Start
<1>3. /\ f.stage = "claim" /\ f.execution = m[1] /\ f.message = m
      /\ f.receipt = queue[m].receives + 1
  BY IdleFrameType DEF Frame
<1> HIDE DEF f
<1>4. /\ worker'[w] = f /\ \A v \in Workers \ {w} : worker'[v] = worker[v]
      /\ queue'[m] = [state |-> "inflight", receives |-> queue[m].receives + 1]
      /\ \A n \in Messages \ {m} : queue'[n] = queue[n]
  BY <1>1, <1>2
<1>5. \A v \in Workers : worker[v].stage # "idle" =>
        /\ worker[v].message # m
        /\ worker[v].execution # m[1]
  <2> SUFFICES ASSUME NEW v \in Workers, worker[v].stage # "idle"
               PROVE  worker[v].message # m /\ worker[v].execution # m[1]
    OBVIOUS
  <2>1. /\ worker[v].message \in Messages
        /\ worker[v].message[1] = worker[v].execution
        /\ queue[worker[v].message].state = "inflight"
    BY Carried
  <2> QED
    BY <1>2, <2>1 DEF GroupBlocked
<1>6. Delivered(m) /\ exec[m[1]].status \notin {"absent", "executing"}
  <2>1. Delivered(m)
    BY DEF CommandsInv, Commands
  <2>2. exec[m[1]].status # "executing"
    <3>1. SUFFICES ASSUME exec[m[1]].status = "executing" PROVE FALSE
      OBVIOUS
    <3>2. PICK v \in Workers : Owns(v, m[1])
      BY <1>1, <3>1 DEF CommandsInv, AttemptsInv, Attended
    <3> QED
      BY <1>5, <3>2 DEF Owns, Claimed
  <2> QED
    BY <1>2, <2>1, <2>2 DEF Delivered
<1>7. exec[m[1]].status \in {"pending_dispatch", "queued"} \cup Terminal
  <2>1. exec[m[1]] \in Row
    BY <1>1
  <2> QED
    BY <1>6, <2>1 DEF Row, Statuses
<1>8. ASSUME NEW v \in Workers  PROVE Carries(v)'
  <2>1. CASE v = w
    BY <1>2, <1>3, <1>4, <1>7, <2>1 DEF Carries
  <2>2. CASE v # w
    <3>1. Carries(v)
      BY DEF CommandsInv, Commands
    <3> QED
      BY <1>2, <1>4, <1>5, <2>2, <3>1 DEF Carries
  <2> QED
    BY <2>1, <2>2
<1>9. Alone'
  <2>1. Alone
    BY DEF CommandsInv, Commands
  <2>2. \A u, v \in Workers :
          worker'[u].stage # "idle" /\ worker'[v].stage # "idle"
            /\ worker'[u].message = worker'[v].message => u = v
    BY <1>3, <1>4, <1>5, <2>1 DEF Alone
  <2>3. \A n \in Messages \ {m} :
          queue'[n].state = "inflight" => HouseholdOf[n[1]] # HouseholdOf[m[1]]
    BY <1>2, <1>4 DEF GroupBlocked
  <2>4. \A n, o \in Messages :
          queue'[n].state = "inflight" /\ queue'[o].state = "inflight"
            /\ HouseholdOf[n[1]] = HouseholdOf[o[1]] => n = o
    BY <1>4, <2>1, <2>3 DEF Alone
  <2> QED
    BY <2>2, <2>4 DEF Alone
<1>10. ASSUME NEW n \in Messages  PROVE Delivered(n)'
  <2>1. CASE n = m
    <3>1. \A v \in Workers : ~(worker[v].stage = "claim" /\ worker[v].message = m)
      BY <1>5
    <3>2. exec[m[1]].status \notin Terminal => queue[m].receives <= exec[m[1]].attempts
      BY <1>6, <3>1 DEF Delivered
    <3>3. queue[m].receives \in Nat
      BY <1>1
    <3>4. worker'[w].stage = "claim" /\ worker'[w].message = m
      BY <1>3, <1>4
    <3>5. exec[m[1]].status \notin Terminal =>
            /\ queue[m].receives + 1 <= exec[m[1]].attempts + 1
            /\ \E v \in Workers : worker'[v].stage = "claim" /\ worker'[v].message = m
      BY <1>1, <3>2, <3>3, <3>4
    <3> QED
      BY <1>2, <1>4, <1>6, <2>1, <3>5 DEF Delivered
  <2>2. CASE n # m
    <3>1. Delivered(n)
      BY DEF CommandsInv, Commands
    <3>2. (\E v \in Workers : worker[v].stage = "claim" /\ worker[v].message = n) =>
            \E v \in Workers : worker'[v].stage = "claim" /\ worker'[v].message = n
      BY <1>2, <1>4
    <3> QED
      BY <1>2, <1>4, <2>2, <3>1, <3>2 DEF Delivered
  <2> QED
    BY <2>1, <2>2
<1>11. \A e \in Executions : Announced(e) => Announced(e)'
  BY <1>4 DEF Announced
<1>12. \A e \in Executions : Awaited(e)'
  BY <1>2, <1>11 DEF CommandsInv, Commands, Awaited
<1>13. \A d \in Dispatchers : Dispatching(d)'
  BY <1>2, <1>11, DispatchersGoOn
<1> QED
  BY <1>8, <1>9, <1>10, <1>12, <1>13 DEF Commands

LEMMA ReportKeepsCommands ==
  ASSUME TypeInv, CommandsInv, NEW w \in Workers, Report(w)
  PROVE  Commands'
<1>1. PICK m : m = worker[w].message
  OBVIOUS
<1>2. /\ worker \in [Workers -> Frame]
      /\ queue \in [Messages ->
           [state    : {"unsent", "visible", "inflight", "deleted", "dead"},
            receives : Nat]]
      /\ worker[w].stage = "report"
  BY DEF Report, TypeInv, TypeOK
<1>3. m \in Messages /\ m[1] = worker[w].execution /\ queue[m].state = "inflight"
  BY <1>1, <1>2, Carried
<1>4. Carries(w) /\ Alone
  BY DEF CommandsInv, Commands
<1>5. worker' = [worker EXCEPT ![w] = IdleFrame] /\ UNCHANGED <<exec, dispatcher>>
  BY DEF Report
<1>6. /\ worker'[w].stage = "idle"
      /\ \A v \in Workers \ {w} : worker'[v] = worker[v]
  BY <1>2, <1>5, IdleFrameType
<1>7. \/ UNCHANGED queue
      \/ /\ queue' = [queue EXCEPT ![m].state = "deleted"]
         /\ exec[m[1]].status \in Terminal
  <2>1. CASE worker[w].attempts > 0 /\ exec[worker[w].execution].status = "queued"
    BY <2>1 DEF Report
  <2>2. CASE ~(worker[w].attempts > 0 /\ exec[worker[w].execution].status = "queued")
    <3>1. exec[m[1]].status \in Terminal
      BY <1>2, <1>3, <1>4, <2>2 DEF Carries
    <3>2. Acknowledge(m, worker[w].receipt)
      BY <1>1, <2>2 DEF Report
    <3> QED
      BY <3>1, <3>2 DEF Acknowledge
  <2> QED
    BY <2>1, <2>2
<1>8. /\ queue'[m].state \in {"inflight", "deleted"}
      /\ queue'[m].receives = queue[m].receives
      /\ queue'[m].state = "deleted" => exec[m[1]].status \in Terminal
      /\ \A n \in Messages \ {m} : queue'[n] = queue[n]
  BY <1>2, <1>3, <1>7
<1>9. ASSUME NEW v \in Workers  PROVE Carries(v)'
  <2>1. CASE v = w
    BY <1>6, <2>1 DEF Carries
  <2>2. CASE v # w
    <3>1. Carries(v)
      BY DEF CommandsInv, Commands
    <3>2. worker[v].stage # "idle" => worker[v].message # m
      BY <1>1, <1>2, <1>4, <2>2 DEF Alone
    <3> QED
      BY <1>5, <1>6, <1>8, <2>2, <3>1, <3>2 DEF Carries
  <2> QED
    BY <2>1, <2>2
<1>10. Alone'
  <2>1. \A n \in Messages : queue'[n].state = "inflight" => queue[n].state = "inflight"
    BY <1>3, <1>8
  <2> QED
    BY <1>4, <1>6, <2>1 DEF Alone
<1>11. ASSUME NEW n \in Messages  PROVE Delivered(n)'
  <2>1. Delivered(n)
    BY DEF CommandsInv, Commands
  <2>2. (\E v \in Workers : worker[v].stage = "claim" /\ worker[v].message = n) =>
          \E v \in Workers : worker'[v].stage = "claim" /\ worker'[v].message = n
    BY <1>2, <1>6
  <2>3. CASE n = m
    BY <1>3, <1>5, <1>8, <2>1, <2>2, <2>3 DEF Delivered, Open, Terminal
  <2>4. CASE n # m
    BY <1>5, <1>8, <2>1, <2>2, <2>4 DEF Delivered
  <2> QED
    BY <2>3, <2>4
<1>12. \A e \in Executions : Announced(e) => Announced(e)'
  BY <1>3, <1>8 DEF Announced
<1>13. \A e \in Executions : Awaited(e)'
  BY <1>5, <1>12 DEF CommandsInv, Commands, Awaited
<1>14. \A d \in Dispatchers : Dispatching(d)'
  BY <1>5, <1>12, DispatchersGoOn
<1> QED
  BY <1>9, <1>10, <1>11, <1>13, <1>14 DEF Commands

LEMMA CommandsInit == Init => CommandsInv
<1> SUFFICES ASSUME Init PROVE CommandsInv
  OBVIOUS
<1>1. /\ \A e \in Executions : exec[e].status = "absent" /\ exec[e].attempts = 0
      /\ \A m \in Messages : queue[m].state = "unsent" /\ queue[m].receives = 0
      /\ \A m \in Messages : m[1] \in Executions
      /\ \A w \in Workers : worker[w].stage = "idle"
      /\ \A d \in Dispatchers : dispatcher[d].todo = {} /\ dispatcher[d].current = Nobody
  BY DEF Init, StoreInit, AbsentRow, IdleFrame, IdleDispatcher, Messages
<1>2. \A m \in Messages : Delivered(m)
  BY <1>1 DEF Delivered, Open
<1>3. \A w \in Workers : Carries(w)
  BY <1>1 DEF Carries
<1>4. Alone
  BY <1>1 DEF Alone
<1>5. \A e \in Executions : Awaited(e)
  BY <1>1 DEF Awaited
<1>6. \A d \in Dispatchers : Dispatching(d)
  BY <1>1 DEF Dispatching
<1> QED
  BY <1>2, <1>3, <1>4, <1>5, <1>6, AttemptsInit DEF CommandsInv, Commands

LEMMA CommandsStep ==
  ASSUME "slow" \notin Faults, "worker_crash" \notin Faults, "store" \notin Faults,
         ~LocalMode, MaxAttempts <= MaxReceives
  PROVE  TypeInv /\ CommandsInv /\ [Next]_vars => CommandsInv'
<1> SUFFICES ASSUME TypeInv, CommandsInv, [Next]_vars PROVE Commands'
  BY AttemptsStep DEF CommandsInv
<1>1. CASE UNCHANGED vars
  BY <1>1 DEF vars, CommandsInv, Commands, Carries, Alone, Delivered, Awaited, Announced,
     Dispatching
<1>2. CASE Reviewer \/ Owner \/ Time
  BY <1>2, EnvironmentKeepsCommands, VisibilityKeepsCommands DEF Time
<1>3. ASSUME NEW d \in Dispatchers, Dispatch(d) \/ DispatcherCrashes(d)  PROVE Commands'
  BY <1>3, DispatchKeepsCommands
<1>4. ASSUME NEW w \in Workers, Delivery(w)  PROVE Commands'
  BY <1>4, ReceiveKeepsCommands DEF Delivery
<1>5. ASSUME NEW w \in Workers, Work(w)  PROVE Commands'
  BY <1>5, WorkSteps, WorkKeepsCommands, ReportKeepsCommands
<1>6. ASSUME NEW w \in Workers  PROVE ~RunRoute(w) /\ ~WorkerCrashes(w)
  BY DEF RunRoute, Run, WorkerCrashes, StoreRaises
<1> QED
  BY <1>1, <1>2, <1>3, <1>4, <1>5, <1>6 DEF Next, Crash

(***************************************************************************)
(* No row waits for a command that will not come: while workers neither    *)
(* die nor outlive their leases, the database answers them (an error of    *)
(* its own ends a claim or a settlement as a crash would), and a command   *)
(* may be received as often as the action may be attempted, a queued or    *)
(* executing row has a worker or a command that is still on the queue and  *)
(* not a dead letter. It is about the handler that consumes the queue; the *)
(* run route of local mode consumes none.                                  *)
(***************************************************************************)
THEOREM NobodyIsStranded ==
  ASSUME "slow" \notin Faults, "worker_crash" \notin Faults, "store" \notin Faults,
         ~LocalMode, MaxAttempts <= MaxReceives
  PROVE  Spec => []NeverStranded
<1>1. Init => CommandsInv
  BY CommandsInit
<1>2. TypeInv /\ CommandsInv /\ [Next]_vars => CommandsInv'
  BY CommandsStep
<1>3. TypeInv /\ CommandsInv => NeverStranded
  <2> SUFFICES ASSUME TypeInv, CommandsInv, NEW e \in Executions,
                      exec[e].status \in {"queued", "executing"}
               PROVE  \E m \in Messages : m[1] = e /\ queue[m].state \in {"visible", "inflight"}
    BY DEF NeverStranded
  <2>1. PICK m \in Messages : m[1] = e /\ queue[m].state # "unsent"
    BY DEF CommandsInv, Commands, Awaited, Announced
  <2>2. Delivered(m)
    BY DEF CommandsInv, Commands
  <2> QED
    BY <2>1, <2>2 DEF Delivered, Open
<1> QED
  BY TypeInit, TypeStep, <1>1, <1>2, <1>3, PTL DEF Spec

=============================================================================
