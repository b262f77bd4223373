-------------------------- MODULE IngestionProofs --------------------------
(***************************************************************************)
(* InOrder and the type invariant of InboxSync, for every inbox, number of *)
(* syncs, workers and renewals, queue, batch size and set of faults.       *)
(***************************************************************************)
EXTENDS InboxProofs, FiniteSetTheorems

-----------------------------------------------------------------------------
(* The invariant                                                           *)

(* The queue of a group: the last records, those that were received more   *)
(* often first, the ones an invocation holds before the visible ones.      *)
Group(q) ==
  /\ \A i, j \in DOMAIN q :
       i < j => /\ q[j].receives <= q[i].receives
                /\ q[j].holder # None => q[i].holder = q[j].holder
  /\ \A i \in DOMAIN q : q[i].holder = None => q[i].receives < MaxReceives

Records(q, n) == \E head \in 1..n + 1 : q \in [head..n -> Record]

QueueInv == queued \in 0..MaxEvents /\ Records(queue, queued) /\ Group(queue)

(* Nothing between a failed record and the end of the batch is left out.   *)
Closed(failed, numbers) ==
  \A i, j \in numbers : i \in failed /\ i < j => j \in failed

(* What an invocation knows of its batch and holds of the queue.           *)
Invocation(x, stage, held) ==
  /\ Closed(x.failed, DOMAIN x.batch)
  /\ stage # "idle" => held \subseteq DOMAIN x.batch
  /\ stage \notin {"idle", "next"} => x.at \in DOMAIN x.batch

Held(q, w) == {i \in DOMAIN q : q[i].holder = w}

JobsInv ==
  /\ job \in [Workers -> Job]
  /\ \A w \in Workers : Invocation(job[w], task[w].stage, Held(queue, w))

(* Pages are counted from the first one of the sync on.                    *)
Counted(f) ==
  /\ f.pages <= MaxPages
  /\ f.stage \in {"idle", "next", "stored", "open", "list"} => f.pages = 0

PagesInv == \A t \in Tasks : Counted(task[t])

ProviderInv ==
  /\ provider \in Providers
  /\ oldest \in 0..arrived
  /\ registered \in BOOLEAN
  /\ confirmed \subseteq Senders
  /\ status \in ConnectionStatuses
  /\ faults \in 0..MaxFaults
  /\ watched \in 0..arrived
  /\ \A r \in Renewers : renewal[r].cursor.at <= arrived

-----------------------------------------------------------------------------
(* The queue                                                               *)

(* What is left of an interval when nothing after a member is taken out is *)
(* its end.                                                                *)
LEMMA RestIsInterval ==
  ASSUME NEW a \in Nat, NEW b \in Nat, a <= b + 1, NEW K, K \subseteq a..b, Closed(K, a..b)
  PROVE  \E h \in a..b + 1 : K = h..b
<1> DEFINE n == Cardinality(K)
           h == b + 1 - n
<1>1. IsFiniteSet(a..b) /\ Cardinality(a..b) = b - a + 1
  BY FS_Interval
<1>2. IsFiniteSet(K) /\ n \in Nat /\ n <= b - a + 1
  BY <1>1, FS_Subset, FS_CardinalityType
<1>3. h \in a..b + 1
  BY <1>2
<1>4. K \subseteq h..b
  <2> SUFFICES ASSUME NEW k \in K  PROVE h <= k
    BY <1>3
  <2>1. k \in a..b /\ k..b \subseteq K
    BY DEF Closed
  <2>2. Cardinality(k..b) = b - k + 1
    BY <2>1, FS_Interval
  <2>3. Cardinality(k..b) <= n
    BY <2>1, <1>2, FS_Subset
  <2> QED
    BY <1>2, <2>1, <2>2, <2>3
<1>5. IsFiniteSet(h..b) /\ Cardinality(h..b) = n
  <2>1. h \in Int /\ h <= b + 1 /\ b - h + 1 = n
    BY <1>2, <1>3
  <2> HIDE DEF n, h
  <2>2. IsFiniteSet(h..b) /\ Cardinality(h..b) = IF h > b THEN 0 ELSE b - h + 1
    BY <2>1, FS_Interval
  <2> QED
    BY <2>1, <2>2
<1>6. K = h..b
  BY <1>4, <1>5, FS_Subset
<1> QED
  BY <1>3, <1>6

LEMMA QueueFacts ==
  ASSUME QueueInv
  PROVE  /\ queued \in Nat /\ MaxEvents \in Nat /\ MaxReceives \in Nat /\ MaxReceives > 0
         /\ queued <= MaxEvents
         /\ DOMAIN queue \subseteq Nat
         /\ \A i \in DOMAIN queue : /\ i \in Numbers /\ i <= queued
                                    /\ queue[i] \in Record
                                    /\ queue[i].receives \in Nat
                                    /\ queue[i].receives <= MaxReceives
  <1>1. queued \in 0..MaxEvents /\ Records(queue, queued)
    BY DEF QueueInv
  <1>2. PICK head \in 1..queued + 1 : queue \in [head..queued -> Record]
    BY <1>1 DEF Records
  <1>3. MaxEvents \in Nat /\ MaxReceives \in Nat /\ MaxReceives > 0
    BY InboxAssumption
  <1>4. DOMAIN queue = head..queued /\ head \in Nat /\ head >= 1 /\ queued \in Nat
    BY <1>1, <1>2, <1>3
  <1>5. ASSUME NEW i \in DOMAIN queue
        PROVE  /\ i \in Numbers /\ i <= queued
               /\ queue[i] \in Record
               /\ queue[i].receives \in Nat
               /\ queue[i].receives <= MaxReceives
    BY <1>1, <1>2, <1>3, <1>4, <1>5 DEF Numbers, Record
  <1> QED
    BY <1>1, <1>3, <1>4, <1>5

(* What is returned after a record that stays stays, so the queue remains  *)
(* the end of what was queued, in the order of receptions and of holders.  *)
LEMMA ReturnKeepsGroup ==
  ASSUME QueueInv, NEW w \in Workers, NEW failed, Closed(failed, Held(queue, w)),
         queue' = Return(w, failed), queued' = queued
  PROVE  /\ QueueInv'
         /\ Closed(DOMAIN queue', DOMAIN queue)
         /\ \A v \in Workers : Held(queue', v) \subseteq Held(queue, v)
<1> DEFINE K == {i \in failed \cap DOMAIN queue : queue[i].receives < MaxReceives}
           D == {k \in DOMAIN queue : queue[k].holder = w => k \in K}
<1>1. queue' = [i \in D |-> IF queue[i].holder = w
                            THEN [queue[i] EXCEPT !.holder = None] ELSE queue[i]]
  BY DEF Return, Restore
<1>2. w # None
  BY InboxAssumption
<1>3. ASSUME NEW i \in DOMAIN queue, NEW j \in DOMAIN queue, i \in D, i < j
      PROVE  j \in D
  <2>1. /\ queue[j].receives <= queue[i].receives
        /\ queue[j].holder # None => queue[i].holder = queue[j].holder
    BY <1>3 DEF QueueInv, Group
  <2>2. CASE queue[j].holder = w
    <3>1. queue[i].holder = w /\ i \in K
      BY <1>2, <1>3, <2>1, <2>2
    <3>2. j \in failed
      BY <1>3, <2>2, <3>1 DEF Closed, Held
    <3>3. queue[j].receives < MaxReceives
      BY <2>1, <3>1, QueueFacts
    <3> QED
      BY <3>2, <3>3
  <2> QED
    BY <2>2
<1>4. DOMAIN queue' = D /\ D \subseteq DOMAIN queue
  BY <1>1
<1>5. ASSUME NEW i \in D
      PROVE  /\ queue'[i] \in Record
             /\ queue'[i].receives = queue[i].receives
             /\ queue'[i].holder = IF queue[i].holder = w THEN None ELSE queue[i].holder
             /\ queue[i].holder = w => queue[i].receives < MaxReceives
  <2>1. queue[i] \in Record
    BY QueueFacts
  <2> QED
    BY <1>1, <2>1 DEF Record
<1>6. Closed(D, DOMAIN queue)
  BY <1>3 DEF Closed
<1> HIDE DEF D, K
<1>7. Records(queue', queued')
  <2>1. PICK head \in 1..queued + 1 : queue \in [head..queued -> Record]
    BY DEF QueueInv, Records
  <2>2. head \in Nat /\ queued \in Nat /\ 1 <= head /\ head <= queued + 1
    BY <2>1, QueueFacts
  <2>3. DOMAIN queue = head..queued
    BY <2>1
  <2>4. D \subseteq head..queued /\ Closed(D, head..queued)
    BY <1>4, <1>6, <2>3
  <2>5. PICK h \in head..queued + 1 : D = h..queued
    <3>1. \A S : S \subseteq head..queued /\ Closed(S, head..queued)
                   => \E h \in head..queued + 1 : S = h..queued
      BY <2>2, RestIsInterval
    <3> QED
      BY <2>4, <3>1, Zenon
  <2>6. h \in 1..queued + 1
    BY <2>2
  <2>7. queue' \in [h..queued -> Record]
    BY <1>1, <1>4, <1>5, <2>5
  <2> QED
    BY <2>6, <2>7 DEF Records
<1>8. Group(queue')
  BY <1>4, <1>5 DEF QueueInv, Group
<1>9. ASSUME NEW v \in Workers  PROVE Held(queue', v) \subseteq Held(queue, v)
  BY <1>4, <1>5, InboxAssumption DEF Held
<1> QED
  BY <1>4, <1>6, <1>7, <1>8, <1>9 DEF QueueInv

LEMMA EnqueueKeepsGroup ==
  ASSUME QueueInv, NEW e \in Event, Enqueue(e)
  PROVE  /\ QueueInv'
         /\ DOMAIN queue \subseteq DOMAIN queue'
         /\ \A v \in Workers : Held(queue', v) \subseteq Held(queue, v)
<1> DEFINE r == [event |-> e, receives |-> 0, holder |-> None]
           D == DOMAIN queue \cup {queued + 1}
<1>1. /\ queued < MaxEvents /\ queued' = queued + 1
      /\ queue' = [i \in D |-> IF i \in DOMAIN queue THEN queue[i] ELSE r]
  BY DEF Enqueue
<1>2. r \in Record
  BY QueueFacts DEF Record
<1>3. r.receives = 0 /\ r.holder = None
  OBVIOUS
<1> HIDE DEF r
<1>4. PICK head \in 1..queued + 1 : queue \in [head..queued -> Record]
  BY DEF QueueInv, Records
<1>5. head \in Nat /\ queued \in Nat /\ 1 <= head /\ head <= queued + 1
  BY <1>4, QueueFacts
<1>6. D = head..queued + 1
  BY <1>4, <1>5
<1>7. DOMAIN queue' = D /\ queue'[queued + 1] = r
      /\ \A i \in DOMAIN queue : queue'[i] = queue[i]
  BY <1>1, <1>4, <1>5
<1>8. queue' \in [head..queued + 1 -> Record]
  BY <1>1, <1>2, <1>4, <1>6
<1>9. Records(queue', queued') /\ queued' \in 0..MaxEvents
  <2>1. head \in 1..queued' + 1
    BY <1>1, <1>5
  <2>2. queued' \in 0..MaxEvents
    BY <1>1, QueueFacts
  <2> QED
    BY <1>1, <1>8, <2>1, <2>2 DEF Records
<1>10. Group(queue')
  <2>1. ASSUME NEW i \in D, NEW j \in D, i < j
        PROVE  /\ queue'[j].receives <= queue'[i].receives
               /\ queue'[j].holder # None => queue'[i].holder = queue'[j].holder
    <3>1. i \in DOMAIN queue
      BY <1>4, <1>5, <1>6, <2>1
    <3>2. CASE j \in DOMAIN queue
      BY <1>7, <3>1, <3>2, <2>1 DEF QueueInv, Group
    <3>3. CASE j = queued + 1
      <4>1. queue'[i].receives \in Nat
        BY <1>7, <3>1, QueueFacts
      <4> QED
        BY <1>3, <1>7, <3>3, <4>1
    <3> QED
      BY <3>2, <3>3
  <2>2. ASSUME NEW i \in D, queue'[i].holder = None
        PROVE  queue'[i].receives < MaxReceives
    <3>1. CASE i \in DOMAIN queue
      BY <1>7, <2>2, <3>1 DEF QueueInv, Group
    <3>2. CASE i = queued + 1
      BY <1>3, <1>7, <3>2, QueueFacts
    <3> QED
      BY <3>1, <3>2
  <2> QED
    BY <1>7, <2>1, <2>2 DEF Group
<1>11. ASSUME NEW v \in Workers  PROVE Held(queue', v) \subseteq Held(queue, v)
  BY <1>3, <1>7, InboxAssumption DEF Held
<1> QED
  BY <1>7, <1>9, <1>10, <1>11 DEF QueueInv

LEMMA ReceiveKeepsGroup ==
  ASSUME QueueInv, NEW w \in Workers,
         NEW first \in DOMAIN queue, NEW last \in DOMAIN queue, Receive(w, first, last)
  PROVE  /\ QueueInv'
         /\ DOMAIN queue' = DOMAIN queue
         /\ Held(queue', w) = {i \in DOMAIN queue : i <= last}
         /\ \A v \in Workers \ {w} : Held(queue', v) = {}
<1> DEFINE numbers == {i \in DOMAIN queue : i <= last}
<1>1. /\ \A i \in DOMAIN queue : queue[i].holder = None
      /\ queue' = [i \in DOMAIN queue |->
                     IF i \in numbers
                     THEN [queue[i] EXCEPT !.receives = queue[i].receives + 1, !.holder = w]
                     ELSE queue[i]]
      /\ queued' = queued
  BY DEF Receive
<1>2. w # None
  BY InboxAssumption
<1>3. \A i \in DOMAIN queue : queue[i].receives < MaxReceives
  BY <1>1 DEF QueueInv, Group
<1>4. ASSUME NEW i \in DOMAIN queue
      PROVE  /\ queue'[i] \in Record
             /\ queue'[i].receives = IF i \in numbers THEN queue[i].receives + 1
                                                      ELSE queue[i].receives
             /\ queue'[i].holder = IF i \in numbers THEN w ELSE None
  <2>1. queue[i] \in Record /\ queue[i].receives \in Nat /\ MaxReceives \in Nat
    BY QueueFacts
  <2>2. queue[i].receives + 1 \in 0..MaxReceives
    BY <1>3, <2>1
  <2>3. CASE i \in numbers
    <3>1. queue'[i] = [queue[i] EXCEPT !.receives = queue[i].receives + 1, !.holder = w]
      BY <1>1, <2>3
    <3> QED
      BY <2>1, <2>2, <2>3, <3>1 DEF Record
  <2>4. CASE i \notin numbers
    BY <1>1, <2>1, <2>4
  <2> QED
    BY <2>3, <2>4
<1>5. DOMAIN queue' = DOMAIN queue
  BY <1>1
<1>6. Records(queue', queued')
  <2>1. PICK head \in 1..queued + 1 : queue \in [head..queued -> Record]
    BY DEF QueueInv, Records
  <2>2. queue' \in [head..queued -> Record]
    BY <1>1, <1>4, <2>1
  <2> QED
    BY <1>1, <2>2 DEF Records
<1>7. Group(queue')
  <2>1. ASSUME NEW i \in DOMAIN queue, NEW j \in DOMAIN queue, i < j
        PROVE  /\ queue'[j].receives <= queue'[i].receives
               /\ queue'[j].holder # None => queue'[i].holder = queue'[j].holder
    <3>1. i \in Nat /\ j \in Nat /\ last \in Nat
      BY QueueFacts
    <3>2. j \in numbers => i \in numbers
      BY <2>1, <3>1
    <3>3. /\ queue[i].receives \in Nat /\ queue[j].receives \in Nat
          /\ queue[j].receives <= queue[i].receives
      BY <2>1, QueueFacts DEF QueueInv, Group
    <3> HIDE DEF numbers
    <3> QED
      BY <1>4, <3>2, <3>3
  <2>2. ASSUME NEW i \in DOMAIN queue, queue'[i].holder = None
        PROVE  queue'[i].receives < MaxReceives
    BY <1>2, <1>3, <1>4, <2>2
  <2> QED
    BY <1>5, <2>1, <2>2 DEF Group
<1>8. Held(queue', w) = numbers
  BY <1>2, <1>4, <1>5 DEF Held
<1>9. ASSUME NEW v \in Workers \ {w}  PROVE Held(queue', v) = {}
  BY <1>4, <1>5, InboxAssumption DEF Held
<1> QED
  BY <1>1, <1>5, <1>6, <1>7, <1>8, <1>9 DEF QueueInv

-----------------------------------------------------------------------------
(* The invocations                                                         *)

IngestionInv == QueueInv /\ JobsInv

LEMMA JobFacts ==
  ASSUME JobsInv, NEW w \in Workers
  PROVE  /\ job[w] \in Job
         /\ DOMAIN job[w].batch \subseteq Numbers
         /\ Numbers \subseteq Nat
         /\ \A i \in Numbers : i + 1 \in 1..MaxEvents + 1
         /\ Invocation(job[w], task[w].stage, Held(queue, w))
<1>1. job[w] \in Job /\ Invocation(job[w], task[w].stage, Held(queue, w))
  BY DEF JobsInv
<1>2. job[w].batch \in UNION {[numbers -> Event] : numbers \in SUBSET Numbers}
  BY <1>1 DEF Job
<1>3. PICK numbers \in SUBSET Numbers : job[w].batch \in [numbers -> Event]
  BY <1>2
<1>4. DOMAIN job[w].batch \subseteq Numbers
  BY <1>3
<1>5. Numbers \subseteq Nat /\ \A i \in Numbers : i + 1 \in 1..MaxEvents + 1
  BY InboxAssumption DEF Numbers
<1> QED
  BY <1>1, <1>4, <1>5

(* A batch is being handled, or its next record can be.                    *)
Busy(w) == \/ task[w].stage \notin {"idle", "next"}
           \/ task[w].stage = "next" /\ HasNext(w)

LEMMA BusyFacts ==
  ASSUME JobsInv, NEW w \in Workers, Busy(w)
  PROVE  /\ job[w].at \in DOMAIN job[w].batch
         /\ task[w].stage # "idle"
  BY JobFacts DEF Busy, HasNext, Invocation

(* A step of one task that leaves the queue alone.                         *)
LEMMA JobMoves ==
  ASSUME CursorInv, IngestionInv, NEW t \in Tasks, NEW f, NEW x,
         task' = [task EXCEPT ![t] = f],
         job' = IF t \in Workers THEN [job EXCEPT ![t] = x] ELSE job,
         UNCHANGED queueVars,
         t \in Workers => x \in Job /\ Invocation(x, f.stage, Held(queue, t))
  PROVE  IngestionInv'
<1>1. queue' = queue /\ queued' = queued
  BY DEF queueVars
<1>2. QueueInv'
  BY <1>1 DEF IngestionInv, QueueInv
<1>3. DOMAIN task = Tasks /\ job \in [Workers -> Job] /\ Workers \subseteq Tasks
  BY DEF CursorInv, FramesSound, IngestionInv, JobsInv, Tasks
<1>4. job' \in [Workers -> Job]
  BY <1>3
<1>5. ASSUME NEW w \in Workers
      PROVE  Invocation(job'[w], task'[w].stage, Held(queue', w))
  <2>1. CASE w = t
    <3>1. job'[w] = x /\ task'[w] = f
      BY <1>3, <2>1
    <3> QED
      BY <1>1, <2>1, <3>1
  <2>2. CASE w # t
    <3>1. job'[w] = job[w] /\ task'[w] = task[w]
      BY <1>3, <2>2
    <3> QED
      BY <1>1, <3>1 DEF IngestionInv, JobsInv
  <2> QED
    BY <2>1, <2>2
<1> QED
  BY <1>2, <1>4, <1>5 DEF IngestionInv, JobsInv

LEMMA TaskGoesOn ==
  ASSUME CursorInv, IngestionInv, NEW t \in Tasks, NEW f,
         task' = [task EXCEPT ![t] = f], UNCHANGED job, UNCHANGED queueVars,
         t \in Workers => Busy(t)
  PROVE  IngestionInv'
<1>1. job' = IF t \in Workers THEN [job EXCEPT ![t] = job[t]] ELSE job
  BY DEF IngestionInv, JobsInv
<1>2. ASSUME t \in Workers
      PROVE  job[t] \in Job /\ Invocation(job[t], f.stage, Held(queue, t))
  BY <1>2, JobFacts, BusyFacts DEF IngestionInv, Invocation
<1> QED
  BY <1>1, <1>2, JobMoves

LEMMA TaskLeaves ==
  ASSUME CursorInv, IngestionInv, NEW t \in Tasks, Succeeds(t) \/ Fails(t),
         UNCHANGED queueVars, t \in Workers => Busy(t)
  PROVE  IngestionInv'
<1> DEFINE f == IF t \in Workers THEN [IdleTask EXCEPT !.stage = "next"] ELSE IdleTask
<1>1. task' = [task EXCEPT ![t] = f]
  BY DEF Succeeds, Fails, Ends
<1>2. t \in Workers => f.stage = "next"
  BY DEF IdleTask
<1> HIDE DEF f
<1>3. CASE t \notin Workers
  BY <1>1, <1>3, JobMoves DEF Succeeds, Fails
<1>4. CASE t \in Workers
  <2> DEFINE done == [job[t] EXCEPT !.at = job[t].at + 1]
             rest == job[t].failed \cup {i \in DOMAIN job[t].batch : i >= job[t].at}
             failed == [job[t] EXCEPT !.failed = rest]
  <2>1. /\ job[t] \in Job
        /\ DOMAIN job[t].batch \subseteq Numbers /\ Numbers \subseteq Nat
        /\ \A i \in Numbers : i + 1 \in 1..MaxEvents + 1
        /\ job[t].at \in DOMAIN job[t].batch /\ job[t].at \in Numbers
        /\ Closed(job[t].failed, DOMAIN job[t].batch)
        /\ Held(queue, t) \subseteq DOMAIN job[t].batch
    BY <1>4, JobFacts, BusyFacts DEF IngestionInv, Invocation
  <2>2. CASE Succeeds(t)
    <3>1. job' = [job EXCEPT ![t] = done]
      BY <1>4, <2>2 DEF Succeeds
    <3>2. done \in Job /\ done.batch = job[t].batch /\ done.failed = job[t].failed
      BY <2>1 DEF Job
    <3> HIDE DEF done
    <3>3. Invocation(done, f.stage, Held(queue, t))
      BY <1>2, <1>4, <2>1, <3>2 DEF Invocation
    <3> QED
      BY <1>1, <1>4, <3>1, <3>2, <3>3, JobMoves
  <2>3. CASE Fails(t)
    <3>1. job' = [job EXCEPT ![t] = failed]
      BY <1>4, <2>3 DEF Fails
    <3>2. rest \in SUBSET Numbers
      BY <2>1 DEF Job
    <3>3. Closed(rest, DOMAIN job[t].batch)
      <4> SUFFICES ASSUME NEW i \in DOMAIN job[t].batch, NEW j \in DOMAIN job[t].batch,
                          i \in rest, i < j
                   PROVE  j \in rest
        BY DEF Closed
      <4>1. i \in Nat /\ j \in Nat /\ job[t].at \in Nat
        BY <2>1
      <4>2. CASE i \in job[t].failed
        BY <2>1, <4>2 DEF Closed
      <4>3. CASE i >= job[t].at
        BY <4>1, <4>3
      <4> QED
        BY <4>2, <4>3
    <3> HIDE DEF rest
    <3>4. failed \in Job /\ failed.batch = job[t].batch /\ failed.failed = rest
      BY <2>1, <3>2 DEF Job
    <3> HIDE DEF failed
    <3>5. Invocation(failed, f.stage, Held(queue, t))
      BY <1>2, <1>4, <2>1, <3>3, <3>4 DEF Invocation
    <3> QED
      BY <1>1, <1>4, <3>1, <3>4, <3>5, JobMoves
  <2> QED
    BY <2>2, <2>3
<1> QED
  BY <1>3, <1>4

(* A step that changes the queue, and no task or job of a worker that is   *)
(* not idle.                                                               *)
LEMMA HeldShrinks ==
  ASSUME IngestionInv, UNCHANGED <<task, job>>, QueueInv',
         \A v \in Workers : Held(queue', v) \subseteq Held(queue, v)
  PROVE  IngestionInv'
<1>1. JobsInv'
  BY DEF IngestionInv, JobsInv, Invocation
<1> QED
  BY <1>1 DEF IngestionInv

LEMMA IdleJobFacts ==
  /\ IdleJob \in Job /\ IdleTask.stage = "idle"
  /\ \A held : Invocation(IdleJob, IdleTask.stage, held)
<1>1. IdleJob.batch \in [{} -> Event] /\ DOMAIN IdleJob.batch = {}
  BY DEF IdleJob
<1>2. IdleJob.batch \in UNION {[numbers -> Event] : numbers \in SUBSET Numbers}
  BY <1>1
<1>3. IdleJob.at \in 1..MaxEvents + 1 /\ IdleJob.failed \in SUBSET Numbers
  BY InboxAssumption DEF IdleJob
<1>4. IdleJob = [batch |-> IdleJob.batch, at |-> IdleJob.at, failed |-> IdleJob.failed]
  BY DEF IdleJob
<1>5. IdleJob \in Job
  BY <1>2, <1>3, <1>4 DEF Job
<1> QED
  BY <1>1, <1>5 DEF Invocation, Closed, IdleTask

LEMMA ReceivePreserves ==
  ASSUME CursorInv, IngestionInv, NEW w \in Workers,
         NEW first \in DOMAIN queue, NEW last \in DOMAIN queue, Receive(w, first, last)
  PROVE  IngestionInv'
<1> DEFINE numbers == {i \in DOMAIN queue : i <= last}
           beyond == {i \in numbers : i >= first + BatchSize}
           batch == [i \in numbers |-> queue[i].event]
           x == [batch |-> batch, at |-> first, failed |-> beyond]
           f == [task[w] EXCEPT !.stage = "next"]
<1>1. job' = [job EXCEPT ![w] = x] /\ task' = [task EXCEPT ![w] = f]
  BY DEF Receive, GoTo
<1>2. /\ w \in Tasks /\ task[w] \in FrameShape /\ DOMAIN task = Tasks
      /\ QueueInv /\ job \in [Workers -> Job]
  BY InvFacts DEF Tasks, CursorInv, FramesSound, IngestionInv, JobsInv
<1>3. f.stage = "next"
  BY <1>2 DEF FrameShape
<1>4. numbers \in SUBSET Numbers /\ first \in Numbers /\ Numbers \subseteq Nat
  BY <1>2, QueueFacts DEF Numbers
<1>5. batch \in [numbers -> Event] /\ DOMAIN batch = numbers
  BY <1>2, QueueFacts DEF Record
<1>6. beyond \in SUBSET Numbers
  BY <1>4
<1>7. first \in 1..MaxEvents + 1
  BY <1>4, InboxAssumption DEF Numbers
<1>8. Closed(beyond, numbers)
  <2>1. BatchSize \in Nat
    BY InboxAssumption
  <2> QED
    BY <1>4, <2>1 DEF Closed
<1>9. /\ QueueInv'
      /\ Held(queue', w) = numbers
      /\ \A v \in Workers \ {w} : Held(queue', v) = {}
  BY <1>2, ReceiveKeepsGroup
<1> HIDE DEF numbers, beyond, batch, f
<1>10. batch \in UNION {[K -> Event] : K \in SUBSET Numbers}
  BY <1>4, <1>5
<1>11. x \in Job /\ x.batch = batch /\ x.failed = beyond
  BY <1>6, <1>7, <1>10 DEF Job
<1> HIDE DEF x
<1>12. job' \in [Workers -> Job]
  BY <1>1, <1>2, <1>11
<1>13. ASSUME NEW v \in Workers
       PROVE  Invocation(job'[v], task'[v].stage, Held(queue', v))
  <2>1. CASE v = w
    <3>1. job'[v] = x /\ task'[v] = f
      BY <1>1, <1>2, <2>1
    <3> QED
      BY <1>3, <1>5, <1>8, <1>9, <1>11, <2>1, <3>1 DEF Invocation
  <2>2. CASE v # w
    <3>1. job'[v] = job[v] /\ task'[v] = task[v]
      BY <1>1, <1>2, <2>2 DEF Tasks
    <3> QED
      BY <1>9, <2>2, <3>1, JobFacts DEF IngestionInv, Invocation
  <2> QED
    BY <2>1, <2>2
<1> QED
  BY <1>9, <1>12, <1>13 DEF IngestionInv, JobsInv

LEMMA ReturnPreserves ==
  ASSUME CursorInv, IngestionInv, NEW w \in Workers, Report(w) \/ VisibilityExpires(w)
  PROVE  IngestionInv' /\ Closed(DOMAIN queue', DOMAIN queue)
<1>1. QueueInv /\ JobsInv
  BY DEF IngestionInv
<1>2. CASE Report(w)
  <2>1. /\ queue' = Return(w, job[w].failed) /\ queued' = queued
        /\ task' = [task EXCEPT ![w] = IdleTask] /\ job' = [job EXCEPT ![w] = IdleJob]
        /\ task[w].stage = "next"
    BY <1>2 DEF Report
  <2>2. Closed(job[w].failed, Held(queue, w))
    BY <1>1, <2>1, JobFacts DEF Invocation, Closed
  <2>3. /\ QueueInv'
        /\ Closed(DOMAIN queue', DOMAIN queue)
        /\ \A v \in Workers : Held(queue', v) \subseteq Held(queue, v)
    BY <1>1, <2>1, <2>2, ReturnKeepsGroup
  <2>4. /\ job \in [Workers -> Job] /\ DOMAIN task = Tasks /\ Workers \subseteq Tasks
    BY <1>1 DEF JobsInv, CursorInv, FramesSound, Tasks
  <2>5. job' \in [Workers -> Job]
    BY <2>1, <2>4, IdleJobFacts
  <2>6. ASSUME NEW v \in Workers
        PROVE  Invocation(job'[v], task'[v].stage, Held(queue', v))
    <3>1. CASE v = w
      <4>1. job'[v] = IdleJob /\ task'[v] = IdleTask
        BY <2>1, <2>4, <3>1
      <4> QED
        BY <4>1, IdleJobFacts
    <3>2. CASE v # w
      <4>1. job'[v] = job[v] /\ task'[v] = task[v]
        BY <2>1, <2>4, <3>2
      <4> QED
        BY <1>1, <2>3, <4>1, JobFacts DEF Invocation
    <3> QED
      BY <3>1, <3>2
  <2> QED
    BY <2>3, <2>5, <2>6 DEF IngestionInv, JobsInv
<1>3. CASE VisibilityExpires(w)
  <2>1. queue' = Return(w, DOMAIN queue) /\ queued' = queued /\ UNCHANGED <<task, job>>
    BY <1>3 DEF VisibilityExpires
  <2>2. Closed(DOMAIN queue, Held(queue, w))
    BY DEF Closed, Held
  <2> QED
    BY <1>1, <2>1, <2>2, ReturnKeepsGroup, HeldShrinks
<1> QED
  BY <1>2, <1>3

-----------------------------------------------------------------------------
(* The steps of a task                                                     *)

(* What a step of a sync or of an event does to the task and its record:   *)
(* it goes on with them, or leaves them.                                   *)
Continues(t) ==
  /\ UNCHANGED job
  /\ \E f : task' = [task EXCEPT ![t] = f] /\ Counted(f)

Moves(t) ==
  /\ UNCHANGED queueVars
  /\ t \in Workers => Busy(t)
  /\ Continues(t) \/ Succeeds(t) \/ Fails(t)

TasksInv == CursorInv /\ IngestionInv /\ PagesInv

LEMMA FrameFacts ==
  ASSUME TasksInv, NEW t \in Tasks
  PROVE  /\ task[t] \in FrameShape /\ Counted(task[t])
         /\ DOMAIN task = Tasks
         /\ MaxPages \in Nat /\ MaxPages > 0
         /\ t \in Workers => t \notin Manuals
  BY InvFacts, InboxAssumption DEF TasksInv, PagesInv, CursorInv, FramesSound

LEMMA IdleCounted ==
  /\ Counted(IdleTask)
  /\ \A st \in Stages, b \in BOOLEAN, c \in Cursors, w \in BOOLEAN :
       /\ Counted([IdleTask EXCEPT !.stage = st])
       /\ Counted([IdleTask EXCEPT !.stage = st, !.resync = b, !.watching = w])
       /\ Counted([IdleTask EXCEPT !.stage = st, !.cursor = c, !.watching = w])
  BY InboxAssumption DEF Counted, IdleTask

(* The task goes on to a stage in which it has as many pages.              *)
LEMMA StageContinues ==
  ASSUME TasksInv, NEW t \in Tasks, NEW st \in Stages, GoTo(t, st), UNCHANGED job,
         \/ st \notin {"idle", "next", "stored", "open", "list"}
         \/ task[t].stage \in {"idle", "next", "stored", "open", "list"}
  PROVE  Continues(t)
<1> DEFINE f == [task[t] EXCEPT !.stage = st]
<1>1. task' = [task EXCEPT ![t] = f]
  BY DEF GoTo
<1>2. f.stage = st /\ f.pages = task[t].pages
  BY FrameFacts DEF FrameShape
<1> HIDE DEF f
<1>3. Counted(f)
  BY <1>2, FrameFacts DEF Counted
<1> QED
  BY <1>1, <1>3 DEF Continues

LEMMA SyncStepMoves ==
  ASSUME TasksInv, NEW t \in Tasks, SyncStep(t)
  PROVE  Moves(t)
<1>1. /\ task[t] \in FrameShape /\ Counted(task[t])
      /\ MaxPages \in Nat /\ MaxPages > 0
      /\ t \in Workers => t \notin Manuals
  BY FrameFacts
<1>2. UNCHANGED queueVars
  BY DEF SyncStep, Open, OpenConflict, ListPage, ListForgotten, ListFails, RecordHeader,
         Import, ImportFails, ReadSources, SaveCursor, Refused
<1>3. t \in Workers => Busy(t)
  <2>1. t \in Workers => task[t].stage \in {"open", "list", "headers", "import"}
    BY <1>1 DEF SyncStep, Open, OpenConflict, ListPage, ListForgotten, ListFails,
                RecordHeader, Import, ImportFails, ReadSources, SaveCursor, Refused,
                Lists, PageDone
  <2> QED
    BY <2>1 DEF Busy
<1>4. SUFFICES Continues(t) \/ Succeeds(t) \/ Fails(t)
  BY <1>2, <1>3 DEF Moves
<1>5. CASE Open(t)
  <2> DEFINE c == IF t \in Manuals THEN cursor ELSE task[t].cursor
             f == [task[t] EXCEPT !.stage = "list", !.cursor = c]
  <2>1. /\ task' = [task EXCEPT ![t] = f] /\ UNCHANGED job
        /\ task[t].stage \in {"idle", "open"}
    BY <1>5 DEF Open
  <2> HIDE DEF c
  <2>2. f.stage = "list" /\ f.pages = task[t].pages
    BY <1>1 DEF FrameShape
  <2> HIDE DEF f
  <2>3. Counted(f)
    BY <1>1, <2>1, <2>2 DEF Counted
  <2> QED
    BY <2>1, <2>3 DEF Continues
<1>6. CASE ListPage(t)
  <2> DEFINE n == NextCursor(task[t].cursor)
             h == HasMore(task[t].cursor)
             p == Page(task[t].cursor)
             g == task[t].pages + 1
             f == [task[t] EXCEPT !.stage = "headers", !.cursor = n, !.more = h,
                                  !.pages = g, !.page = p, !.todo = p]
  <2>1. task' = [task EXCEPT ![t] = f] /\ UNCHANGED job
    BY <1>6 DEF ListPage
  <2>2. g <= MaxPages
    <3>1. CASE task[t].stage = "list"
      BY <1>1, <3>1 DEF Counted
    <3>2. CASE task[t].pages < MaxPages
      BY <1>1, <3>2 DEF FrameShape
    <3> QED
      BY <1>6, <3>1, <3>2 DEF ListPage, Lists, GoesOn
  <2> HIDE DEF n, h, p, g
  <2>3. f.stage = "headers" /\ f.pages = g
    BY <1>1 DEF FrameShape
  <2> HIDE DEF f
  <2>4. Counted(f)
    BY <2>2, <2>3 DEF Counted
  <2> QED
    BY <2>1, <2>4 DEF Continues
<1>7. CASE ListForgotten(t)
  <2>1. CASE Fails(t)
    BY <2>1
  <2>2. CASE t \in Workers /\ ~task[t].resync /\ Handling(t).kind = "mail_changed"
    <3> DEFINE f == [IdleTask EXCEPT !.stage = "open", !.resync = TRUE,
                                     !.watching = task[t].watching]
    <3>1. task' = [task EXCEPT ![t] = f] /\ UNCHANGED job
      BY <1>7, <2>2 DEF ListForgotten
    <3>2. task[t].watching \in BOOLEAN
      BY <1>1 DEF FrameShape
    <3>3. \A st \in Stages, b \in BOOLEAN, w \in BOOLEAN :
            Counted([IdleTask EXCEPT !.stage = st, !.resync = b, !.watching = w])
      BY NoCursorSound, IdleCounted
    <3>4. Counted(f)
      BY <3>2, <3>3 DEF Stages
    <3> HIDE DEF f
    <3> QED
      BY <3>1, <3>4 DEF Continues
  <2> QED
    BY <1>7, <2>1, <2>2 DEF ListForgotten
<1>8. ASSUME NEW m \in Positions, RecordHeader(t, m)  PROVE Continues(t)
  <2> DEFINE page == IF row[m] = "imported" THEN task[t].page \ {m} ELSE task[t].page
             f == [task[t] EXCEPT !.todo = task[t].todo \ {m}, !.page = page]
  <2>1. task' = [task EXCEPT ![t] = f] /\ UNCHANGED job
    BY <1>8 DEF RecordHeader
  <2> HIDE DEF page
  <2>2. f.stage = task[t].stage /\ f.pages = task[t].pages
    BY <1>1 DEF FrameShape
  <2> HIDE DEF f
  <2> QED
    BY <1>1, <2>1, <2>2 DEF Continues, Counted
<1>9. CASE ReadSources(t)
  <2> DEFINE todo == {m \in task[t].page : SenderOf[m] \in confirmed}
             f == [task[t] EXCEPT !.stage = "import", !.page = {}, !.todo = todo]
  <2>1. task' = [task EXCEPT ![t] = f] /\ UNCHANGED job
    BY <1>9 DEF ReadSources
  <2> HIDE DEF todo
  <2>2. f.stage = "import" /\ f.pages = task[t].pages
    BY <1>1 DEF FrameShape
  <2> HIDE DEF f
  <2> QED
    BY <1>1, <2>1, <2>2 DEF Continues, Counted
<1>10. ASSUME NEW m \in Positions, Import(t, m) \/ ImportFails(t, m)  PROVE Continues(t)
  <2> DEFINE f == [task[t] EXCEPT !.todo = task[t].todo \ {m}]
  <2>1. task' = [task EXCEPT ![t] = f] /\ UNCHANGED job
    BY <1>10 DEF Import, ImportFails
  <2>2. f.stage = task[t].stage /\ f.pages = task[t].pages
    BY <1>1 DEF FrameShape
  <2> HIDE DEF f
  <2> QED
    BY <1>1, <2>1, <2>2 DEF Continues, Counted
<1>11. CASE SaveCursor(t)
  <2>1. CASE t \in Workers
    <3>1. PICK st \in {"due", "checkpoint"} : GoTo(t, st)
      BY <1>11, <2>1 DEF SaveCursor
    <3>2. UNCHANGED job
      BY <1>11, <2>1 DEF SaveCursor
    <3> QED
      BY <3>1, <3>2, StageContinues DEF Stages
  <2>2. CASE t \notin Workers
    BY <1>11, <2>2 DEF SaveCursor
  <2> QED
    BY <2>1, <2>2
<1> QED
  BY <1>5, <1>6, <1>7, <1>8, <1>9, <1>10, <1>11
     DEF SyncStep, OpenConflict, ListFails, Refused

(* The steps of an event that are not those of its sync.                   *)
EventStep(w) ==
  \/ BeginMail(w) \/ BeginMissed(w) \/ BeginReauthorization(w) \/ ChooseStored(w)
  \/ MarkRenewalDue(w) \/ ReadActive(w) \/ RecordCheckpoint(w)

LEMMA EventStepMoves ==
  ASSUME TasksInv, NEW w \in Workers, EventStep(w)
  PROVE  Moves(w)
<1>1. w \in Tasks /\ task[w] \in FrameShape /\ Counted(task[w])
  BY FrameFacts DEF Tasks
<1>2. UNCHANGED queueVars
  BY DEF EventStep, BeginMail, BeginMissed, BeginReauthorization, ChooseStored,
         MarkRenewalDue, ReadActive, RecordCheckpoint
<1>3. Busy(w)
  BY DEF EventStep, BeginMail, BeginMissed, BeginReauthorization, ChooseStored,
         MarkRenewalDue, ReadActive, RecordCheckpoint, Begins, Busy
<1>4. SUFFICES Continues(w) \/ Succeeds(w) \/ Fails(w)
  BY <1>2, <1>3 DEF Moves
<1>5. CASE BeginMail(w)
  <2> DEFINE active == subscription.status = "active"
             st == IF active /\ subscription.cursor # NoCursor THEN "open" ELSE "stored"
             c == IF active THEN subscription.cursor ELSE NoCursor
             f == [IdleTask EXCEPT !.stage = st, !.cursor = c, !.watching = active]
  <2>1. task' = [task EXCEPT ![w] = f] /\ UNCHANGED job
    BY <1>5 DEF BeginMail
  <2>2. c \in Cursors /\ active \in BOOLEAN /\ st \in Stages
    BY InvFacts, NoCursorSound DEF TasksInv, Sound, Good, Stages
  <2> HIDE DEF c, active, st
  <2>3. Counted(f)
    BY <2>2, IdleCounted
  <2> HIDE DEF f
  <2> QED
    BY <2>1, <2>3 DEF Continues
<1>6. CASE BeginMissed(w)
  BY <1>1, <1>6, StageContinues DEF BeginMissed, Begins, Stages
<1>7. CASE ChooseStored(w)
  <2> DEFINE f == [task[w] EXCEPT !.stage = "open", !.cursor = cursor]
  <2>1. task' = [task EXCEPT ![w] = f] /\ UNCHANGED job /\ task[w].stage = "stored"
    BY <1>7 DEF ChooseStored
  <2>2. f.stage = "open" /\ f.pages = task[w].pages
    BY <1>1 DEF FrameShape
  <2> HIDE DEF f
  <2> QED
    BY <1>1, <2>1, <2>2 DEF Continues, Counted
<1>8. CASE MarkRenewalDue(w)
  BY <1>1, <1>8, StageContinues DEF MarkRenewalDue, Stages
<1>9. CASE ReadActive(w)
  <2>1. CASE GoTo(w, "record") /\ UNCHANGED job
    BY <1>1, <2>1, StageContinues DEF Stages
  <2> QED
    BY <1>9, <2>1 DEF ReadActive
<1> QED
  BY <1>5, <1>6, <1>7, <1>8, <1>9 DEF EventStep, BeginReauthorization, RecordCheckpoint

(* Such a step keeps the invariants of the queue, the invocations and the  *)
(* counted pages.                                                          *)
LEMMA MovesPreserve ==
  ASSUME TasksInv, NEW t \in Tasks, Moves(t)
  PROVE  IngestionInv' /\ PagesInv'
<1>1. CursorInv /\ IngestionInv /\ DOMAIN task = Tasks /\ UNCHANGED queueVars
  BY FrameFacts DEF TasksInv, Moves
<1>2. CASE Continues(t)
  <2>1. PICK f : task' = [task EXCEPT ![t] = f] /\ Counted(f)
    BY <1>2 DEF Continues
  <2>2. PagesInv'
    BY <1>1, <2>1 DEF TasksInv, PagesInv
  <2>3. IngestionInv'
    BY <1>1, <1>2, <2>1, TaskGoesOn DEF Continues, Moves
  <2> QED
    BY <2>2, <2>3
<1>3. CASE Succeeds(t) \/ Fails(t)
  <2>1. PICK f \in {IdleTask, [IdleTask EXCEPT !.stage = "next"]} :
          task' = [task EXCEPT ![t] = f]
    BY <1>3 DEF Succeeds, Fails, Ends
  <2>2. Counted(f)
    BY NoCursorSound, IdleCounted DEF Stages
  <2>3. PagesInv'
    BY <1>1, <2>1, <2>2 DEF TasksInv, PagesInv
  <2> QED
    BY <1>1, <1>3, <2>3, TaskLeaves DEF Moves
<1> QED
  BY <1>2, <1>3 DEF Moves

(* The handler takes a batch, reports it, or dies.                         *)
LEMMA InvocationPreserves ==
  ASSUME TasksInv, NEW w \in Workers,
         \/ \E first, last \in DOMAIN queue : Receive(w, first, last)
         \/ Report(w) \/ WorkerCrashes(w)
  PROVE  IngestionInv' /\ PagesInv'
<1>1. /\ CursorInv /\ IngestionInv /\ PagesInv /\ DOMAIN task = Tasks /\ w \in Tasks
      /\ task[w] \in FrameShape /\ Counted(task[w])
  BY FrameFacts DEF TasksInv, Tasks
<1>2. PagesInv'
  <2>1. PICK f : task' = [task EXCEPT ![w] = f] /\ Counted(f)
    <3>1. CASE Report(w) \/ WorkerCrashes(w)
      <4>1. Counted(IdleTask)
        BY IdleCounted
      <4> QED
        BY <3>1, <4>1 DEF Report, WorkerCrashes
    <3>2. ASSUME NEW first, NEW last, Receive(w, first, last)
          PROVE  \E f : task' = [task EXCEPT ![w] = f] /\ Counted(f)
      <4> DEFINE f == [task[w] EXCEPT !.stage = "next"]
      <4>1. task' = [task EXCEPT ![w] = f] /\ task[w].stage = "idle"
        BY <3>2 DEF Receive, GoTo
      <4>2. f.stage = "next" /\ f.pages = task[w].pages
        BY <1>1 DEF FrameShape
      <4> HIDE DEF f
      <4> QED
        BY <1>1, <4>1, <4>2 DEF Counted
    <3> QED
      BY <3>1, <3>2
  <2> QED
    BY <1>1, <2>1 DEF PagesInv
<1>3. CASE WorkerCrashes(w)
  <2>1. IngestionInv'
    BY <1>1, <1>3, IdleJobFacts, JobMoves DEF WorkerCrashes
  <2> QED
    BY <1>2, <2>1
<1>4. CASE Report(w)
  BY <1>1, <1>2, <1>4, ReturnPreserves
<1>5. CASE \E first, last \in DOMAIN queue : Receive(w, first, last)
  BY <1>1, <1>2, <1>5, ReceivePreserves
<1> QED
  BY <1>3, <1>4, <1>5

(* The steps of no task.                                                   *)
LEMMA OthersPreserve ==
  ASSUME TasksInv,
         \/ Environment
         \/ \E w \in Workers : VisibilityExpires(w)
         \/ \E r \in Renewers : Watch(r)
         \/ UNCHANGED vars
  PROVE  IngestionInv' /\ PagesInv'
<1>1. CursorInv /\ IngestionInv /\ PagesInv /\ QueueInv
  BY DEF TasksInv, IngestionInv
<1>2. UNCHANGED <<task, job>>
  BY DEF Environment, Mailbox, Routes, Webhooks, Arrive, Forget, Disconnect,
         SetSourceStatus, NotifyMail, NotifyLifecycle, Enqueue, VisibilityExpires,
         Watch, RenewDue, EnsureSubscription, Register, StoreWatch, RegisterFails,
         RegisterRefused, RequireReauthorization, vars
<1>3. PagesInv'
  BY <1>1, <1>2 DEF PagesInv
<1>4. CASE UNCHANGED queueVars
  <2>1. queue' = queue /\ queued' = queued
    BY <1>4 DEF queueVars
  <2>2. QueueInv'
    BY <1>1, <2>1 DEF QueueInv
  <2> QED
    BY <1>1, <1>2, <1>3, <2>1, <2>2, HeldShrinks
<1>5. ASSUME NEW e \in Event, Enqueue(e)  PROVE IngestionInv'
  BY <1>1, <1>2, <1>5, EnqueueKeepsGroup, HeldShrinks
<1>6. ASSUME NEW w \in Workers, VisibilityExpires(w)  PROVE IngestionInv'
  BY <1>1, <1>6, ReturnPreserves
<1>7. ASSUME NEW m \in Positions, NotifyMail(m)  PROVE IngestionInv'
  <2>1. MailChanged(m) \in Event
    BY InboxAssumption DEF MailChanged, Event, Positions
  <2> QED
    BY <1>5, <1>7, <2>1 DEF NotifyMail
<1>8. ASSUME NEW kind \in Lifecycle, NotifyLifecycle(kind)  PROVE IngestionInv'
  <2>1. [kind |-> kind, mail |-> 0] \in Event
    BY InboxAssumption DEF Event
  <2> QED
    BY <1>5, <1>8, <2>1 DEF NotifyLifecycle
<1>9. CASE Arrive \/ Forget \/ Disconnect
             \/ \E s \in Senders : \E d \in {"confirmed", "rejected"} : SetSourceStatus(s, d)
  BY <1>4, <1>9 DEF Arrive, Forget, Disconnect, SetSourceStatus
<1>10. ASSUME NEW r \in Renewers, Watch(r)  PROVE IngestionInv'
  BY <1>4, <1>10 DEF Watch, RenewDue, EnsureSubscription, Register, StoreWatch,
                     RegisterFails, RegisterRefused, RequireReauthorization
<1> QED
  BY <1>3, <1>4, <1>6, <1>7, <1>8, <1>9, <1>10 DEF Environment, Mailbox, Routes, Webhooks, vars

-----------------------------------------------------------------------------
(* The provider and the counters                                           *)

LEMMA FaultCounts ==
  ASSUME ProviderInv, NEW f, Fault(f)
  PROVE  faults' \in 0..MaxFaults
  BY InboxAssumption DEF ProviderInv, Fault

LEMMA ProviderRests ==
  ASSUME ProviderInv, UNCHANGED <<providerVars, confirmed, watched, renewal>>,
         status' \in ConnectionStatuses, faults' \in 0..MaxFaults
  PROVE  ProviderInv'
  BY DEF ProviderInv, providerVars

LEMMA StepsOfTasksRest ==
  ASSUME ProviderInv,
         \/ \E t \in Tasks : SyncStep(t)
         \/ \E w \in Workers : Handle(w) \/ VisibilityExpires(w) \/ WorkerCrashes(w)
  PROVE  ProviderInv'
<1> DEFINE Rests == /\ UNCHANGED <<providerVars, confirmed, watched, renewal>>
                    /\ status' \in {status, "reauthorization_required"}
                    /\ faults' = faults \/ \E f : Fault(f)
<1> USE DEF providerVars, storeVars
<1>1. ASSUME NEW t, SyncStep(t)  PROVE Rests
  <2>1. CASE Open(t) \/ OpenConflict(t) \/ ListPage(t) \/ ListForgotten(t) \/ ReadSources(t)
    BY <2>1 DEF Open, OpenConflict, ListPage, ListForgotten, ReadSources
  <2>2. CASE SaveCursor(t)
    BY <2>2 DEF SaveCursor
  <2>3. CASE Refused(t)
    BY <2>3 DEF Refused
  <2>4. CASE ListFails(t)
    BY <2>4 DEF ListFails
  <2>5. ASSUME NEW m, RecordHeader(t, m) \/ Import(t, m) \/ ImportFails(t, m)  PROVE Rests
    BY <2>5 DEF RecordHeader, Import, ImportFails
  <2> HIDE DEF Rests
  <2> QED
    BY <1>1, <2>1, <2>2, <2>3, <2>4, <2>5 DEF SyncStep
<1>2. ASSUME NEW w, Handle(w) \/ VisibilityExpires(w) \/ WorkerCrashes(w)  PROVE Rests
  <2>1. CASE BeginMail(w) \/ BeginMissed(w) \/ BeginReauthorization(w) \/ ChooseStored(w)
    BY <2>1 DEF BeginMail, BeginMissed, BeginReauthorization, ChooseStored
  <2>2. CASE MarkRenewalDue(w) \/ ReadActive(w)
    BY <2>2 DEF MarkRenewalDue, ReadActive
  <2>3. CASE RecordCheckpoint(w)
    BY <2>3 DEF RecordCheckpoint
  <2>4. CASE Report(w) \/ VisibilityExpires(w) \/ WorkerCrashes(w)
    BY <2>4 DEF Report, VisibilityExpires, WorkerCrashes
  <2>5. ASSUME NEW first, NEW last, Receive(w, first, last)  PROVE Rests
    BY <2>5 DEF Receive
  <2> HIDE DEF Rests
  <2> QED
    BY <1>1, <1>2, <2>1, <2>2, <2>3, <2>4, <2>5 DEF Handle
<1>3. Rests
  BY <1>1, <1>2
<1>4. status' \in ConnectionStatuses /\ faults' \in 0..MaxFaults
  BY <1>3, FaultCounts DEF ProviderInv, ConnectionStatuses
<1> QED
  BY <1>3, <1>4, ProviderRests

LEMMA EnvironmentKeepsProvider ==
  ASSUME CursorInv, ProviderInv, Environment
  PROVE  ProviderInv'
<1> USE DEF providerVars, storeVars
<1>1. /\ ProviderInv /\ arrived \in Nat /\ oldest \in Nat /\ watched \in Nat
      /\ \A r \in Renewers : renewal[r].cursor.at \in Nat /\ renewal[r].cursor.at <= arrived
  BY InboxAssumption DEF CursorInv, MailboxTyped, RenewalsSound, Renewal, Cursors,
                         ProviderInv
<1>2. CASE Arrive
  <2>1. /\ arrived' = arrived + 1
        /\ UNCHANGED <<provider, oldest, registered, confirmed, status, faults, watched,
                       renewal>>
    BY <1>2 DEF Arrive
  <2>2. /\ oldest \in 0..arrived' /\ watched \in 0..arrived'
        /\ \A r \in Renewers : renewal[r].cursor.at <= arrived'
    BY <1>1, <2>1 DEF ProviderInv
  <2> QED
    BY <1>1, <2>1, <2>2 DEF ProviderInv
<1>3. CASE Forget
  <2>1. /\ oldest' = arrived /\ faults' \in 0..MaxFaults
        /\ UNCHANGED <<provider, arrived, registered, confirmed, status, watched, renewal>>
    BY <1>1, <1>3, FaultCounts DEF Forget
  <2> QED
    BY <1>1, <2>1 DEF ProviderInv
<1>4. CASE Disconnect
  BY <1>1, <1>4, FaultCounts, ProviderRests DEF Disconnect, ConnectionStatuses
<1>5. ASSUME NEW s \in Senders, NEW d, SetSourceStatus(s, d)  PROVE ProviderInv'
  <2>1. /\ confirmed' \subseteq confirmed \cup {s}
        /\ UNCHANGED <<provider, arrived, oldest, registered, status, faults, watched,
                       renewal>>
    BY <1>5 DEF SetSourceStatus
  <2> QED
    BY <1>1, <2>1 DEF ProviderInv
<1>6. ASSUME NEW e, Enqueue(e)  PROVE ProviderInv'
  BY <1>1, <1>6, ProviderRests DEF Enqueue, ProviderInv
<1> QED
  BY <1>2, <1>3, <1>4, <1>5, <1>6
  DEF Environment, Mailbox, Routes, Webhooks, NotifyMail, NotifyLifecycle

LEMMA WatchKeepsProvider ==
  ASSUME CursorInv, ProviderInv, NEW r \in Renewers, Watch(r)
  PROVE  ProviderInv'
<1> USE DEF providerVars, storeVars
<1>1. /\ ProviderInv /\ arrived \in Nat /\ watched \in 0..arrived
      /\ renewal \in [Renewers -> Renewal]
      /\ renewal[r] \in Renewal /\ renewal[r].cursor.at \in Nat
      /\ renewal[r].cursor.at <= arrived
  BY InboxAssumption DEF CursorInv, MailboxTyped, RenewalsSound, Renewal, Cursors,
                         ProviderInv
<1>2. UNCHANGED <<provider, arrived, oldest, confirmed>>
  BY DEF Watch, RenewDue, EnsureSubscription, Register, StoreWatch, RegisterFails,
         RegisterRefused, RequireReauthorization
<1>3. registered' \in BOOLEAN
  BY <1>1 DEF Watch, RenewDue, EnsureSubscription, Register, StoreWatch, RegisterFails,
              RegisterRefused, RequireReauthorization, ProviderInv
<1>4. status' \in ConnectionStatuses
  BY <1>1 DEF Watch, RenewDue, EnsureSubscription, Register, StoreWatch, RegisterFails,
              RegisterRefused, RequireReauthorization, ProviderInv, ConnectionStatuses
<1>5. faults' \in 0..MaxFaults
  <2>1. faults' = faults \/ \E f : Fault(f)
    BY DEF Watch, RenewDue, EnsureSubscription, Register, StoreWatch, RegisterFails,
           RegisterRefused, RequireReauthorization
  <2> QED
    BY <1>1, <2>1, FaultCounts DEF ProviderInv
<1>6. watched' \in 0..arrived
  <2>1. watched' = watched \/ watched' = renewal[r].cursor.at
    BY DEF Watch, RenewDue, EnsureSubscription, Register, StoreWatch, RegisterFails,
           RegisterRefused, RequireReauthorization
  <2> QED
    BY <1>1, <2>1
<1>7. PICK x : renewal' = [renewal EXCEPT ![r] = x] /\ x.cursor.at <= arrived
  <2>1. NoCursor.at <= arrived /\ After(arrived).at <= arrived
    BY <1>1 DEF NoCursor, After
  <2>2. IdleRenewal.cursor.at <= arrived
    BY <2>1 DEF IdleRenewal
  <2>3. CASE Register(r)
    <3> DEFINE c == IF provider = "gmail" THEN After(arrived) ELSE NoCursor
               x == [renewal[r] EXCEPT !.stage = "store", !.cursor = c]
    <3>1. c.at <= arrived
      BY <2>1
    <3>2. renewal' = [renewal EXCEPT ![r] = x]
      BY <2>3 DEF Register
    <3> HIDE DEF c
    <3>3. x.cursor = c
      BY <1>1 DEF Renewal
    <3> HIDE DEF x
    <3> QED
      BY <3>1, <3>2, <3>3
  <2>4. CASE StoreWatch(r) \/ RegisterFails(r) \/ RequireReauthorization(r)
    BY <2>2, <2>4 DEF StoreWatch, RegisterFails, RequireReauthorization
  <2>5. CASE RenewDue(r)
    <3> DEFINE x == [IdleRenewal EXCEPT !.stage = "register", !.due = TRUE]
    <3>1. x.cursor = IdleRenewal.cursor
      BY DEF IdleRenewal
    <3>2. renewal' = [renewal EXCEPT ![r] = x]
      BY <2>5 DEF RenewDue
    <3> HIDE DEF x
    <3> QED
      BY <2>2, <3>1, <3>2
  <2>6. ASSUME NEW st, renewal' = [renewal EXCEPT ![r].stage = st]
        PROVE  \E x : renewal' = [renewal EXCEPT ![r] = x] /\ x.cursor.at <= arrived
    <3> DEFINE x == [renewal[r] EXCEPT !.stage = st]
    <3>1. x.cursor = renewal[r].cursor
      BY <1>1 DEF Renewal
    <3>2. renewal' = [renewal EXCEPT ![r] = x]
      BY <2>6
    <3> HIDE DEF x
    <3> QED
      BY <1>1, <3>1, <3>2
  <2>7. CASE EnsureSubscription(r)
    BY <2>6, <2>7 DEF EnsureSubscription
  <2>8. CASE RegisterRefused(r)
    BY <2>2, <2>6, <2>8 DEF RegisterRefused
  <2> QED
    BY <2>3, <2>4, <2>5, <2>7, <2>8 DEF Watch
<1>8. \A q \in Renewers : renewal'[q].cursor.at <= arrived
  BY <1>1, <1>7 DEF ProviderInv
<1> QED
  BY <1>1, <1>2, <1>3, <1>4, <1>5, <1>6, <1>8 DEF ProviderInv

-----------------------------------------------------------------------------
(* TypeOK and InOrder                                                      *)

InboxInv == CursorInv /\ IngestionInv /\ PagesInv /\ ProviderInv

LEMMA InboxInit ==
  ASSUME Init  PROVE InboxInv
<1> USE DEF Init
<1>1. /\ MaxEvents \in Nat /\ MaxFaults \in Nat /\ MaxReceives \in Nat
      /\ arrived = 0
  BY InboxAssumption
<1>2. QueueInv
  <2>1. queue = <<>> /\ queued = 0
    OBVIOUS
  <2>2. DOMAIN queue = {} /\ queue \in [1..0 -> Record]
    BY <2>1
  <2>3. Records(queue, queued)
    BY <2>1, <2>2 DEF Records
  <2> QED
    BY <1>1, <2>1, <2>2, <2>3 DEF QueueInv, Group
<1>3. JobsInv
  <2>1. \A w \in Workers : job[w] = IdleJob /\ task[w] = IdleTask
    BY DEF Tasks
  <2>2. job \in [Workers -> Job]
    BY IdleJobFacts
  <2> QED
    BY <2>1, <2>2, IdleJobFacts DEF JobsInv
<1>4. PagesInv
  BY IdleCounted DEF PagesInv
<1>5. ProviderInv
  <2>1. \A r \in Renewers : renewal[r].cursor.at = 0
    BY DEF IdleRenewal, NoCursor
  <2>2. oldest \in 0..arrived /\ watched \in 0..arrived /\ faults \in 0..MaxFaults
    BY <1>1
  <2>3. status \in ConnectionStatuses /\ provider \in Providers /\ confirmed \subseteq Senders
    BY DEF ConnectionStatuses
  <2>4. registered \in BOOLEAN
    OBVIOUS
  <2>5. \A r \in Renewers : renewal[r].cursor.at <= arrived
    <3> SUFFICES ASSUME NEW r \in Renewers  PROVE renewal[r].cursor.at <= arrived
      OBVIOUS
    <3> HIDE DEF Init
    <3> QED
      BY <1>1, <2>1
  <2> QED
    BY <2>2, <2>3, <2>4, <2>5 DEF ProviderInv
<1> QED
  BY <1>2, <1>3, <1>4, <1>5, CursorInit DEF InboxInv, IngestionInv

LEMMA InboxStep ==
  ASSUME InboxInv, [Next]_vars  PROVE InboxInv'
<1>1. TasksInv /\ CursorInv /\ ProviderInv /\ CursorInv'
  BY CursorInvStep DEF InboxInv, TasksInv
<1>2. CASE \E t \in Manuals : SyncStep(t)
  <2>1. PICK t \in Tasks : SyncStep(t)
    BY <1>2 DEF Tasks
  <2> QED
    BY <1>1, <2>1, SyncStepMoves, MovesPreserve, StepsOfTasksRest DEF InboxInv
<1>3. ASSUME NEW w \in Workers, Handle(w) \/ WorkerCrashes(w)  PROVE InboxInv'
  <2>1. w \in Tasks
    BY DEF Tasks
  <2>2. ProviderInv'
    BY <1>1, <1>3, StepsOfTasksRest
  <2>3. CASE SyncStep(w) \/ EventStep(w)
    BY <1>1, <2>1, <2>2, <2>3, SyncStepMoves, EventStepMoves, MovesPreserve DEF InboxInv
  <2>4. CASE \/ \E first, last \in DOMAIN queue : Receive(w, first, last)
             \/ Report(w) \/ WorkerCrashes(w)
    BY <1>1, <2>2, <2>4, InvocationPreserves DEF InboxInv
  <2> QED
    BY <1>3, <2>3, <2>4 DEF Handle, EventStep
<1>4. CASE Environment
  BY <1>1, <1>4, OthersPreserve, EnvironmentKeepsProvider DEF InboxInv
<1>5. ASSUME NEW w \in Workers, VisibilityExpires(w)  PROVE InboxInv'
  BY <1>1, <1>5, OthersPreserve, StepsOfTasksRest DEF InboxInv
<1>6. ASSUME NEW r \in Renewers, Watch(r)  PROVE InboxInv'
  BY <1>1, <1>6, OthersPreserve, WatchKeepsProvider DEF InboxInv
<1>7. CASE UNCHANGED vars
  <2>1. ProviderInv'
    BY <1>1, <1>7 DEF ProviderInv, vars, providerVars, storeVars
  <2> QED
    BY <1>1, <1>7, <2>1, OthersPreserve DEF InboxInv
<1> QED
  BY <1>2, <1>3, <1>4, <1>5, <1>6, <1>7 DEF Next

(* Every record of the ingestion queue is one of those queued last, none   *)
(* of them missing, received no more often than the queue allows; a batch  *)
(* is handled from one of its records to the next, and a sync lists no     *)
(* more pages than it may.                                                 *)
THEOREM InboxTypeOK == Spec => []TypeOK
<1>1. InboxInv => TypeOK
  <2> SUFFICES ASSUME InboxInv  PROVE TypeOK
    OBVIOUS
  <2>1. CursorInv /\ QueueInv /\ JobsInv /\ PagesInv /\ ProviderInv
    BY DEF InboxInv, IngestionInv
  <2>2. task \in [Tasks -> Frame]
    <3>1. task \in [Tasks -> FrameShape]
      BY <2>1 DEF CursorInv, FramesSound
    <3>2. ASSUME NEW t \in Tasks  PROVE task[t] \in Frame
      <4>1. task[t] \in FrameShape /\ task[t].pages <= MaxPages /\ MaxPages \in Nat
        BY <2>1, <3>1, InboxAssumption DEF PagesInv, Counted
      <4>2. task[t].pages \in 0..MaxPages
        BY <4>1 DEF FrameShape
      <4> QED
        BY <4>1, <4>2 DEF FrameShape, Frame, Stages
    <3> QED
      BY <3>1, <3>2
  <2>3. cursor \in Cursors /\ subscription \in Subscription
    BY <2>1, InvFacts DEF Sound, Good
  <2>4. /\ arrived \in 0..MaxMessages
        /\ row \in [Positions -> {"absent", "listed", "imported"}]
        /\ renewal \in [Renewers -> Renewal]
    BY <2>1 DEF CursorInv, MailboxTyped, RenewalsSound
  <2>5. /\ queued \in 0..MaxEvents
        /\ \E head \in 1..queued + 1 : queue \in [head..queued -> Record]
    BY <2>1 DEF QueueInv, Records
  <2>6. job \in [Workers -> Job]
    BY <2>1 DEF JobsInv
  <2> QED
    BY <2>1, <2>2, <2>3, <2>4, <2>5, <2>6 DEF TypeOK, ProviderInv
<1> QED
  BY <1>1, InboxInit, InboxStep, PTL DEF Spec

(* However records fail, time out or exceed the limit of a batch, and      *)
(* whatever workers die or are too slow, no event of an inbox is done with *)
(* while one that was queued before it is not.                             *)
THEOREM InboxInOrder == Spec => InOrder
<1> DEFINE Orderly == \A i, j \in DOMAIN queue :
                        i < j /\ j \notin DOMAIN queue' => i \notin DOMAIN queue'
<1>1. ASSUME InboxInv, [Next]_vars  PROVE [Orderly]_vars
  <2>1. CursorInv /\ IngestionInv /\ TasksInv /\ QueueInv
    BY <1>1 DEF InboxInv, IngestionInv, TasksInv
  <2>2. SUFFICES ASSUME Next  PROVE Orderly
    BY <1>1
  <2>3. CASE queue' = queue
    BY <2>3
  <2>4. ASSUME NEW w \in Workers, Report(w) \/ VisibilityExpires(w)  PROVE Orderly
    BY <2>1, <2>4, ReturnPreserves DEF Closed
  <2>5. ASSUME NEW w \in Workers, NEW first \in DOMAIN queue, NEW last \in DOMAIN queue,
               Receive(w, first, last)
        PROVE  Orderly
    BY <2>1, <2>5, ReceiveKeepsGroup
  <2>6. ASSUME NEW e, Enqueue(e)  PROVE Orderly
    BY <2>6 DEF Enqueue
  <2>7. ASSUME NEW t \in Tasks, SyncStep(t)  PROVE queue' = queue
    BY <2>1, <2>7, SyncStepMoves DEF Moves, queueVars
  <2>8. ASSUME NEW w \in Workers, EventStep(w) \/ WorkerCrashes(w)  PROVE queue' = queue
    BY <2>1, <2>8, EventStepMoves DEF Moves, WorkerCrashes, queueVars
  <2>9. ASSUME NEW w \in Workers, Handle(w)  PROVE Orderly
    BY <2>3, <2>4, <2>5, <2>7, <2>8, <2>9 DEF Handle, EventStep, Tasks
  <2>10. ASSUME NEW r \in Renewers, Watch(r)  PROVE queue' = queue
    BY <2>10 DEF Watch, RenewDue, EnsureSubscription, Register, StoreWatch, RegisterFails,
                 RegisterRefused, RequireReauthorization, queueVars
  <2>11. CASE Environment
    <3>1. CASE Arrive \/ Forget \/ Disconnect
                 \/ \E s \in Senders : \E d \in {"confirmed", "rejected"} :
                      SetSourceStatus(s, d)
      BY <2>3, <3>1 DEF Arrive, Forget, Disconnect, SetSourceStatus, queueVars
    <3> QED
      BY <2>6, <2>11, <3>1
      DEF Environment, Mailbox, Routes, Webhooks, NotifyMail, NotifyLifecycle
  <2> HIDE DEF Orderly
  <2> QED
    BY <2>2, <2>3, <2>4, <2>7, <2>8, <2>9, <2>10, <2>11 DEF Next, Tasks
<1> QED
  BY <1>1, InboxInit, InboxStep, PTL DEF Spec, InOrder

=============================================================================
