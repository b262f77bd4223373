----------------------------- MODULE InboxSync -----------------------------
(***************************************************************************)
(* How the messages of one inbox are found: syncs follow a cursor through  *)
(* the provider's log, notifications queue events whose handling syncs     *)
(* from the subscription's checkpoint, and renewals register the watch     *)
(* that the notifications come from.                                       *)
(*                                                                         *)
(*   manual    sync_connection, called by the API; one that dies is one    *)
(*             that takes no further step                                  *)
(*   worker    the ingestion handler: a batch of events of the household's *)
(*             FIFO group, each handled by process_ingestion_event         *)
(*   renewer   renew_due_subscriptions and ensure_subscription             *)
(*                                                                         *)
(* A message is its position in the order of arrival.  Messages says what  *)
(* happens between the header and the packet of one message; here a row is *)
(* absent, listed, or imported.  Reconnecting is in Connections: here an   *)
(* account that stops being connected stays so.  sync_status is left out:  *)
(* it is only displayed.                                                   *)
(***************************************************************************)
EXTENDS Naturals

CONSTANTS
  Providers,     \* those the connection may be with
  Senders,
  SenderOf,      \* sender of the message at a position
  Manuals,       \* concurrent calls of the sync route
  Workers,       \* concurrent invocations of the ingestion handler
  Renewers,      \* concurrent registrations of the watch
  PageSize,      \* messages on a page of a listing
  MaxPages,      \* max_pages of sync_connection
  BatchSize,     \* records of one invocation
  MaxReceives,   \* receptions before a record goes to the dead letters
  MaxMessages,   \* bound: messages that arrive
  MaxEvents,     \* bound: events that are queued
  MaxFaults,     \* bound: of the things that may go wrong
  Faults,        \* what may go wrong in this configuration
  None           \* no worker

Positions == 1..MaxMessages

ASSUME InboxAssumption ==
  /\ Providers \subseteq {"gmail", "outlook"}
  /\ PageSize \in Nat \ {0}
  /\ MaxPages \in Nat \ {0}
  /\ BatchSize \in Nat \ {0}
  /\ MaxReceives \in Nat \ {0}
  /\ MaxMessages \in Nat
  /\ MaxEvents \in Nat
  /\ MaxFaults \in Nat
  /\ SenderOf \in [Positions -> Senders]
  /\ Manuals \cap Workers = {}
  /\ None \notin Workers
  /\ Faults \subseteq {"call",     \* a provider call fails
                       "import",   \* a message cannot be fetched or stored
                       "auth",     \* credentials are missing or refused
                       "expired",  \* the provider forgets old positions
                       "crash",    \* a worker dies
                       "slow",     \* a worker outlives the visibility timeout
                       "disconnect"}

VARIABLES
  provider,      \* of the connection
  arrived,       \* the inbox holds the positions 1..arrived
  oldest,        \* the provider serves cursors from this position on
  row,           \* the messages table
  confirmed,     \* senders whose row of school_sources is confirmed
  status,        \* connections.status
  cursor,        \* connections.sync_cursor
  subscription,  \* the row of webhook_subscriptions
  registered,    \* the provider has a watch to notify
  queue,         \* the ingestion queue, one FIFO group per household: the
                 \* records that are neither done nor dead, by their number
  queued,        \* events queued so far, the number of the last
  task,          \* frames of sync_connection and process_ingestion_event
  job,           \* frames of the ingestion handler
  renewal,       \* frames of a registration
  faults,        \* faults so far
  watched        \* history: the highest position a watch started from

providerVars == <<provider, arrived, oldest, registered>>
storeVars == <<row, confirmed, status, cursor, subscription>>
queueVars == <<queue, queued>>
vars == <<providerVars, storeVars, queueVars, task, job, renewal, faults, watched>>

-----------------------------------------------------------------------------
(* Cursors and listings                                                    *)

(* "after": a history id or a delta link, the position listed last.        *)
(* "page": a token of Gmail's message list, the position to go on with     *)
(* downwards.  "none": NULL, list from the start.                          *)
Cursors == [kind : {"none", "page", "after"}, at : 0..MaxMessages]

NoCursor == [kind |-> "none", at |-> 0]
After(p) == [kind |-> "after", at |-> p]

(* Gmail lists the inbox newest first and its history, like Graph its      *)
(* delta, oldest first.                                                    *)
Backwards(c) == provider = "gmail" /\ c.kind # "after"

Newest(c) == IF c.kind = "page" THEN c.at ELSE arrived

Page(c) == IF Backwards(c)
           THEN {m \in Positions : m <= Newest(c) /\ Newest(c) < m + PageSize}
           ELSE {m \in Positions : c.at < m /\ m <= c.at + PageSize /\ m <= arrived}

HasMore(c) == IF Backwards(c) THEN Newest(c) > PageSize
                              ELSE arrived > c.at + PageSize

(* The message list ends without a cursor; the others end at the present.  *)
NextCursor(c) ==
  IF Backwards(c)
  THEN IF HasMore(c) THEN [kind |-> "page", at |-> Newest(c) - PageSize] ELSE NoCursor
  ELSE After(IF HasMore(c) THEN c.at + PageSize ELSE arrived)

Forgotten(c) == c.kind = "after" /\ c.at < oldest

-----------------------------------------------------------------------------
(* Types                                                                   *)

Lifecycle == {"missed", "subscription_removed", "reauthorization_required"}

Event == [kind : {"mail_changed"} \cup Lifecycle, mail : 0..MaxMessages]

ConnectionStatuses == {"connected", "reauthorization_required", "disconnected"}

Subscription ==
  [status : {"none", "active", "renewal_due", "reauthorization_required"},
   cursor : Cursors]

Record == [event : Event, receives : 0..MaxReceives, holder : Workers \cup {None}]

Numbers == 1..MaxEvents

Tasks == Manuals \cup Workers

(* pages: those listed by this sync; page: the messages of the page without *)
(* contents; todo: those still to be recorded or imported; cursor and more: *)
(* where the listing stands; resync: the sync repeats one whose cursor was *)
(* forgotten; watching: an active subscription was read.                   *)
Frame == [stage    : {"idle", "next", "stored", "open", "list", "headers",
                      "import", "due", "checkpoint", "record"},
          cursor   : Cursors,
          more     : BOOLEAN,
          pages    : 0..MaxPages,
          page     : SUBSET Positions,
          todo     : SUBSET Positions,
          resync   : BOOLEAN,
          watching : BOOLEAN]

(* batch: the records of the invocation by their number; at: the record it *)
(* has come to; failed: the batchItemFailures so far.                      *)
Job == [batch  : UNION {[numbers -> Event] : numbers \in SUBSET Numbers},
        at     : 1..MaxEvents + 1,
        failed : SUBSET Numbers]

Renewal == [stage : {"idle", "register", "store", "refused"},
            due : BOOLEAN, cursor : Cursors]

TypeOK ==
  /\ provider \in Providers
  /\ arrived \in 0..MaxMessages
  /\ oldest \in 0..arrived
  /\ registered \in BOOLEAN
  /\ row \in [Positions -> {"absent", "listed", "imported"}]
  /\ confirmed \subseteq Senders
  /\ status \in ConnectionStatuses
  /\ cursor \in Cursors
  /\ subscription \in Subscription
  /\ queued \in 0..MaxEvents
  /\ \E head \in 1..queued + 1 : queue \in [head..queued -> Record]
  /\ task \in [Tasks -> Frame]
  /\ job \in [Workers -> Job]
  /\ renewal \in [Renewers -> Renewal]
  /\ faults \in 0..MaxFaults
  /\ watched \in 0..arrived

IdleTask == [stage |-> "idle", cursor |-> NoCursor, more |-> FALSE, pages |-> 0,
             page |-> {}, todo |-> {}, resync |-> FALSE, watching |-> FALSE]

IdleJob == [batch |-> <<>>, at |-> 1, failed |-> {}]

IdleRenewal == [stage |-> "idle", due |-> FALSE, cursor |-> NoCursor]

(* A connected inbox that was never synced or watched.                     *)
Init ==
  /\ provider \in Providers
  /\ arrived = 0
  /\ oldest = 0
  /\ row = [m \in Positions |-> "absent"]
  /\ confirmed = {}
  /\ status = "connected"
  /\ cursor = NoCursor
  /\ subscription = [status |-> "none", cursor |-> NoCursor]
  /\ registered = FALSE
  /\ queue = <<>>
  /\ queued = 0
  /\ task = [t \in Tasks |-> IdleTask]
  /\ job = [w \in Workers |-> IdleJob]
  /\ renewal = [r \in Renewers |-> IdleRenewal]
  /\ faults = 0
  /\ watched = 0

-----------------------------------------------------------------------------
(* Provider, caregiver and faults                                          *)

Fault(f) ==
  /\ f \in Faults
  /\ faults < MaxFaults
  /\ faults' = faults + 1

Arrive ==
  /\ arrived < MaxMessages
  /\ arrived' = arrived + 1
  /\ UNCHANGED <<provider, oldest, registered, storeVars, queueVars, task, job, renewal,
                 faults, watched>>

(* Cursors from before the present expire.                                 *)
Forget ==
  /\ Fault("expired")
  /\ oldest # arrived
  /\ oldest' = arrived
  /\ UNCHANGED <<provider, arrived, registered, storeVars, queueVars, task, job, renewal, watched>>

(* set_source_status: a sender has a row once a message of it is listed.   *)
SetSourceStatus(s, decision) ==
  /\ \E m \in Positions : SenderOf[m] = s /\ row[m] # "absent"
  /\ confirmed' = IF decision = "confirmed" THEN confirmed \cup {s} ELSE confirmed \ {s}
  /\ UNCHANGED <<providerVars, row, status, cursor, subscription, queueVars, task,
                 job, renewal, faults, watched>>

Disconnect ==
  /\ Fault("disconnect")
  /\ status' = "disconnected"
  /\ UNCHANGED <<providerVars, row, confirmed, cursor, subscription, queueVars, task,
                 job, renewal, watched>>

-----------------------------------------------------------------------------
(* Webhooks                                                                *)

(* gmail_webhook looks for a connected account, outlook_webhook for an     *)
(* active subscription; what they do not accept is answered and dropped.   *)
Accepts == IF provider = "gmail" THEN status = "connected"
                                 ELSE subscription.status = "active"

(* Deduplication drops an event that is still queued; one that was handled *)
(* may be announced again, the queue forgets its key after five minutes.   *)
Queued == {queue[i].event : i \in DOMAIN queue}

Enqueue(e) ==
  /\ registered
  /\ Accepts
  /\ e \notin Queued
  /\ queued < MaxEvents
  /\ queued' = queued + 1
  /\ queue' = [i \in DOMAIN queue \cup {queued + 1} |->
                 IF i \in DOMAIN queue
                 THEN queue[i]
                 ELSE [event |-> e, receives |-> 0, holder |-> None]]
  /\ UNCHANGED <<providerVars, storeVars, task, job, renewal, faults, watched>>

MailChanged(m) == [kind |-> "mail_changed", mail |-> m]

NotifyMail(m) == m <= arrived /\ Enqueue(MailChanged(m))

NotifyLifecycle(kind) ==
  /\ provider = "outlook"
  /\ Enqueue([kind |-> kind, mail |-> 0])

-----------------------------------------------------------------------------
(* sync_connection                                                         *)

GoTo(t, stage) == task' = [task EXCEPT ![t].stage = stage]

Ends(t) == task' = [task EXCEPT ![t] = IF t \in Workers
                                       THEN [IdleTask EXCEPT !.stage = "next"]
                                       ELSE IdleTask]

Succeeds(t) ==
  /\ Ends(t)
  /\ job' = IF t \in Workers THEN [job EXCEPT ![t].at = job[t].at + 1] ELSE job

(* Mistake: the records that follow a failed one are attempted.            *)
FailsAlone(t) ==
  /\ Ends(t)
  /\ job' = IF t \in Workers
            THEN [job EXCEPT ![t] = [batch  |-> job[t].batch,
                                     at     |-> job[t].at + 1,
                                     failed |-> job[t].failed \cup {job[t].at}]]
            ELSE job

(* The records of the group that follow a failed one are not attempted.    *)
Fails(t) ==
  /\ Ends(t)
  /\ job' = IF t \in Workers
            THEN [job EXCEPT ![t].failed =
                    job[t].failed \cup {i \in DOMAIN job[t].batch : i >= job[t].at}]
            ELSE job

(* A record of the batch is left to be handled.                            *)
HasNext(w) == job[w].at \in DOMAIN job[w].batch \ job[w].failed

Handling(w) == job[w].batch[job[w].at]

(* get_connection: a manual sync starts here and takes the stored cursor,  *)
(* that of an event brings its own.                                        *)
Open(t) ==
  /\ task[t].stage = IF t \in Manuals THEN "idle" ELSE "open"
  /\ status = "connected"
  /\ task' = [task EXCEPT ![t] = [task[t] EXCEPT
                !.stage = "list",
                !.cursor = IF t \in Manuals THEN cursor ELSE task[t].cursor]]
  /\ UNCHANGED <<providerVars, storeVars, queueVars, job, renewal, faults, watched>>

OpenConflict(t) ==
  /\ task[t].stage = "open"
  /\ status # "connected"
  /\ Fails(t)
  /\ UNCHANGED <<providerVars, storeVars, queueVars, renewal, faults, watched>>

(* Mistake: the cursor is saved once the headers are there.                *)
PageListed(t) == task[t].stage \in {"headers", "import"}

(* After a page the sync goes on, or saves where it stands.                *)
PageDone(t) == task[t].stage = "import" /\ task[t].todo = {}

GoesOn(t) == task[t].more /\ task[t].pages < MaxPages

Lists(t) == task[t].stage = "list" \/ (PageDone(t) /\ GoesOn(t))

ListPage(t) ==
  LET c == task[t].cursor IN
  /\ Lists(t)
  /\ ~Forgotten(c)
  /\ task' = [task EXCEPT ![t] = [task[t] EXCEPT
                !.stage = "headers", !.cursor = NextCursor(c), !.more = HasMore(c),
                !.pages = task[t].pages + 1, !.page = Page(c), !.todo = Page(c)]]
  /\ UNCHANGED <<providerVars, storeVars, queueVars, job, renewal, faults, watched>>

(* Mistake: an event fails like a manual sync.                             *)
ListForgottenFails(t) ==
  /\ Lists(t)
  /\ Forgotten(task[t].cursor)
  /\ Fails(t)
  /\ UNCHANGED <<providerVars, storeVars, queueVars, renewal, faults, watched>>

(* FullResyncRequiredError: only the handler of mail_changed starts over,  *)
(* and once.                                                               *)
ListForgotten(t) ==
  /\ Lists(t)
  /\ Forgotten(task[t].cursor)
  /\ IF t \in Workers /\ ~task[t].resync /\ Handling(t).kind = "mail_changed"
     THEN /\ task' = [task EXCEPT ![t] =
                        [IdleTask EXCEPT !.stage = "open", !.resync = TRUE,
                                         !.watching = task[t].watching]]
          /\ UNCHANGED job
     ELSE Fails(t)
  /\ UNCHANGED <<providerVars, storeVars, queueVars, renewal, faults, watched>>

ListFails(t) ==
  /\ Lists(t)
  /\ Fault("call")
  /\ Fails(t)
  /\ UNCHANGED <<providerVars, storeVars, queueVars, renewal, watched>>

(* upsert_source_suggestion and upsert_message_header.                     *)
RecordHeader(t, m) ==
  /\ task[t].stage = "headers"
  /\ m \in task[t].todo
  /\ row' = IF row[m] = "absent" THEN [row EXCEPT ![m] = "listed"] ELSE row
  /\ task' = [task EXCEPT ![t] = [task[t] EXCEPT
                !.todo = task[t].todo \ {m},
                !.page = IF row[m] = "imported" THEN task[t].page \ {m} ELSE task[t].page]]
  /\ UNCHANGED <<providerVars, confirmed, status, cursor, subscription, queueVars, job,
                 renewal, faults, watched>>

(* list_sources: messages of other senders are passed over.                *)
ReadSources(t) ==
  /\ task[t].stage = "headers"
  /\ task[t].todo = {}
  /\ task' = [task EXCEPT ![t] = [task[t] EXCEPT
                !.stage = "import",
                !.page = {},
                !.todo = {m \in task[t].page : SenderOf[m] \in confirmed}]]
  /\ UNCHANGED <<providerVars, storeVars, queueVars, job, renewal, faults, watched>>

Import(t, m) ==
  /\ task[t].stage = "import"
  /\ m \in task[t].todo
  /\ row' = [row EXCEPT ![m] = "imported"]
  /\ task' = [task EXCEPT ![t].todo = task[t].todo \ {m}]
  /\ UNCHANGED <<providerVars, confirmed, status, cursor, subscription, queueVars, job,
                 renewal, faults, watched>>

(* The message is marked failed, the sync goes on.                         *)
ImportFails(t, m) ==
  /\ task[t].stage = "import"
  /\ m \in task[t].todo
  /\ Fault("import")
  /\ task' = [task EXCEPT ![t].todo = task[t].todo \ {m}]
  /\ UNCHANGED <<providerVars, storeVars, queueVars, job, renewal, watched>>

(* update_connection_sync; an event goes on with its checkpoint.           *)
SaveCursor(t) ==
  /\ PageDone(t)
  /\ ~GoesOn(t)
  /\ cursor' = task[t].cursor
  /\ IF t \in Workers
     THEN /\ GoTo(t, IF /\ task[t].resync
                        /\ task[t].watching
                        /\ task[t].cursor = NoCursor
                     THEN "due" ELSE "checkpoint")
          /\ UNCHANGED job
     ELSE Succeeds(t)
  /\ UNCHANGED <<providerVars, row, confirmed, status, subscription, queueVars, renewal,
                 faults, watched>>

(* Credentials are missing or a call is refused: set_connection_status     *)
(* writes over whatever the status is by now.                              *)
Refused(t) ==
  /\ Lists(t) \/ (task[t].stage = "import" /\ task[t].todo # {})
  /\ Fault("auth")
  /\ status' = "reauthorization_required"
  /\ Fails(t)
  /\ UNCHANGED <<providerVars, row, confirmed, cursor, subscription, queueVars, renewal,
                 watched>>

SyncStep(t) ==
  \/ Open(t) \/ OpenConflict(t)
  \/ ListPage(t) \/ ListForgotten(t) \/ ListFails(t)
  \/ \E m \in Positions : RecordHeader(t, m) \/ Import(t, m) \/ ImportFails(t, m)
  \/ ReadSources(t) \/ SaveCursor(t) \/ Refused(t)

-----------------------------------------------------------------------------
(* process_ingestion_event                                                 *)

Begins(w, kind) ==
  /\ task[w].stage = "next"
  /\ HasNext(w)
  /\ Handling(w).kind = kind

(* get_active_subscription_for_connection: new mail is looked for from its *)
(* checkpoint, or from the cursor of the connection.                       *)
BeginMail(w) ==
  LET active == subscription.status = "active" IN
  /\ Begins(w, "mail_changed")
  /\ task' = [task EXCEPT ![w] = [IdleTask EXCEPT
                !.stage = IF active /\ subscription.cursor # NoCursor THEN "open"
                                                                      ELSE "stored",
                !.cursor = IF active THEN subscription.cursor ELSE NoCursor,
                !.watching = active]]
  /\ UNCHANGED <<providerVars, storeVars, queueVars, job, renewal, faults, watched>>

(* Missed notifications: from the start.                                   *)
BeginMissed(w) ==
  /\ Begins(w, "missed")
  /\ GoTo(w, "open")
  /\ UNCHANGED <<providerVars, storeVars, queueVars, job, renewal, faults, watched>>

BeginReauthorization(w) ==
  /\ Begins(w, "reauthorization_required")
  /\ status' = "reauthorization_required"
  /\ Succeeds(w)
  /\ UNCHANGED <<providerVars, row, confirmed, cursor, subscription, queueVars, renewal,
                 faults, watched>>

ChooseStored(w) ==
  /\ task[w].stage = "stored"
  /\ task' = [task EXCEPT ![w] = [task[w] EXCEPT !.stage = "open", !.cursor = cursor]]
  /\ UNCHANGED <<providerVars, storeVars, queueVars, job, renewal, faults, watched>>

(* Mistake: the cursor is cleared, the watch stays active.                 *)
ClearCursor(w) ==
  /\ task[w].stage = "due"
  /\ subscription' = [subscription EXCEPT !.cursor = NoCursor]
  /\ GoTo(w, "checkpoint")
  /\ UNCHANGED <<providerVars, row, confirmed, status, cursor, queueVars, job, renewal,
                 faults, watched>>

(* A full resync that ended without a cursor has a new watch registered.   *)
MarkRenewalDue(w) ==
  /\ task[w].stage = "due"
  /\ subscription' = [status |-> "renewal_due", cursor |-> NoCursor]
  /\ GoTo(w, "checkpoint")
  /\ UNCHANGED <<providerVars, row, confirmed, status, cursor, queueVars, job, renewal,
                 faults, watched>>

(* _record_checkpoint reads the active subscription, then writes to it; a  *)
(* sync that ended without a cursor leaves the checkpoint as it is.  The   *)
(* removal of a subscription begins here.                                  *)
ReadActive(w) ==
  /\ task[w].stage = "checkpoint" \/ Begins(w, "subscription_removed")
  /\ IF /\ subscription.status = "active"
        /\ Handling(w).kind = "mail_changed" => task[w].cursor # NoCursor
     THEN GoTo(w, "record") /\ UNCHANGED job
     ELSE Succeeds(w)
  /\ UNCHANGED <<providerVars, storeVars, queueVars, renewal, faults, watched>>

RecordCheckpoint(w) ==
  /\ task[w].stage = "record"
  /\ subscription' =
       CASE Handling(w).kind = "subscription_removed" ->
              [subscription EXCEPT !.status = "renewal_due"]
         [] Handling(w).kind = "missed" /\ task[w].cursor = NoCursor ->
              [status |-> "renewal_due", cursor |-> NoCursor]
         [] OTHER -> [subscription EXCEPT !.cursor = task[w].cursor]
  /\ Succeeds(w)
  /\ UNCHANGED <<providerVars, row, confirmed, status, cursor, queueVars, renewal,
                 faults, watched>>

-----------------------------------------------------------------------------
(* The ingestion handler and its queue                                     *)

(***************************************************************************)
(* The head of the group, the records from first to last, goes to one      *)
(* invocation at a time; what it gets beyond the batch limit it reports as *)
(* failed.                                                                 *)
(***************************************************************************)
Receive(w, first, last) ==
  LET numbers == {i \in DOMAIN queue : i <= last} IN
  /\ task[w].stage = "idle"
  /\ first \in numbers
  /\ \A i \in DOMAIN queue : first <= i /\ queue[i].holder = None
  /\ job' = [job EXCEPT ![w] = [batch  |-> [i \in numbers |-> queue[i].event],
                               at     |-> first,
                               failed |-> {i \in numbers : i >= first + BatchSize}]]
  /\ queue' = [i \in DOMAIN queue |->
                 IF i \in numbers
                 THEN [queue[i] EXCEPT !.receives = queue[i].receives + 1, !.holder = w]
                 ELSE queue[i]]
  /\ GoTo(w, "next")
  /\ UNCHANGED <<providerVars, storeVars, queued, renewal, faults, watched>>

(* Of the records w holds, the kept become visible again.                  *)
Restore(w, kept) ==
  [i \in {k \in DOMAIN queue : queue[k].holder = w => k \in kept} |->
     IF queue[i].holder = w THEN [queue[i] EXCEPT !.holder = None] ELSE queue[i]]

(* Mistake: a record comes back however often it was received.             *)
ReturnForever(w, failed) == Restore(w, failed)

(* Those in failed come back or go to the dead letters; the others are     *)
(* deleted.                                                                *)
Return(w, failed) ==
  Restore(w, {i \in failed \cap DOMAIN queue : queue[i].receives < MaxReceives})

Report(w) ==
  /\ task[w].stage = "next"
  /\ ~HasNext(w)
  /\ queue' = Return(w, job[w].failed)
  /\ task' = [task EXCEPT ![w] = IdleTask]
  /\ job' = [job EXCEPT ![w] = IdleJob]
  /\ UNCHANGED <<providerVars, storeVars, queued, renewal, faults, watched>>

Holds(w) == \E i \in DOMAIN queue : queue[i].holder = w

VisibilityExpires(w) ==
  /\ Holds(w)
  /\ IF task[w].stage = "idle" THEN UNCHANGED faults ELSE Fault("slow")
  /\ queue' = Return(w, DOMAIN queue)
  /\ UNCHANGED <<providerVars, storeVars, queued, task, job, renewal, watched>>

WorkerCrashes(w) ==
  /\ task[w].stage # "idle"
  /\ Fault("crash")
  /\ task' = [task EXCEPT ![w] = IdleTask]
  /\ job' = [job EXCEPT ![w] = IdleJob]
  /\ UNCHANGED <<providerVars, storeVars, queueVars, renewal, watched>>

Handle(w) ==
  \/ \E first, last \in DOMAIN queue : Receive(w, first, last)
  \/ BeginMail(w) \/ BeginMissed(w) \/ BeginReauthorization(w) \/ ChooseStored(w)
  \/ SyncStep(w)
  \/ MarkRenewalDue(w) \/ ReadActive(w) \/ RecordCheckpoint(w)
  \/ Report(w)

-----------------------------------------------------------------------------
(* Watches                                                                 *)

(* renew_due_subscriptions does not look at the connection: list_-         *)
(* subscriptions_due returns watches that expire, are old, or are marked.  *)
RenewDue(r) ==
  /\ renewal[r].stage = "idle"
  /\ subscription.status \in {"active", "renewal_due"}
  /\ renewal' = [renewal EXCEPT ![r] = [IdleRenewal EXCEPT !.stage = "register",
                                                           !.due = TRUE]]
  /\ UNCHANGED <<providerVars, storeVars, queueVars, task, job, faults, watched>>

(* The notifications route; an active watch that has time left is kept.    *)
EnsureSubscription(r) ==
  /\ renewal[r].stage = "idle"
  /\ status = "connected"
  /\ renewal' = [renewal EXCEPT ![r].stage = "register"]
  /\ UNCHANGED <<providerVars, storeVars, queueVars, task, job, faults, watched>>

(* Gmail answers with its present history id, Graph without a cursor.      *)
Register(r) ==
  /\ renewal[r].stage = "register"
  /\ renewal' = [renewal EXCEPT ![r] = [renewal[r] EXCEPT
                   !.stage = "store",
                   !.cursor = IF provider = "gmail" THEN After(arrived) ELSE NoCursor]]
  /\ registered' = TRUE
  /\ UNCHANGED <<provider, arrived, oldest, storeVars, queueVars, task, job, faults, watched>>

(* upsert_webhook_subscription.                                            *)
StoreWatch(r) ==
  LET c == renewal[r].cursor IN
  /\ renewal[r].stage = "store"
  /\ subscription' = [status |-> "active", cursor |-> c]
  /\ watched' = IF c.at > watched THEN c.at ELSE watched
  /\ renewal' = [renewal EXCEPT ![r] = IdleRenewal]
  /\ UNCHANGED <<providerVars, row, confirmed, status, cursor, queueVars, task, job, faults>>

RegisterFails(r) ==
  /\ renewal[r].stage = "register"
  /\ Fault("call")
  /\ subscription' = IF renewal[r].due THEN [subscription EXCEPT !.status = "renewal_due"]
                                       ELSE subscription
  /\ renewal' = [renewal EXCEPT ![r] = IdleRenewal]
  /\ UNCHANGED <<providerVars, row, confirmed, status, cursor, queueVars, task, job, watched>>

(* Only a renewal marks the watch and then the connection.                 *)
RegisterRefused(r) ==
  /\ renewal[r].stage = "register"
  /\ Fault("auth")
  /\ IF renewal[r].due
     THEN /\ subscription' = [subscription EXCEPT !.status = "reauthorization_required"]
          /\ renewal' = [renewal EXCEPT ![r].stage = "refused"]
     ELSE /\ renewal' = [renewal EXCEPT ![r] = IdleRenewal]
          /\ UNCHANGED subscription
  /\ UNCHANGED <<providerVars, row, confirmed, status, cursor, queueVars, task, job, watched>>

RequireReauthorization(r) ==
  /\ renewal[r].stage = "refused"
  /\ status' = "reauthorization_required"
  /\ renewal' = [renewal EXCEPT ![r] = IdleRenewal]
  /\ UNCHANGED <<providerVars, row, confirmed, cursor, subscription, queueVars, task, job,
                 faults, watched>>

Watch(r) ==
  \/ RenewDue(r) \/ EnsureSubscription(r)
  \/ Register(r) \/ StoreWatch(r)
  \/ RegisterFails(r) \/ RegisterRefused(r) \/ RequireReauthorization(r)

-----------------------------------------------------------------------------

Mailbox == Arrive \/ Forget

Routes ==
  \/ Disconnect
  \/ \E s \in Senders : \E d \in {"confirmed", "rejected"} : SetSourceStatus(s, d)

Webhooks ==
  \/ \E m \in Positions : NotifyMail(m)
  \/ \E kind \in Lifecycle : NotifyLifecycle(kind)

Environment == Mailbox \/ Routes \/ Webhooks

Next ==
  \/ Environment
  \/ \E t \in Manuals : SyncStep(t)
  \/ \E w \in Workers : Handle(w) \/ VisibilityExpires(w) \/ WorkerCrashes(w)
  \/ \E r \in Renewers : Watch(r)

(* Lambda polls the queue and runs its invocations on; a record that is    *)
(* not returned becomes visible.  Nobody has to sync, renew or reconnect.  *)
Fairness ==
  \A w \in Workers : /\ WF_vars(Handle(w))
                     /\ WF_vars(VisibilityExpires(w) /\ task[w].stage = "idle")

Spec == Init /\ [][Next]_vars /\ Fairness

(* A caregiver who syncs again and again.                                  *)
SyncingSpec ==
  Spec /\ \A t \in Manuals : WF_vars(SyncStep(t))

-----------------------------------------------------------------------------
(* Properties                                                              *)

(* Every message at or before a history id or a delta link that is stored  *)
(* has been listed, whichever syncs, events and renewals stored it in what *)
(* order; the one exception is the watch of Gmail, whose cursor starts at  *)
(* the time of the registration and passes over what was not yet listed.   *)
NothingPassedOver ==
  \A c \in {cursor, subscription.cursor} :
    c.kind = "after" => \A m \in 1..c.at : row[m] # "absent" \/ m <= watched

(* An active watch of Gmail keeps the position its events start from: no   *)
(* handling of an event and no failed renewal leaves it without one.       *)
ActiveWatchHasCursor ==
  provider = "gmail" /\ subscription.status = "active" => subscription.cursor # NoCursor

(* The events of an inbox leave the queue in the order they were announced *)
(* in: whatever fails in a batch, no event is done with before one that    *)
(* precedes it.                                                            *)
InOrder ==
  [][\A i, j \in DOMAIN queue :
       i < j /\ j \notin DOMAIN queue' => i \notin DOMAIN queue']_vars

(* A message that Graph announced, and that one sync reaches, is listed    *)
(* unless the account stops being connected: no crash, failed event, batch *)
(* limit, expired visibility or forgotten cursor makes the worker miss it. *)
AnnouncedIsListed ==
  \A m \in Positions :
    (provider = "outlook" /\ m <= MaxPages * PageSize /\ MailChanged(m) \in Queued)
      ~> (row[m] # "absent" \/ status # "connected")

(* "Mark a school sender trusted and sync again to import content": the    *)
(* listed messages of a sender that stays confirmed are imported by the    *)
(* syncs that follow.                                                      *)
SyncImportsTrusted ==
  \A m \in Positions :
    (row[m] = "listed" /\ SenderOf[m] \in confirmed)
      ~> (row[m] = "imported" \/ SenderOf[m] \notin confirmed \/ status # "connected")

=============================================================================
