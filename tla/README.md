# SchoolSift in TLA+

SchoolSift reads the school mail of a family's inboxes, lets an agent turn each
letter into an action packet, and carries out the actions a caregiver approves.
This directory models the parts of it where processes, transactions and provider
calls interleave, checks them with TLC on small instances, and proves the central
results with TLAPS for every instance. Source paths are relative to
`src/backend/src/schoolsift/` unless they start with another directory.

## The system

| Part | State it keeps | Operations | Talks to |
|---|---|---|---|
| Connections (`api.py` 490-560, `credentials.py`, `sqlite_store.py` 697-884) | connection status, OAuth states, tokens in a vault | authorize, callback, disconnect, refresh, reauthorize | providers, vault; read by every worker |
| Inbox sync (`sync.py`, `providers.py`) | sync cursor and status, message headers, sender suggestions | list pages, fetch, import | providers, store, content store |
| Notifications (`notifications.py`, `subscription_service.py`, `webhooks.py`, `api.py` 710-825) | ingestion events, webhook subscriptions | webhook, event worker, watch, renewal | queue, sync |
| Messages and packets (`processing.py`, `sqlite_store.py` 980-1369) | message status, documents, one packet per message | import, process, retry, reanalyze | agent, sync, review |
| Review (`domain.py`, `sqlite_store.py` 1371-1557) | versions of each proposal | edit, approve, reject | packets, executions |
| Execution (`execution.py`, `sqlite_store.py` 2391-2609) | execution rows, outbox | dispatch, claim, perform, settle | queue, providers, vault, content store |
| Workers and queues (`workers.py`, `aws_adapters.py`, `src/infra/lib/schoolsift-stack.ts`) | SQS FIFO queues with dead letters | receive, acknowledge, give back | sync, execution |
| Households (`sqlite_store.py` 2060-2370, `identity.py`) | memberships, invitations | invite, accept, change role, remove | every route's authorisation |
| Policy and documents (`proposal_policy.py`, `documents.py`, `content.py`) | encrypted contents | validate a payload, read and fill PDFs | processing, review, execution |
| Agent (`agent.py`, `agent_data.py`, `agentcore_app.py`) | none | analyze a message | model, read-only store |
| DynamoDB repository (`aws_state.py`) | single-table items | conditional writes | nothing in the repository uses it yet |
| Web application (`src/apps/web`) | view state | calls the API | API |

### How the parts interact

A sync (called by the API, by the event worker after a notification, or by a
renewal) lists the headers of an inbox, records them and their senders, and imports
the contents of messages whose sender a caregiver has confirmed. Processing hands an
imported message to the agent and stores the draft it returns as the message's one
packet. A caregiver edits, approves or rejects the packet's proposals. Approving
writes an execution row and an outbox row in the transaction that marks the version.
A dispatcher puts a command for the row on a FIFO queue; a worker claims the row
under a lease, verifies the approved version, calls the provider and settles the row.
Everything shares one SQLite database whose methods each run one `BEGIN IMMEDIATE`
transaction; nothing else is atomic. Calls to providers, to the agent and to queues
happen between transactions, on data read before.

What is hard here, and where it bites:

- *An irreversible call between two transactions*: the worker may die, lose its lease
  or misread the answer on either side of a send (Execution).
- *Reads that are old when they are used*: statuses read before a fetch or before the
  agent's answer, senders read before a page is imported, a proposal on a reviewer's
  screen, a connection's status before a reauthorization (Messages; Connections).
- *At-least-once queues*: duplicate commands, expired visibility, dead letters and
  acknowledgements that must agree with the rows (Execution; InboxSync).
- *Cursors*: two syncs, a renewal and a late notification all move the same cursor,
  and messages passed over are not listed again (InboxSync).
- *Two stores without a common transaction*: a connection's row and its credentials
  change one after the other, while syncs and refreshes run (Connections).
- *Authorisation outside the transaction that acts on it*: roles and the last owner
  (Households).

`PROJECT.json` lists each hazard at its line with the properties that cover it.

### What makes each part correct

| Part | Correct if |
|---|---|
| Execution | an approved action happens at most once, gets exactly one final outcome, "completed" names what exists at the provider, nothing approved is lost or left unfinished |
| Review | versions form one history, a decision stands, an execution stands for what was approved, a proposal is acted upon once |
| Messages and packets | a processed message has its packet, a waiting one can be processed, contents come from confirmed senders only |
| Inbox sync, notifications | no stored cursor stands behind a message nobody listed, an announced message is listed, events are handled in order and not lost |
| Connections | the credentials of an inbox lie with the one household it is attached to; a connected account has its credentials; a disconnected one stays without until somebody consents again |
| Households | there is always an owner; an address holds one seat, taken or offered |
| Workers | a failed record fails the later records of its group, nothing is acknowledged unseen |

## Modules

| Module | Content |
|---|---|
| `ApprovedAction` | what is promised of an approved version: delivered at most once, one outcome, completed only if delivered |
| `ExecutionStore` | execution rows and outbox, one operator per store transaction |
| `Execution` | dispatchers, FIFO queue, workers, provider, connection owner; composed with the store; instantiates `ApprovedAction` |
| `MCExecution` | instances of `Execution` for TLC |
| `ExecutionProofs` | types, settled rows, settlement by the current attempt, dispatch, completed rows |
| `DeliveryProofs` | at most one delivery, refinement of `ApprovedAction`, completed Outlook forms |
| `AttemptProofs` | live workers hold their attempt, attempts, retries, commands |
| `MessageStore` | messages, packets and the executions approvals create, one operator per store transaction |
| `Messages` | syncs, processors, caregiver and reviewers' tabs over `MessageStore` |
| `MCMessages` | instances of `Messages` for TLC |
| `MessageProofs` | types, histories, executions, packets, imports |
| `InboxSync` | one inbox: syncs, webhooks, the ingestion queue and its handler, watches and their renewal |
| `MCInbox` | instances of `InboxSync` for TLC |
| `InboxProofs` | stored cursors pass nothing over, active watches have a cursor |
| `IngestionProofs` | the ingestion queue and its batches: order, types |
| `Membership` | households, memberships and invitations, one operator per store transaction |
| `Connections` | OAuth states, the callback, the vault, and those who use and refresh credentials |
| `Households` | caregivers' requests: authorised first, carried out later; composes `Membership` and `Connections` |
| `MCHouseholds` | instances of `Households` for TLC |
| `HouseholdProofs` | types, owners, seats, who keeps an inbox's credentials, connected accounts, disconnects |

Each store module is a set of atomic operators because each store method is one
transaction. The component module interleaves them: a process has a *frame* with
what it has read and where it stands, and one action per transaction or external
call. A failed call is an action of its own, guarded by a member of `Faults`, so a
configuration says under which faults it claims a property. Definitions called
*mistake* in a comment are variants of the code that a plausible bug would give;
nothing uses them in the specifications, they serve to see a property fail.

### Execution: state and actions

| Model | Code |
|---|---|
| `exec`, `outbox` | tables `executions` and `execution_outbox`; `lease` is "held" from a claim until `lease_until` passes (`LeaseExpires`) |
| `dispatcher` | the list and the current row of the loop in `dispatch_pending_executions` |
| `queue` | the SQS FIFO queue: a slot per copy of a command, its state and receive count |
| `worker` | locals of `execute_command` and `_perform`: stage, execution, claimed attempt, operation id, stored form |
| `connection` | status of the mail account, as `_load_credentials` and `_reauth` see it |
| `drafts`, `sent` | what exists at the provider; an effect is identified by the attempt or the key that made it |
| `ListDispatchable`, `Enqueue`, `EnqueueFails`, `Mark` | `execution.py` 67-84, one action per call |
| `Claim`, `ClaimRefused`, `Verify`, `LoadCredentials`, `Attach`, `CreateDraft`, `Checkpoint`, `Send`, `Confirm`, `Reauthorize`, `Settle`, `Report` and their failures | `execution.py` 87-295, `providers.py` sends, `workers.py` 102-142 |
| `StoreFails`, and `StoreRaises` in `WorkerCrashes` | the database refuses a call inside the `try` of `execute_command`, the settlement of a completed action included, and the last `except` clause takes it for a failed attempt (`execution.py` 290-294); or it refuses one outside, and the exception ends the invocation as a crash would |

An operation id is the attempt that created the Outlook draft or sent the Gmail mail,
`KeyOperation` for the deterministic calendar id, `NoOperation` for none. `LocalMode`
is the API's run route, where nothing consumes a queue; otherwise commands come from
SQS. The repository wires the SQS adapters only in its tests, so SQS mode composes
dispatcher, queue and handler as `schoolsift-stack.ts` declares them.

### Messages: state and actions

| Model | Code |
|---|---|
| `message` | status and `body_ref`/`source_confirmed` (set together) of a row of `messages` |
| `packet` | the row of `packets` of a message; `number` stands for the ids made with the packet, so a reference from an older packet is an unknown proposal |
| `executions` | key and approved payload of the rows an approval inserts |
| `source` | status of a sender in `school_sources` |
| `sync` | locals of `_sync_pages`: the page, the statuses read with the headers, the messages still to import |
| `processor` | locals of `process_message`: the message it read before it asked the agent |
| `reviewer` | the version a browser tab shows, which its requests name |
| `ListPage`, `RecordHeader`, `ReadSources`, `FetchMessage`, `SaveFetched`, `ImportFailed`, `EndSync` | `sync.py` 133-227 |
| `StartProcessing`, `Analyze`, `AnalyzeFails`, `SavePacket`, `MarkFailed`, `EndProcessing` | `processing.py` 125-218 |
| `SetSourceStatus`, `Retry`, `Reanalyze`, `ViewProposal`, `Edit`, `Approve`, `Reject` | the routes of `api.py` 580-668 with their store methods |

The agent's draft is any assignment of payloads to the draft's places, and payloads
are those the policy accepts: what the policy accepts is left to ProposalPolicy.
A payload stands for its hash. The worker's side of an execution is `Execution`;
here an execution is what was approved.

### InboxSync: state and actions

| Model | Code |
|---|---|
| `arrived`, `oldest` | the provider's inbox: a message is its position in the order of arrival; cursors before `oldest` are answered with 404 or 410 |
| `row` | `messages`: absent, listed (the header), imported |
| `cursor`, `subscription` | `connections.sync_cursor` and the connection's row of `webhook_subscriptions` |
| `registered` | the provider has a watch and may notify |
| `queue`, `queued` | the SQS FIFO group of the household: the records that are neither done nor dead letters by their number in the order of sending, each with its receive count and the invocation that holds it |
| `task` | locals of `sync_connection`, `_sync_pages` and `process_ingestion_event` |
| `job` | the batch an invocation of the ingestion handler got, the record its loop has come to, and its failures so far; batch and failures name records by their numbers, as message ids do in the code |
| `renewal` | locals of `ensure_subscription` and `renew_due_subscriptions` |
| `watched` | history variable: the highest position a Gmail watch started from |
| `NotifyMail`, `NotifyLifecycle` | the two webhooks, `api.py` 710-825 |
| `Open`, `ListPage`, `RecordHeader`, `ReadSources`, `Import`, `SaveCursor`, `Refused` and failures | `sync.py` 41-227 |
| `BeginMail`, `ChooseStored`, `BeginMissed`, `BeginReauthorization`, `ListForgotten`, `MarkRenewalDue`, `ReadActive`, `RecordCheckpoint` | `notifications.py` 66-170 |
| `Receive`, `Report`, `VisibilityExpires`, `WorkerCrashes` | `workers.py` 39-79 and the queue |
| `RenewDue`, `EnsureSubscription`, `Register`, `StoreWatch`, `RegisterFails`, `RegisterRefused`, `RequireReauthorization` | `subscription_service.py` |

A cursor is a position with a kind: "after" for history ids, delta links and their
continuations, which go forwards; "page" for a token of Gmail's message list, which
goes backwards from the newest message and ends without a cursor; "none" for NULL.
The cursor of an event's own notification is not modelled because the handler ignores
it. Position 1..`arrived` is what the provider returns: Gmail's 30-day window is left
out.

### Membership, Connections, Households: state and actions

| Model | Code |
|---|---|
| `households`, `role`, `invitation` | tables of `sqlite_store.py` 309-352; `passed` says that `expires_at` is in the past, whatever the status says |
| `CreateHousehold` ... `RemoveMember` | `sqlite_store.py` 2060-2368, one operator per transaction |
| `connection` | `connections.status` by household and inbox (the unique index `connections_identity`) |
| `vault` | the rows whose secret exists and is not the revoked mark |
| `oauth` | `oauth_states` |
| `callback` | locals of the callback route, `api.py` 500-552: `Consume`, `Identify`, `Attach`, `StoreCredentials`, `Connect` and their failures |
| `use` | a sync, an execution or a renewal between reading credentials and storing refreshed ones |
| `forgotten` | history variable: rows that were disconnected while no callback and no refresh had them in hand, and for which no callback has stored credentials since |
| `contested` | history variable of `Households`: rows on which two callbacks, or a callback and a disconnect, have overlapped |
| `request` | an admitted request: `Ask` is the authorisation, `api.py` 281-319, the other actions are the route's transactions |

`AddressOf` gives each user an address; several users may have the same one, as when
an address passes from one account of the identity provider to another. The callback
asks for no membership, as in the code: the OAuth state names the household.

## Runs

| Run | Instance | Checked |
|---|---|---|
| `execution_queue` | SQS mode, one Outlook form, one worker, two dispatchers, two copies of the command, three attempts; refused and lost calls, expired authorisation, missing evidence, failing queue, dispatcher crashes; the database refuses no call | `TypeOK`, `RetryOnlyBeforeEffect`, `NeverUndispatchable`, `NeverStranded`, `AttemptsWithinLimit`, `EventuallySettled` |
| `execution_crash` | local mode, two workers, a Google event and an Outlook form; worker crashes, refused calls of the database, every provider fault | `SingleDelivery`, `NoStaleWorker`, `CompletedMeansDelivered`, `KeepsPromise` |
| `execution_slow` | SQS mode, two workers, a form through Gmail, all faults, workers that outlive lease and visibility | `CompletedMeansDelivered`, `TerminalIsFinal`, `SettledByItsAttempt` |
| `messages` | one letter with two proposals, a sync, two processors, a tab, up to two packets and two versions, all faults | `TypeOK`, `ProcessedHasPacket`, `ImportedAfterDecision`, `OneHistory`, `ExecutionsBacked`, `ActedOnOnce`, `VersionsImmutable` |
| `inbox_syncs` | Gmail or Outlook, two messages, pages of one, one page per sync; a manual sync, a handler, a renewer, one event, one fault among an unreadable message, a refusal and a forgotten cursor | `TypeOK`, `NothingPassedOver`, `ActiveWatchHasCursor` |
| `inbox_events` | Outlook, one message, three events against a batch limit of two, a handler and a renewer, one fault of any kind; fairness | `InOrder`, `AnnouncedIsListed` |
| `households` | three users, two of whom share an address, two households, one inbox, two invitations, two OAuth states and callbacks, one user of credentials, three requests, one fault | `TypeOK`, `OwnerRemains`, `OneSeatPerAddress`, `OneKeeper`, `ConnectedHasCredentials`, `DisconnectForgets` |
| `execution_resend`, `execution_unsettled`, `execution_stranded`, `messages_stuck`, `inbox_untrusted` | the smallest instances that show a finding | one property each, which fails |

Why these bounds are enough for what they ask. Executions meet only in the FIFO group
and in their connection, so two of them, of different providers, show every way they
can disturb each other, and one suffices where the question is about a single row. A
stale worker and its successor need two workers; a third only repeats one of these
roles. `MaxAttempts` two or three gives a first, a middle and a last attempt;
`MaxReceives` is at least `MaxAttempts`, as in the code, where both are five, so that
the two limits can meet. `MaxClaims` only stops leases from expiring for ever on
crashing attempts; where workers crash it exceeds `MaxAttempts`, so that a claim
beyond the limit occurs.
A letter's packet is independent of other letters' packets in every operation, and the
theorems cover any number of letters; two processors are the fewest that race, two
packets the fewest that let a tab name the one before, and two versions the fewest
with an edit.

In `InboxSync` two messages and pages of one give a first page, a last page and a
listing cut at `MaxPages`; a cursor is moved by a manual sync, a handler or a renewal,
so one of each covers every pair of different kinds, and two syncs of the same kind
differ in nothing but their starting cursor: the handler's sync and the manual one are
such a pair. `MaxEvents` bounds the events ever queued: in a batch of three
with a limit of two, a failed record has one after it and one beyond the limit. One
message is enough there, because events of messages differ in nothing but their order.
With `MaxPages` one, no sync fails between two pages of its own: that case is covered by
the theorem `InboxNothingPassedOver` alone, which holds for every `MaxPages`.
`MaxReceives` is two or three instead of five: the events that come back once and those
that go to the dead letters both occur.
`MaxFaults` is one: the code has no counter of failures but the queue's, so a second
fault meets the states that the first left, and the proofs below do not bound it.
In `Households` three users are two owners and one they act upon, or an owner and two
who share an address; `MaxRequests` three lets two requests that were admitted
together follow a third. OAuth states, callbacks and invitations are interchangeable
(`MCSymmetry`): no definition names one of them.

`CHECK_DEADLOCK FALSE` appears in every configuration because the
system rests: all actions settled, or all proposals decided and the bounds reached.

Fairness is assumed by three runs. `execution_queue` needs it for `EventuallySettled`.
A running worker goes on (it is a thread or a Lambda invocation, and this run has no crashes);
SQS makes an unacknowledged message visible again and delivers one that stays
available; a lease runs out because it is a wall-clock time. Nothing in the program
calls the dispatcher by itself, so the specification assumes that it is called until
it gets through: strong fairness on its enqueue and its mark, because the queue may
refuse any single call. A dispatcher that is never called again leaves an approval
pending, which is not a defect the model could show.

`inbox_events` needs it for `AnnouncedIsListed`: Lambda polls the queue and an
invocation that has begun goes on (weak fairness on `Handle`), and a record whose
worker died becomes visible again (weak fairness on `VisibilityExpires` of an idle
worker). Nobody has to sync, renew, confirm or reconnect. The property covers
messages that one sync of `MaxPages` pages reaches; for a longer inbox the handler
acknowledges an event after the first pages, and the rest waits for the next event or
sync. `inbox_untrusted` adds a caregiver who keeps pressing Sync (`SyncingSpec`), since
without one its counterexample would only show that nobody did.

## Findings

- `execution_resend`: a Gmail mail can be sent twice. The Message-ID is deterministic
  but the send endpoint does not deduplicate by it, so a worker that dies between the
  send and the settlement is followed by an attempt that sends again;
  `docs/submission.md` 77-79 claims otherwise.
- `execution_unsettled`: the settlement of a completed action is a call to the database
  inside the `try` of `execute_command` (264-271). When it is refused, the last `except`
  clause (290-294) puts the row back to "queued", or to "failed" at the last attempt,
  although the mail has left; the first lines of `execution.py` say that retries are
  limited to failures before the effect. A second way to the same state: a Gmail send
  whose 2xx answer cannot be parsed (`providers.py` 781-784) raises a plain
  `ProviderError` and is queued again. `MCExecutionUnsettled.cfg` shows it with
  `Faults = {"malformed"}`.
- `execution_stranded`: a redelivered command that meets the dead worker's lease is
  acknowledged, and the row stays "executing" for good.
- `messages_stuck`: a processing that fails after another one has saved the packet
  marks the message failed; after a retry it waits for the agent for good, because
  its packet exists. A sync that imports with an old status leads to the same state.
- `inbox_untrusted`: a letter listed before its sender is confirmed is behind the
  cursor that sync saves. `src/README.md` 101-102 says to mark the sender trusted and
  sync again; with a delta or history cursor that sync does not list the letter. Only
  a full resync, or a Gmail inbox whose cursor is still NULL, imports it.

Observed while modelling and without a run: with an Outlook form and slow workers
`CompletedMeansDelivered` fails after three attempts (a superseded attempt overwrites
the stored form), and an Outlook worker that dies after the send is followed by an
attempt that reports "failed", since the draft is gone. `sync.py` 147 looks senders up
by address over all inboxes of a household, so a decision for one inbox can shadow
another's.

Limits of the code that the models contain and the properties leave room for:

- A Gmail watch starts at the history id of its registration, so a renewal can move
  the checkpoint past messages no sync has listed; `NothingPassedOver` excepts them
  (`watched`). A manual sync from an older cursor still finds them.
- A listing cut at the page limit can leave a token of Gmail's message list as the
  subscription's checkpoint (`notifications.py` 74). Until the list is exhausted, new
  mail is not looked for: each event goes on with older pages.
- A failed renewal marks the watch "renewal_due" although the provider may still
  notify, and from then on the Outlook webhook drops its notifications
  (`api.py` 790) until a renewal succeeds.
- Only the handler of a changed mailbox falls back to a full resync; a manual sync
  with a forgotten cursor fails every time (`sync.py` 104).
- A message whose header cannot be read fails its whole page on every try
  (`providers.py` 563), and with it every later sync: the model has it as `ListFails`.
- A callback that overlaps a disconnect or another callback of the same account can
  leave the row "connected" without credentials (it restores the status it had read, or
  connects after the deletion), and a refresh that overlaps a disconnect can leave
  credentials behind. `DisconnectForgets` speaks of disconnects that nothing overlaps,
  `ConnectedHasCredentials` of rows that are not `contested`. Callbacks that begin after
  a disconnect and fail or die at any of their writes are covered by both.
- A disconnect whose second call fails (`DeleteCredentialsFails`) leaves credentials of
  a disconnected account, which renewals go on using.
- An execution whose completed settlement was refused at the last attempt reads
  "failed"; `KeepsPromise` allows that, `RetryOnlyBeforeEffect` does not.
- A Graph notification that the queue deduplicates is dropped (`api.py` 800);
  `AnnouncedIsListed` starts from events that reached the queue.
- A member who is removed after asking for an authorisation still completes it.

## Proofs

All proofs are checked by TLAPS for every value of the constants that the named
assumptions allow; TLC evaluates these assumptions in the runs.

**`ExecutionProofs`** under all faults. `TypeCorrect` is an induction on
`TypeInv`, the type invariant strengthened by: a worker that is not idle names an
execution, and a claimed one an attempt. `SettledRowsNeverChange` and
`OnlyTheOwnerSettles` follow from a case analysis of what a step may do to one row
(`RowSteps`): every store operator is guarded by the status, and only the settlement
of the claimed attempt leaves "executing". `ApprovalsAreDispatchable` is inductive with
`TypeInv`: row and outbox entry are inserted together, and whatever closes the entry
moves the row on. `CompletedWasDelivered` assumes that no filled form goes through
Outlook; it needs no assumption about faults. Its invariant `CompletedInv` adds that a
worker about to settle as "completed", or to look for its mail among the sent items,
carries the operation and the form of something in `sent` (`FramesDeliver`), and that
only forms have a stored output (`OnlyFormsStored`), so that the fields a settlement
leaves alone are the ones that were sent. What the induction needs of Outlook is kept
apart as a condition on one step (`SendsItsForm`): the draft found by its id carries the
worker's form. A draft of a plain reply carries none (`PlainDrafts`), which settles it
here. For an Outlook form with slow workers the conclusion is false (see Findings).

**`DeliveryProofs`**, if `"slow" \notin Faults` and, but for the last theorem, no
execution is a mail sent through Gmail. Both conditions are stated as hypotheses, and
both are needed for at most one delivery: `execution_resend`
and `execution_unsettled` show what goes wrong for Gmail, and a worker that outlives its
lease can create a second draft. `SingleDelivery` is not inductive; `DeliveryInv` is. It
adds that an attempt has at most one live worker, which holds the row (`AttemptHeld`);
that an Outlook worker past the checkpoint carries the row's draft id and creates a
draft only while the row has none (`DraftFrame`); that a row's drafts have distinct ids
no greater than its attempts, and none has the checkpointed id once that draft was sent
(`DraftRow`); and that a calendar event is the keyed one (`EventRow`). `PromiseKept` is
the refinement: the initial state maps to `ApprovedAction`'s, an approval maps to
`Approve`, the step that first adds to `sent` to `Deliver`, a settlement to `Conclude`,
and everything else to a stutter. `CompletedFormWasDelivered` takes
`CompletedMeansDelivered` to Outlook forms, and so to every kind of action, from
`"slow" \notin Faults` alone. It adds `FormInv`: every draft of the form carries the
output on the row, there is none before the output is stored, and the worker of the
attempt carries it too. That is `SendsItsForm` for a form; it holds because only the
worker of the current attempt writes the output, and only while there is none.

**`AttemptProofs`** for every kind of action, Gmail mail included. Each theorem states
the faults it excludes, and no more.
`LiveWorkersHoldTheirAttempt` (`NoStaleWorker`) needs `"slow" \notin Faults` only: it
follows from `AttemptHeld` of `DeliveryProofs`, here for all kinds of action.
`AttemptsAreLimited` also excludes worker crashes and a database that refuses calls
(`"store" \notin Faults`), as do the theorems after it. No claim looks at the limit, so the
bound comes from elsewhere: a row that can be claimed has an attempt left, because only a
worker that has one left gives it back (`Settling`), and an executing row has a worker
that will settle it (`Attended`); these are `AttemptsInv`. A crash breaks `Attended`, and
so does a refused settlement: the lease expires and the claim that follows may be one too
many.
`RetriesPrecedeEffects` (`RetryOnlyBeforeEffect`) adds `EffectKnown`: where there is an
effect, the row is completed or uncertain, or its worker has concluded that the action may
have happened. Its hypotheses are the exceptions to the sentence at the head of
`execution.py`: a worker that dies or is overtaken after the send (`execution_resend`), a
2xx answer that is read and cannot be parsed (hence the condition on
`ReadsAnswer`), a 5xx after the fact, and a refused settlement of what was done
(`execution_unsettled`). Lost answers, refusals, disconnects, duplicate
commands and dispatcher crashes are covered.
`PromiseKeptByRetries` draws from it, under the same hypotheses, `SingleDelivery` and the
refinement of `ApprovedAction` for every kind of action: the worker that sends owns the
attempt and has not acted, so by `EffectKnown` nothing was sent before (`FirstEffect`),
and by `FormsInv` it says "completed" only of what it sent. A Gmail mail thus leaves at
most once where `RetriesPrecedeEffects` holds; where it does not, `execution_resend`
shows the second mail, and `execution_unsettled` the row put back
after the first.
`NobodyIsStranded` (`NeverStranded`) adds `CommandsInv`: a busy worker carries a command
in flight, the only one of its household (`Carries`, `Alone`); the command of an open row
was sent and is not a dead letter, because it was received at most once more than the row
was attempted (`Delivered`, `Awaited`), which is where `MaxAttempts <= MaxReceives` enters;
and a dispatcher marks a row only after it sent the command (`Dispatching`).
`execution_stranded` shows the failure with a crash.

**`MessageProofs`** under all faults. The invariant `MessagesInv` has a part about
packets and executions (`PacketsInv`) and one about the processes' frames
(`FramesInv`). The first is `OneHistory` and `ExecutionsBacked` with the fact that a
message without a packet has no versions; it is preserved because a step either
inserts a first packet, discards one without approved versions, or replaces one
history by a successor that differs in its proposed head only (`PacketSteps`,
`SucceedingHistory`). From it: `VersionsFormOneHistory`, `ApprovalsBackExecutions`;
`ProposalActedOnOnce`, because an execution's version is approved, hence not
superseded, hence the head of the one packet there is; `DecisionsStand`; and, with an
induction of its own, `ProcessedMessagesHavePackets`. `ImportsFollowDecisions` adds
`ImportInv`: what a sync has selected, or has fetched and not saved yet, comes from
senders it read as confirmed, and a sender a caregiver has decided about never becomes
undecided again (`DecisionsRemain`).

**`InboxProofs`** under all faults. `NothingPassedOver` is strengthened to `CursorInv`:
the positions up to a stored history id or delta link are seen (listed, or at most
`watched`), and those up to the cursor a sync carries are seen or are headers it still
has to record (`SoundFrame`). A listing moves the cursor over no more than its page
(`ListingCovers`), the sync leaves the stage "headers" with nothing left to record, and
`Seen` never shrinks, so a slower or older cursor that is written last is sound too.
`ActiveWatchHasCursor` adds `WatchInv`: a worker syncs for an event of new or missed mail
only, and a checkpoint about to be written has a cursor unless the event makes the
renewal due instead (`Belongs`); a registration that Gmail answered carries one
(`RegisteredInv`).

**`IngestionProofs`** under all faults, for any number of workers, batch limit and
maximum of receptions. `InboxInOrder` and `InboxTypeOK` share the invariant `InboxInv`.
Its part about the queue (`QueueInv`) says that the records left are the last ones sent,
without gaps; that of two records the earlier was received at least as often; and that a
held record has only records of the same holder before it (`Group`). Its part about
invocations (`JobsInv`) says that whatever follows a failed record of a batch has failed
too (`Closed`), that an invocation holds nothing outside its batch, and that the record
being handled is in it. Order then comes down to `ReturnKeepsGroup`: of the records an
invocation gives back, those that stay are closed in the same sense, because both ways of
leaving the queue, success and too many receptions, befall an earlier record no later than
those behind it. Without `Group` the dead letters would break the order, without `Closed`
the deletions. That what remains is an interval is proved by counting
(`RestIsInterval`), since induction is out of reach. The other conjuncts of `TypeOK` need
`PagesInv` (pages are counted from 0 by every sync) and `ProviderInv`.

**`HouseholdProofs`** under all faults, for any finite set of users. The invariant is
`HouseholdInv`, in four parts. `MembershipInv` is `OwnerRemains` and
`OneSeatPerAddress` with their types; a household keeps an owner because the count of
owners is taken in the transaction that lowers it, which needs finite cardinalities,
and an address keeps its seat because `Invitable` looks at both tables; it adds that a
household that does not exist has no members and no open invitations (`Untouched`),
since creating one takes its first seat. `ConnectionsInv`
says that an inbox has a row in one household at most (`OneHousehold`) and that
credentials are stored for rows only (`VaultHasRows`), which together are `OneKeeper`: a
callback past `Attach` and a use have a row (`FramesHaveRows`), so that the callback that
loses the inbox never comes to store anything. It also says that no row of `forgotten` has
credentials or the status "connected", is in the hands of a refresh, or of a callback that
is about to call it connected or has read "connected" to restore it
(`ForgottenIsLeftAlone`); this is `DisconnectForgets`. `RequestsTyped` types the requests. Each of these
is preserved by the steps of its own variables and stuttered on by the others', so the
composition costs one case each. The fourth part, `InStep`, joins them: of a row that is
not `contested`, at most one callback or disconnect is at work; if it is connected its
credentials are there, a callback about to say "connected" finds them there, a callback
past `Attach` has taken the status away, and so has a disconnect before it deletes
(`KeptInStep`). A failing reconnect restores "connected" only where it had read it, and
the credentials of that time are still in the vault; hence `ConnectedHasCredentials`.

Only model-checked: liveness (`EventuallySettled`, `AnnouncedIsListed`), which TLAPS
does not treat.

## Not modelled, and the plan

Left out for good: schema migrations, configuration, rendering, logging and audit
rows, encryption, PDF bytes and the language model itself, which are sequences without
interleaving or functions of bytes; `aws_state.py`, which no entry point uses;
`SQLiteIngestionQueue` with its claims, which only tests use; and `proposal_policy.py`,
whose checks read texts, clocks and PDF fields and keep no state: where they are
called, the models have their refusal as a branch.

Not modelled yet: an import that replaces the documents of a message under an approved
form (`sqlite_store.py` 1046), and two inboxes of one household in one sync model.

Every safety and action property the runs check is stated by a theorem. Worth proving
next: that the hypotheses of `AttemptProofs` can be narrowed per provider, since a crash
or a 5xx harms an Outlook mail or an event less than a Gmail mail.
