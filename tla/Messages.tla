------------------------------ MODULE Messages ------------------------------
(***************************************************************************)
(* From a message in the inbox to a decision on its proposals.             *)
(*                                                                         *)
(*   sync       lists headers, suggests their senders, imports the         *)
(*              messages of confirmed senders                              *)
(*   processor  reads an imported message, waits for the agent, saves the  *)
(*              packet or marks the message failed                         *)
(*   caregiver  confirms and rejects senders, retries and reanalyzes       *)
(*              messages, views, edits, approves and rejects proposals     *)
(*                                                                         *)
(* Everything a process read before it waits for the provider, the agent   *)
(* or the caregiver is kept in its frame: the store may have changed when  *)
(* it goes on.  Pages and cursors are left out: a sync is given any set of *)
(* messages, as the provider lists them.                                   *)
(***************************************************************************)
EXTENDS MessageStore

CONSTANTS
  Senders,
  SenderOf,      \* sender of a message
  Syncs,         \* concurrent sync_connection calls
  Processors,    \* concurrent process_message calls
  Reviewers,     \* browser tabs showing proposals
  MaxPackets,    \* bound: packets made for one message
  MaxVersions,   \* bound: versions of one proposal
  Faults,        \* what may go wrong in this configuration
  None           \* no message

ASSUME MessagesAssumption ==
  /\ SenderOf \in [Mails -> Senders]
  /\ MaxPackets \in Nat
  /\ MaxVersions \in Nat
  /\ None \notin Mails
  /\ Faults \subseteq {"import",        \* a message cannot be fetched or stored
                       "provider_auth", \* the provider refuses the credentials
                       "unsafe",        \* the agent fails or its draft is refused
                       "model_access",  \* the model cannot be reached
                       "crash"}         \* a sync or a processor dies

VARIABLES
  source,       \* the school_sources table
  sync,         \* the loop of _sync_pages
  processor,    \* the frame of process_message
  reviewer      \* the proposal version a tab shows

vars == <<message, packet, executions, source, sync, processor, reviewer>>

-----------------------------------------------------------------------------
(* Types                                                                   *)

(* seen: the statuses read with the headers; todo: the messages of the     *)
(* page still to be recorded, then those still to be imported.             *)
SyncFrame == [stage   : {"idle", "headers", "import", "save", "failed"},
              page    : SUBSET Mails,
              todo    : SUBSET Mails,
              seen    : [Mails -> {"absent"} \cup MessageStatuses],
              current : Mails \cup {None}]

ProcessorFrame == [stage : {"idle", "analyze", "save", "failed"},
                   mail  : Mails \cup {None}]

View == [mail : Mails, number : Nat, proposal : Proposals, version : Nat,
         payload : Payloads]

TypeOK ==
  /\ MessageStoreTypeOK
  /\ source \in [Senders -> {"unseen", "suggested", "confirmed", "rejected"}]
  /\ sync \in [Syncs -> SyncFrame]
  /\ processor \in [Processors -> ProcessorFrame]
  /\ reviewer \in [Reviewers -> SUBSET View]

IdleSync == [stage   |-> "idle",
             page    |-> {},
             todo    |-> {},
             seen    |-> [m \in Mails |-> "absent"],
             current |-> None]

IdleProcessor == [stage |-> "idle", mail |-> None]

Init ==
  /\ MessageStoreInit
  /\ source = [s \in Senders |-> "unseen"]
  /\ sync = [y \in Syncs |-> IdleSync]
  /\ processor = [p \in Processors |-> IdleProcessor]
  /\ reviewer = [r \in Reviewers |-> {}]

-----------------------------------------------------------------------------
(* Sync: one page of _sync_pages                                           *)

ListPage(y, page) ==
  /\ sync[y].stage = "idle"
  /\ page # {}
  /\ sync' = [sync EXCEPT ![y] = [IdleSync EXCEPT !.stage = "headers",
                                                  !.page = page,
                                                  !.todo = page]]
  /\ UNCHANGED <<messageVars, source, processor, reviewer>>

(* upsert_source_suggestion, then upsert_message_header and its status.    *)
RecordHeader(y, m) ==
  LET s == SenderOf[m] IN
  /\ sync[y].stage = "headers"
  /\ m \in sync[y].todo
  /\ source' = IF source[s] = "unseen"
               THEN [source EXCEPT ![s] = "suggested"] ELSE source
  /\ UpsertHeader(m)
  /\ sync' = [sync EXCEPT ![y] = [@ EXCEPT !.todo = sync[y].todo \ {m},
                                          !.seen[m] = message'[m].status]]
  /\ UNCHANGED <<processor, reviewer>>

(* Mistake: every sender that was not rejected is read.                    *)
ReadSourcesUnlessRejected(y) ==
  /\ sync[y].stage = "headers"
  /\ sync[y].todo = {}
  /\ sync' = [sync EXCEPT ![y] = [@ EXCEPT !.stage = "import",
                                          !.todo =
                {m \in sync[y].page :
                   /\ source[SenderOf[m]] # "rejected"
                   /\ sync[y].seen[m] \notin {"awaiting_agent", "processed"}}]]
  /\ UNCHANGED <<messageVars, source, processor, reviewer>>

(* list_sources, and the messages the loop will not pass over.             *)
ReadSources(y) ==
  /\ sync[y].stage = "headers"
  /\ sync[y].todo = {}
  /\ sync' = [sync EXCEPT ![y] = [@ EXCEPT !.stage = "import",
                                          !.todo =
                {m \in sync[y].page :
                   /\ source[SenderOf[m]] = "confirmed"
                   /\ sync[y].seen[m] \notin {"awaiting_agent", "processed"}}]]
  /\ UNCHANGED <<messageVars, source, processor, reviewer>>

(* fetch_message, its documents and contents: no row changes yet.          *)
FetchMessage(y, m) ==
  /\ sync[y].stage = "import"
  /\ m \in sync[y].todo
  /\ \E stage \in {"save"} \cup (IF "import" \in Faults THEN {"failed"} ELSE {}) :
       sync' = [sync EXCEPT ![y] = [@ EXCEPT !.stage = stage,
                                            !.todo = sync[y].todo \ {m},
                                            !.current = m]]
  /\ UNCHANGED <<messageVars, source, processor, reviewer>>

GoOn(y) ==
  /\ sync' = [sync EXCEPT ![y] = [@ EXCEPT !.stage = "import", !.current = None]]
  /\ UNCHANGED <<source, processor, reviewer>>

SaveFetched(y) ==
  /\ sync[y].stage = "save"
  /\ SaveFetchedMessage(sync[y].current)
  /\ GoOn(y)

ImportFailed(y) ==
  /\ sync[y].stage = "failed"
  /\ SetMessageFailed(sync[y].current)
  /\ GoOn(y)

(* The page is done; or the provider refuses the credentials, which ends   *)
(* the sync and leaves the messages as they are; or the process dies.      *)
EndSync(y) ==
  /\ \/ sync[y].stage = "import" /\ sync[y].todo = {}
     \/ sync[y].stage = "import" /\ "provider_auth" \in Faults
     \/ sync[y].stage # "idle" /\ "crash" \in Faults
  /\ sync' = [sync EXCEPT ![y] = IdleSync]
  /\ UNCHANGED <<messageVars, source, processor, reviewer>>

-----------------------------------------------------------------------------
(* Processing: process_message                                             *)

(* A processed message is answered with its packet and changes nothing; a  *)
(* message that is neither is a conflict.                                  *)
StartProcessing(p, m) ==
  /\ processor[p].stage = "idle"
  /\ message[m] = [status |-> "awaiting_agent", imported |-> TRUE]
  /\ processor' = [processor EXCEPT ![p] = [stage |-> "analyze", mail |-> m]]
  /\ UNCHANGED <<messageVars, source, sync, reviewer>>

Analyze(p) ==
  /\ processor[p].stage = "analyze"
  /\ processor' = [processor EXCEPT ![p].stage = "save"]
  /\ UNCHANGED <<messageVars, source, sync, reviewer>>

AnalyzeFails(p) ==
  /\ "unsafe" \in Faults
  /\ processor[p].stage = "analyze"
  /\ processor' = [processor EXCEPT ![p].stage = "failed"]
  /\ UNCHANGED <<messageVars, source, sync, reviewer>>

(* ModelAccessError leaves the message as it is; so does a crash.          *)
EndProcessing(p) ==
  /\ \/ processor[p].stage = "analyze" /\ "model_access" \in Faults
     \/ processor[p].stage # "idle" /\ "crash" \in Faults
  /\ processor' = [processor EXCEPT ![p] = IdleProcessor]
  /\ UNCHANGED <<messageVars, source, sync, reviewer>>

SavePacket(p, draft) ==
  LET m == processor[p].mail IN
  /\ processor[p].stage = "save"
  /\ SaveProcessedPacket(m, draft)
  /\ processor' = [processor EXCEPT ![p] = IdleProcessor]
  /\ UNCHANGED <<source, sync, reviewer>>

(* _mark_failed: whatever the status is by now.                            *)
MarkFailed(p) ==
  /\ processor[p].stage = "failed"
  /\ SetMessageFailed(processor[p].mail)
  /\ processor' = [processor EXCEPT ![p] = IdleProcessor]
  /\ UNCHANGED <<source, sync, reviewer>>

-----------------------------------------------------------------------------
(* Caregiver                                                               *)

SetSourceStatus(s, status) ==
  /\ source[s] # "unseen"
  /\ source' = [source EXCEPT ![s] = status]
  /\ UNCHANGED <<messageVars, sync, processor, reviewer>>

Retry(m) ==
  /\ ResetFailedMessage(m)
  /\ UNCHANGED <<source, sync, processor, reviewer>>

Reanalyze(m) ==
  /\ packet[m].number < MaxPackets
  /\ ResetProcessedMessage(m)
  /\ UNCHANGED <<source, sync, processor, reviewer>>

(* A tab shows the head of a proposal; it stays on screen.                 *)
ViewProposal(r, m, p) ==
  /\ packet[m].present
  /\ reviewer' = [reviewer EXCEPT ![r] =
       {[mail |-> m, number |-> packet[m].number, proposal |-> p,
         version |-> HeadNumber(m, p), payload |-> HeadVersion(m, p).payload]}]
  /\ UNCHANGED <<messageVars, source, sync, processor>>

(* The tab sends what it shows: id, version and hash.                      *)
Edit(r, payload) ==
  /\ \E v \in reviewer[r] :
       /\ v.version < MaxVersions
       /\ EditProposal(v.mail, v.number, v.proposal, v.version, payload)
  /\ UNCHANGED <<source, sync, processor, reviewer>>

Approve(r) ==
  /\ \E v \in reviewer[r] :
       ApproveProposal(v.mail, v.number, v.proposal, v.version, v.payload)
  /\ UNCHANGED <<source, sync, processor, reviewer>>

Reject(r) ==
  /\ \E v \in reviewer[r] :
       RejectProposal(v.mail, v.number, v.proposal, v.version, v.payload)
  /\ UNCHANGED <<source, sync, processor, reviewer>>

-----------------------------------------------------------------------------

Sync(y) ==
  \/ \E page \in SUBSET Mails : ListPage(y, page)
  \/ \E m \in Mails : RecordHeader(y, m) \/ FetchMessage(y, m)
  \/ ReadSources(y) \/ SaveFetched(y) \/ ImportFailed(y) \/ EndSync(y)

Process(p) ==
  \/ \E m \in Mails : StartProcessing(p, m)
  \/ Analyze(p) \/ AnalyzeFails(p) \/ EndProcessing(p) \/ MarkFailed(p)
  \/ \E draft \in [Proposals -> Payloads] : SavePacket(p, draft)

Caregiver ==
  \/ \E s \in Senders, status \in {"confirmed", "rejected"} : SetSourceStatus(s, status)
  \/ \E m \in Mails : Retry(m) \/ Reanalyze(m)

Review(r) ==
  \/ \E m \in Mails, p \in Proposals : ViewProposal(r, m, p)
  \/ \E payload \in Payloads : Edit(r, payload)
  \/ Approve(r) \/ Reject(r)

Next ==
  \/ Caregiver
  \/ \E y \in Syncs : Sync(y)
  \/ \E p \in Processors : Process(p)
  \/ \E r \in Reviewers : Review(r)

Spec == Init /\ [][Next]_vars

-----------------------------------------------------------------------------
(* Properties                                                              *)

(***************************************************************************)
(* A processed message has its packet: process_message raises "marked      *)
(* processed but its packet is missing" otherwise, and nothing repairs it. *)
(***************************************************************************)
ProcessedHasPacket ==
  \A m \in Mails : message[m].status = "processed" => packet[m].present

(***************************************************************************)
(* A message waiting for the agent can be processed: "leave the message    *)
(* awaiting_agent so a later retry can process it" (process_message).  A   *)
(* packet that exists already is what no retry gets past.                  *)
(***************************************************************************)
AwaitingCanBeProcessed ==
  \A m \in Mails : message[m].status = "awaiting_agent" => ~packet[m].present

(* Contents are imported only of senders a caregiver has been asked about  *)
(* and has confirmed, if only to reject them later.                        *)
ImportedAfterDecision ==
  \A m \in Mails : message[m].imported => source[SenderOf[m]] \in {"confirmed", "rejected"}

(***************************************************************************)
(* Versions of a proposal form one history: every version but the last was *)
(* superseded by an edit, the last was not.                                *)
(***************************************************************************)
OneHistory ==
  \A m \in Mails, p \in Proposals :
    packet[m].present =>
      /\ VersionsFor(m, p) # <<>>
      /\ \A i \in DOMAIN VersionsFor(m, p) :
           VersionsFor(m, p)[i].status = "superseded" <=> i < HeadNumber(m, p)

(***************************************************************************)
(* An execution stands for an approved version that is still there, with   *)
(* the payload the caregiver saw when approving it, and never for an       *)
(* escalation; every approved version has its execution.  This is what the *)
(* worker verifies before it acts.                                         *)
(***************************************************************************)
ExecutionsBacked ==
  /\ \A x \in executions :
       /\ packet[x.mail].present
       /\ packet[x.mail].number = x.number
       /\ x.version \in DOMAIN VersionsFor(x.mail, x.proposal)
       /\ VersionsFor(x.mail, x.proposal)[x.version] =
            [status |-> "approved", payload |-> x.payload]
       /\ x.payload \notin Escalations
  /\ \A m \in Mails, p \in Proposals : \A i \in DOMAIN VersionsFor(m, p) :
       VersionsFor(m, p)[i].status = "approved" =>
         \E x \in executions : /\ x.mail = m
                               /\ x.proposal = p
                               /\ x.version = i

(***************************************************************************)
(* One proposal of a letter is acted upon once, however often the letter   *)
(* is processed, reanalyzed, edited and approved from stale tabs.          *)
(***************************************************************************)
ActedOnOnce ==
  \A x, y \in executions : x.mail = y.mail /\ x.proposal = y.proposal => x = y

(***************************************************************************)
(* Versions are immutable: while a packet lives its versions keep their    *)
(* payloads and a decision taken stays taken; a packet goes only if none   *)
(* of its versions is approved.                                            *)
(***************************************************************************)
VersionsImmutable ==
  [][\A m \in Mails, p \in Proposals : \A i \in DOMAIN VersionsFor(m, p) :
       LET v == VersionsFor(m, p)[i] IN
       IF packet'[m].number = packet[m].number /\ packet'[m].present
       THEN /\ i \in DOMAIN packet'[m].proposals[p]
            /\ packet'[m].proposals[p][i].payload = v.payload
            /\ v.status # "proposed" => packet'[m].proposals[p][i] = v
       ELSE v.status # "approved"]_vars

=============================================================================
