---------------------------- MODULE MessageStore ----------------------------
(***************************************************************************)
(* Messages, their packets and the executions that approvals create, as    *)
(* the SQLite store keeps them.  Every method runs one transaction, so     *)
(* each is one atomic operator; the callers that interleave them are in    *)
(* Messages.                                                               *)
(*                                                                         *)
(* A packet holds the versions of its proposals in one JSON value that     *)
(* every decision rewrites.  A proposal's id is made with its packet, so   *)
(* a proposal is named by the message, the packet's number and its place   *)
(* in the agent's draft.  payload_hash is a collision-free digest: the     *)
(* payload stands for it.                                                  *)
(*                                                                         *)
(* Left out: the texts and documents of a message, which a new import of   *)
(* the same provider message stores again, and everything of a packet but  *)
(* its proposals.                                                          *)
(***************************************************************************)
EXTENDS Integers, Sequences

CONSTANTS
  Mails,        \* messages of the inbox
  Proposals,    \* places of a draft's proposals, a shorter draft's last ones left alone
  Payloads,     \* payloads the policy accepts
  Escalations   \* those of kind escalation

ASSUME PayloadsAssumption == Escalations \subseteq Payloads

VARIABLES
  message,      \* the messages table
  packet,       \* the packets table, one row for a message at most
  executions    \* keys of the executions table, with the approved payload

messageVars == <<message, packet, executions>>

-----------------------------------------------------------------------------

MessageStatuses == {"awaiting_source", "awaiting_agent", "processed", "failed"}

(* imported: body_ref and source_confirmed are set, always together.       *)
MessageRow == [status : {"absent"} \cup MessageStatuses, imported : BOOLEAN]

Version == [status  : {"proposed", "approved", "rejected", "superseded"},
            payload : Payloads]

(* number counts the packets made for the message; a row exists if present. *)
Packet == [present   : BOOLEAN,
           number    : Nat,
           proposals : [Proposals -> Seq(Version)]]

ExecutionKey == [mail : Mails, number : Nat, proposal : Proposals, version : Nat,
                 payload : Payloads]

MessageStoreTypeOK ==
  /\ message \in [Mails -> MessageRow]
  /\ packet \in [Mails -> Packet]
  /\ executions \subseteq ExecutionKey

NoVersions == [p \in Proposals |-> <<>>]

MessageStoreInit ==
  /\ message = [m \in Mails |-> [status |-> "absent", imported |-> FALSE]]
  /\ packet = [m \in Mails |-> [present   |-> FALSE,
                                number    |-> 0,
                                proposals |-> NoVersions]]
  /\ executions = {}

-----------------------------------------------------------------------------
(* Import                                                                  *)

(* upsert_message_header: a known message keeps its status.                *)
UpsertHeader(m) ==
  /\ message' = IF message[m].status = "absent"
                THEN [message EXCEPT ![m].status = "awaiting_source"]
                ELSE message
  /\ UNCHANGED <<packet, executions>>

(* save_fetched_message: whatever the status is by now.                    *)
SaveFetchedMessage(m) ==
  /\ message' = [message EXCEPT ![m] = [status   |-> "awaiting_agent",
                                        imported |-> TRUE]]
  /\ UNCHANGED <<packet, executions>>

(* Mistake: a status outside the declared ones.                            *)
SetMessageUndeclared(m) ==
  /\ message' = [message EXCEPT ![m].status = "error"]
  /\ UNCHANGED <<packet, executions>>

(* set_message_status, with "failed" from both of its callers.             *)
SetMessageFailed(m) ==
  /\ message' = [message EXCEPT ![m].status = "failed"]
  /\ UNCHANGED <<packet, executions>>

(* reset_failed_message, the retry route.                                  *)
ResetFailedMessage(m) ==
  /\ message[m] = [status |-> "failed", imported |-> TRUE]
  /\ message' = [message EXCEPT ![m].status = "awaiting_agent"]
  /\ UNCHANGED <<packet, executions>>

-----------------------------------------------------------------------------
(* Packets                                                                 *)

(***************************************************************************)
(* save_processed_packet.  A packet that exists is returned as it is, the  *)
(* message's status too; a message that is not ready is a conflict.        *)
(***************************************************************************)
SaveProcessedPacket(m, draft) ==
  IF packet[m].present \/ message[m] # [status |-> "awaiting_agent", imported |-> TRUE]
  THEN UNCHANGED messageVars
  ELSE /\ packet' = [packet EXCEPT ![m] =
            [present   |-> TRUE,
             number    |-> packet[m].number + 1,
             proposals |-> [p \in Proposals |->
                              <<[status |-> "proposed", payload |-> draft[p]]>>]]]
       /\ message' = [message EXCEPT ![m].status = "processed"]
       /\ UNCHANGED executions

(* Mistakes: the status is not reset; approvals are not looked at.         *)
ResetKeepsStatus(m) ==
  /\ message[m].status = "processed"
  /\ packet[m].present
  /\ \A p \in Proposals : \A i \in DOMAIN packet[m].proposals[p] :
       packet[m].proposals[p][i].status # "approved"
  /\ packet' = [packet EXCEPT ![m].present = FALSE, ![m].proposals = NoVersions]
  /\ UNCHANGED <<message, executions>>

ResetDiscardsApproved(m) ==
  /\ message[m].status = "processed"
  /\ packet[m].present
  /\ packet' = [packet EXCEPT ![m].present = FALSE, ![m].proposals = NoVersions]
  /\ message' = [message EXCEPT ![m].status = "awaiting_agent"]
  /\ UNCHANGED executions

(***************************************************************************)
(* reset_processed_message, the reanalyze route: refused once a version is *)
(* approved or an execution names one of the packet's proposals.           *)
(***************************************************************************)
ResetProcessedMessage(m) ==
  /\ message[m].status = "processed"
  /\ packet[m].present
  /\ \A p \in Proposals : \A i \in DOMAIN packet[m].proposals[p] :
       packet[m].proposals[p][i].status # "approved"
  /\ ~\E x \in executions : x.mail = m /\ x.number = packet[m].number
  /\ packet' = [packet EXCEPT ![m].present = FALSE, ![m].proposals = NoVersions]
  /\ message' = [message EXCEPT ![m].status = "awaiting_agent"]
  /\ UNCHANGED executions

-----------------------------------------------------------------------------
(* Review                                                                  *)

(* A request names a proposal of the packet it was made from; that packet  *)
(* may be gone (an unknown proposal) or hold other versions by now.        *)
Known(m, number) == packet[m].present /\ packet[m].number = number

VersionsFor(m, p) == packet[m].proposals[p]

(* _head: versions are numbered from 1 in the order they were added.       *)
HeadNumber(m, p) == Len(VersionsFor(m, p))

HeadVersion(m, p) == VersionsFor(m, p)[HeadNumber(m, p)]

(* Mistake: the edited version stays proposed.                             *)
EditLeavesProposed(m, number, p, version, payload) ==
  /\ Known(m, number)
  /\ HeadNumber(m, p) = version
  /\ HeadVersion(m, p).status = "proposed"
  /\ packet' = [packet EXCEPT ![m].proposals[p] =
       Append(VersionsFor(m, p), [status |-> "proposed", payload |-> payload])]
  /\ UNCHANGED <<message, executions>>

(* edit_proposal of domain.py, validated and written back.                 *)
EditProposal(m, number, p, version, payload) ==
  /\ Known(m, number)
  /\ HeadNumber(m, p) = version
  /\ HeadVersion(m, p).status = "proposed"
  /\ packet' = [packet EXCEPT ![m].proposals[p] =
       Append([VersionsFor(m, p) EXCEPT ![version].status = "superseded"],
              [status |-> "proposed", payload |-> payload])]
  /\ UNCHANGED <<message, executions>>

(* _decidable, and the hash the reviewer saw.                              *)
Decidable(m, number, p, version, payload) ==
  /\ Known(m, number)
  /\ HeadNumber(m, p) = version
  /\ HeadVersion(m, p) = [status |-> "proposed", payload |-> payload]

Decide(m, p, version, status) ==
  packet' = [packet EXCEPT ![m].proposals[p][version].status = status]

(* Mistakes: any proposed or superseded version can be approved; the head  *)
(* is approved whatever version the request names.                         *)
ApproveAnyVersion(m, number, p, version, payload) ==
  /\ Known(m, number)
  /\ VersionsFor(m, p)[version].payload = payload
  /\ payload \notin Escalations
  /\ Decide(m, p, version, "approved")
  /\ executions' = executions \cup
       {[mail |-> m, number |-> number, proposal |-> p, version |-> version,
         payload |-> payload]}
  /\ UNCHANGED message

ApproveHead(m, number, p, version, payload) ==
  /\ Known(m, number)
  /\ HeadVersion(m, p).status = "proposed"
  /\ HeadVersion(m, p).payload \notin Escalations
  /\ Decide(m, p, HeadNumber(m, p), "approved")
  /\ executions' = executions \cup
       {[mail |-> m, number |-> number, proposal |-> p, version |-> HeadNumber(m, p),
         payload |-> payload]}
  /\ UNCHANGED message

(***************************************************************************)
(* approve_proposal: the version, its execution row and its outbox row in  *)
(* one transaction.  Approving the approved head again returns the row.    *)
(***************************************************************************)
ApproveProposal(m, number, p, version, payload) ==
  /\ Decidable(m, number, p, version, payload)
  /\ payload \notin Escalations
  /\ Decide(m, p, version, "approved")
  /\ executions' = executions \cup
       {[mail |-> m, number |-> number, proposal |-> p, version |-> version,
         payload |-> payload]}
  /\ UNCHANGED message

RejectProposal(m, number, p, version, payload) ==
  /\ Decidable(m, number, p, version, payload)
  /\ Decide(m, p, version, "rejected")
  /\ UNCHANGED <<message, executions>>

=============================================================================
