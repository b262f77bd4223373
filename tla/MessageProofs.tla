--------------------------- MODULE MessageProofs ---------------------------
(***************************************************************************)
(* Proofs about Messages: types, the history of a proposal's versions, and *)
(* the executions that stand for approved versions.                        *)
(*                                                                         *)
(* The argument: an execution is only ever added together with an approved *)
(* version, an approved version is never rewritten (edits and decisions    *)
(* touch a proposed head only) and never discarded (a packet with one is   *)
(* not reset, and a packet that exists is not replaced).  Hence it is the  *)
(* head of the only packet its message will ever have.                     *)
(***************************************************************************)
EXTENDS Messages, SequenceTheorems, TLAPS

(***************************************************************************)
(* What the version history needs besides the properties: a message        *)
(* without a packet has no versions, and a processor works on a message.   *)
(***************************************************************************)
AbsentPacketsEmpty ==
  \A m \in Mails : ~packet[m].present => packet[m].proposals = NoVersions

ProcessorsHaveMail ==
  \A p \in Processors : processor[p].stage # "idle" => processor[p].mail \in Mails

(* The part about packets and executions, and the part about the rest.     *)
PacketsInv ==
  /\ packet \in [Mails -> Packet]
  /\ executions \subseteq ExecutionKey
  /\ AbsentPacketsEmpty
  /\ OneHistory
  /\ ExecutionsBacked

FramesInv ==
  /\ message \in [Mails -> MessageRow]
  /\ source \in [Senders -> {"unseen", "suggested", "confirmed", "rejected"}]
  /\ sync \in [Syncs -> SyncFrame]
  /\ processor \in [Processors -> ProcessorFrame]
  /\ reviewer \in [Reviewers -> SUBSET View]
  /\ ProcessorsHaveMail

MessagesInv == PacketsInv /\ FramesInv

-----------------------------------------------------------------------------
(* Lemmas about histories: what an edit and a decision make of one.        *)

LEMMA SupersededHistory ==
  ASSUME NEW s \in Seq(Version), s # <<>>
  PROVE  LET u == [s EXCEPT ![Len(s)].status = "superseded"] IN
         /\ u \in Seq(Version)
         /\ Len(u) = Len(s)
         /\ \A i \in 1 .. Len(s) - 1 : u[i] = s[i]
         /\ u[Len(s)] = [status |-> "superseded", payload |-> s[Len(s)].payload]
<1> DEFINE u == [s EXCEPT ![Len(s)].status = "superseded"]
<1>1. Len(s) \in Nat \ {0} /\ s \in [1 .. Len(s) -> Version]
  OBVIOUS
<1>2. [s[Len(s)] EXCEPT !.status = "superseded"]
        = [status |-> "superseded", payload |-> s[Len(s)].payload]
  BY <1>1 DEF Version
<1>3. u \in [1 .. Len(s) -> Version]
  BY <1>1, <1>2 DEF Version
<1>4. \A i \in 1 .. Len(s) - 1 : u[i] = s[i]
  BY <1>1
<1>5. u[Len(s)] = [status |-> "superseded", payload |-> s[Len(s)].payload]
  BY <1>1, <1>2
<1> HIDE DEF u
<1>6. u \in Seq(Version) /\ Len(u) = Len(s)
  BY <1>1, <1>3
<1> QED
  BY <1>4, <1>5, <1>6 DEF u

LEMMA DecidedHistory ==
  ASSUME NEW s \in Seq(Version), s # <<>>,
         NEW status \in {"approved", "rejected"}
  PROVE  LET t == [s EXCEPT ![Len(s)].status = status] IN
         /\ t \in Seq(Version)
         /\ Len(t) = Len(s)
         /\ \A i \in 1 .. Len(s) - 1 : t[i] = s[i]
         /\ t[Len(s)] = [status |-> status, payload |-> s[Len(s)].payload]
<1> DEFINE t == [s EXCEPT ![Len(s)].status = status]
<1>1. Len(s) \in Nat \ {0} /\ s \in [1 .. Len(s) -> Version]
  OBVIOUS
<1>2. [s[Len(s)] EXCEPT !.status = status]
        = [status |-> status, payload |-> s[Len(s)].payload]
  BY <1>1 DEF Version
<1>3. t \in [1 .. Len(s) -> Version]
  BY <1>1, <1>2 DEF Version
<1>4. \A i \in 1 .. Len(s) - 1 : t[i] = s[i]
  BY <1>1
<1>5. t[Len(s)] = [status |-> status, payload |-> s[Len(s)].payload]
  BY <1>1, <1>2
<1> HIDE DEF t
<1>6. t \in Seq(Version) /\ Len(t) = Len(s)
  BY <1>1, <1>3
<1> QED
  BY <1>4, <1>5, <1>6 DEF t

LEMMA EditedHistory ==
  ASSUME NEW s \in Seq(Version), s # <<>>,
         NEW payload \in Payloads
  PROVE  LET t == Append([s EXCEPT ![Len(s)].status = "superseded"],
                         [status |-> "proposed", payload |-> payload])
         IN /\ t \in Seq(Version)
            /\ Len(t) = Len(s) + 1
            /\ \A i \in 1 .. Len(s) - 1 : t[i] = s[i]
            /\ t[Len(s)] = [status |-> "superseded", payload |-> s[Len(s)].payload]
            /\ t[Len(s) + 1] = [status |-> "proposed", payload |-> payload]
<1> DEFINE u == [s EXCEPT ![Len(s)].status = "superseded"]
           new == [status |-> "proposed", payload |-> payload]
           t == Append(u, new)
<1>1. Len(s) \in Nat \ {0}
  OBVIOUS
<1>2. /\ u \in Seq(Version)
      /\ Len(u) = Len(s)
      /\ \A i \in 1 .. Len(s) - 1 : u[i] = s[i]
      /\ u[Len(s)] = [status |-> "superseded", payload |-> s[Len(s)].payload]
  BY SupersededHistory, Zenon
<1>3. new \in Version /\ new = [status |-> "proposed", payload |-> payload]
  BY DEF Version
<1> HIDE DEF u, new
<1>4. /\ t \in Seq(Version)
      /\ Len(t) = Len(u) + 1
      /\ \A i \in 1 .. Len(u) : t[i] = u[i]
      /\ t[Len(u) + 1] = new
  BY <1>2, <1>3, AppendProperties
<1> HIDE DEF t
<1>5. \A i \in 1 .. Len(s) - 1 : t[i] = s[i]
  BY <1>1, <1>2, <1>4
<1>6. t[Len(s)] = [status |-> "superseded", payload |-> s[Len(s)].payload]
  BY <1>1, <1>2, <1>4
<1>7. /\ t \in Seq(Version)
      /\ Len(t) = Len(s) + 1
      /\ t[Len(s) + 1] = [status |-> "proposed", payload |-> payload]
  BY <1>2, <1>3, <1>4
<1> QED
  BY <1>5, <1>6, <1>7, Zenon DEF t, u, new

-----------------------------------------------------------------------------
(* Every step seen from the packets and the executions.                    *)

(* What a caregiver's decision on the head of a proposal may do.           *)
Decides(m, number, p, version, payload) ==
  \/ \E new \in Payloads : EditProposal(m, number, p, version, new)
  \/ ApproveProposal(m, number, p, version, payload)
  \/ RejectProposal(m, number, p, version, payload)

InsertsPacket(m, draft) ==
  /\ ~packet[m].present
  /\ packet' = [packet EXCEPT ![m] =
       [present   |-> TRUE,
        number    |-> packet[m].number + 1,
        proposals |-> [p \in Proposals |->
                         <<[status |-> "proposed", payload |-> draft[p]]>>]]]
  /\ UNCHANGED executions

PacketStep ==
  \/ UNCHANGED <<packet, executions>>
  \/ \E m \in Mails, draft \in [Proposals -> Payloads] : InsertsPacket(m, draft)
  \/ \E m \in Mails : ResetProcessedMessage(m)
  \/ \E m \in Mails, p \in Proposals, number \in Nat, version \in Nat, payload \in Payloads :
       Decides(m, number, p, version, payload)

LEMMA PacketSteps ==
  ASSUME MessagesInv, [Next]_vars
  PROVE  PacketStep
<1> USE DEF PacketStep
<1>1. CASE UNCHANGED vars
  BY <1>1 DEF vars
<1>2. CASE Caregiver
  BY <1>2 DEF Caregiver, SetSourceStatus, Retry, Reanalyze, ResetFailedMessage, messageVars
<1>3. ASSUME NEW y \in Syncs, Sync(y)
      PROVE  UNCHANGED <<packet, executions>>
  BY <1>3 DEF Sync, ListPage, RecordHeader, ReadSources, FetchMessage, SaveFetched,
     ImportFailed, EndSync, UpsertHeader, SaveFetchedMessage, SetMessageFailed, messageVars
<1>4. ASSUME NEW p \in Processors, Process(p)
      PROVE  PacketStep
  <2>1. ASSUME NEW draft \in [Proposals -> Payloads], SavePacket(p, draft)
        PROVE  PacketStep
    <3>1. processor[p].mail \in Mails
      BY <2>1 DEF MessagesInv, FramesInv, ProcessorsHaveMail, SavePacket
    <3>2. UNCHANGED <<packet, executions>> \/ InsertsPacket(processor[p].mail, draft)
      BY <2>1 DEF SavePacket, SaveProcessedPacket, InsertsPacket, messageVars
    <3> QED
      BY <3>1, <3>2
  <2>2. (\E draft \in [Proposals -> Payloads] : SavePacket(p, draft))
          \/ UNCHANGED <<packet, executions>>
    BY <1>4 DEF Process, StartProcessing, Analyze, AnalyzeFails, EndProcessing,
       MarkFailed, SetMessageFailed, messageVars
  <2> QED
    BY <2>1, <2>2
<1>5. ASSUME NEW r \in Reviewers, Review(r)
      PROVE  PacketStep
  <2>1. ASSUME NEW v \in reviewer[r]
        PROVE  v \in View
    BY DEF MessagesInv, FramesInv
  <2>2. ASSUME NEW payload \in Payloads, Edit(r, payload)
        PROVE  PacketStep
    <3>1. PICK v \in reviewer[r] :
            EditProposal(v.mail, v.number, v.proposal, v.version, payload)
      BY <2>2 DEF Edit
    <3>2. v \in View
      BY <2>1
    <3>3. Decides(v.mail, v.number, v.proposal, v.version, v.payload)
      BY <3>1 DEF Decides
    <3> QED
      BY <3>2, <3>3 DEF View
  <2>3. CASE Approve(r)
    <3>1. PICK v \in reviewer[r] :
            ApproveProposal(v.mail, v.number, v.proposal, v.version, v.payload)
      BY <2>3 DEF Approve
    <3>2. v \in View
      BY <2>1
    <3>3. Decides(v.mail, v.number, v.proposal, v.version, v.payload)
      BY <3>1 DEF Decides
    <3> QED
      BY <3>2, <3>3 DEF View
  <2>4. CASE Reject(r)
    <3>1. PICK v \in reviewer[r] :
            RejectProposal(v.mail, v.number, v.proposal, v.version, v.payload)
      BY <2>4 DEF Reject
    <3>2. v \in View
      BY <2>1
    <3>3. Decides(v.mail, v.number, v.proposal, v.version, v.payload)
      BY <3>1 DEF Decides
    <3> QED
      BY <3>2, <3>3 DEF View
  <2>5. ASSUME NEW m \in Mails, NEW p \in Proposals, ViewProposal(r, m, p)
        PROVE  UNCHANGED <<packet, executions>>
    BY <2>5 DEF ViewProposal, messageVars
  <2> QED
    BY <1>5, <2>2, <2>3, <2>4, <2>5 DEF Review
<1> QED
  BY <1>1, <1>2, <1>3, <1>4, <1>5 DEF Next

-----------------------------------------------------------------------------
(* What a decision makes of one history, and of the others.                *)

(* t is s after an edit or a decision of its head.                         *)
Succeeds(s, t) ==
  /\ \A i \in 1 .. Len(s) - 1 : t[i] = s[i]
  /\ t[Len(s)].payload = s[Len(s)].payload
  /\ \/ /\ Len(t) = Len(s) + 1
        /\ t[Len(s)].status = "superseded"
        /\ t[Len(s) + 1].status = "proposed"
     \/ /\ Len(t) = Len(s)
        /\ t[Len(s)].status \in {"approved", "rejected"}

Rewritten(m, p, t) ==
  /\ packet' \in [Mails -> Packet]
  /\ \A n \in Mails \ {m} : packet'[n] = packet[n]
  /\ packet'[m].present = packet[m].present
  /\ packet'[m].number = packet[m].number
  /\ packet'[m].proposals[p] = t
  /\ \A q \in Proposals \ {p} : packet'[m].proposals[q] = packet[m].proposals[q]

LEMMA Rewriting ==
  ASSUME packet \in [Mails -> Packet],
         NEW m \in Mails, NEW p \in Proposals, NEW t \in Seq(Version),
         packet' = [packet EXCEPT ![m].proposals[p] = t]
  PROVE  Rewritten(m, p, t)
BY DEF Rewritten, Packet

LEMMA HeadFacts ==
  ASSUME PacketsInv,
         NEW m \in Mails, NEW p \in Proposals, NEW number \in Nat, NEW version \in Nat,
         NEW payload \in Payloads,
         Decides(m, number, p, version, payload)
  PROVE  /\ packet[m].present
         /\ packet[m].number = number
         /\ packet[m].proposals[p] \in Seq(Version)
         /\ packet[m].proposals[p] # <<>>
         /\ version = Len(packet[m].proposals[p])
         /\ packet[m].proposals[p][version].status = "proposed"
<1>1. packet[m].present /\ packet[m].number = number
  BY DEF Decides, EditProposal, ApproveProposal, RejectProposal, Decidable, Known
<1>2. packet[m].proposals[p] \in Seq(Version)
  BY DEF PacketsInv, Packet
<1>3. packet[m].proposals[p] # <<>>
  BY <1>1 DEF PacketsInv, OneHistory, VersionsFor
<1>4. version = Len(packet[m].proposals[p])
  BY DEF Decides, EditProposal, ApproveProposal, RejectProposal, Decidable,
     HeadNumber, VersionsFor
<1>5. packet[m].proposals[p][version].status = "proposed"
  <2>1. HeadVersion(m, p) = packet[m].proposals[p][version]
    BY <1>4, Zenon DEF HeadVersion, HeadNumber, VersionsFor
  <2>2. (HeadVersion(m, p) = [status |-> "proposed", payload |-> payload])
          => HeadVersion(m, p).status = "proposed"
    OBVIOUS
  <2>3. HeadVersion(m, p).status = "proposed"
    BY <2>2, Zenon DEF Decides, EditProposal, ApproveProposal, RejectProposal, Decidable
  <2> QED
    BY <2>1, <2>3
<1> QED
  BY <1>1, <1>2, <1>3, <1>4, <1>5

LEMMA EditStep ==
  ASSUME PacketsInv,
         NEW m \in Mails, NEW p \in Proposals, NEW number \in Nat, NEW version \in Nat,
         NEW payload \in Payloads,
         EditProposal(m, number, p, version, payload)
  PROVE  /\ \E t \in Seq(Version) :
              /\ Rewritten(m, p, t)
              /\ Succeeds(packet[m].proposals[p], t)
              /\ t[Len(packet[m].proposals[p])].status # "approved"
         /\ executions' = executions
<1> DEFINE s == packet[m].proposals[p]
           t == Append([s EXCEPT ![Len(s)].status = "superseded"],
                       [status |-> "proposed", payload |-> payload])
<1>1. Decides(m, number, p, version, payload)
  BY DEF Decides
<1>2. s \in Seq(Version) /\ s # <<>> /\ version = Len(s)
  BY <1>1, HeadFacts
<1>3. packet' = [packet EXCEPT ![m].proposals[p] = t] /\ executions' = executions
  BY <1>2 DEF EditProposal, VersionsFor
<1>4. /\ t \in Seq(Version)
      /\ Len(t) = Len(s) + 1
      /\ \A i \in 1 .. Len(s) - 1 : t[i] = s[i]
      /\ t[Len(s)] = [status |-> "superseded", payload |-> s[Len(s)].payload]
      /\ t[Len(s) + 1] = [status |-> "proposed", payload |-> payload]
  <2> HIDE DEF s
  <2> QED
    BY <1>2, EditedHistory, Zenon
<1> HIDE DEF t
<1>5. Rewritten(m, p, t)
  BY <1>3, <1>4, Rewriting DEF PacketsInv
<1> HIDE DEF s
<1>6. Succeeds(s, t) /\ t[Len(s)].status # "approved"
  BY <1>4 DEF Succeeds
<1> QED
  BY <1>3, <1>4, <1>5, <1>6, Zenon DEF s

LEMMA DecideStep ==
  ASSUME PacketsInv,
         NEW m \in Mails, NEW p \in Proposals, NEW number \in Nat, NEW version \in Nat,
         NEW payload \in Payloads,
         Decides(m, number, p, version, payload),
         NEW status \in {"approved", "rejected"},
         Decide(m, p, version, status)
  PROVE  \E t \in Seq(Version) :
           /\ Rewritten(m, p, t)
           /\ Succeeds(packet[m].proposals[p], t)
           /\ Len(t) = version
           /\ t[version] = [status  |-> status,
                            payload |-> packet[m].proposals[p][version].payload]
<1> DEFINE s == packet[m].proposals[p]
           t == [s EXCEPT ![Len(s)].status = status]
<1>1. s \in Seq(Version) /\ s # <<>> /\ version = Len(s)
  BY HeadFacts
<1>2. packet' = [packet EXCEPT ![m].proposals[p] = t]
  BY <1>1 DEF Decide
<1>3. /\ t \in Seq(Version)
      /\ Len(t) = Len(s)
      /\ \A i \in 1 .. Len(s) - 1 : t[i] = s[i]
      /\ t[Len(s)] = [status |-> status, payload |-> s[Len(s)].payload]
  <2> HIDE DEF s
  <2> QED
    BY <1>1, DecidedHistory, Zenon
<1> HIDE DEF t
<1>4. Rewritten(m, p, t)
  BY <1>2, <1>3, Rewriting DEF PacketsInv
<1> HIDE DEF s
<1>5. Succeeds(s, t)
  BY <1>3 DEF Succeeds
<1> QED
  BY <1>1, <1>3, <1>4, <1>5, Zenon DEF s

-----------------------------------------------------------------------------
(* Packets and executions under each kind of step.                         *)

LEMMA InsertKeepsPackets ==
  ASSUME PacketsInv,
         NEW m \in Mails, NEW draft \in [Proposals -> Payloads],
         InsertsPacket(m, draft)
  PROVE  PacketsInv'
<1> DEFINE first(q) == <<[status |-> "proposed", payload |-> draft[q]]>>
<1>1. \A q \in Proposals : /\ first(q) \in Seq(Version)
                           /\ first(q) # <<>>
                           /\ Len(first(q)) = 1
                           /\ first(q)[1].status = "proposed"
  BY DEF Version
<1>2. /\ \A n \in Mails \ {m} : packet'[n] = packet[n]
      /\ packet'[m].present
      /\ \A q \in Proposals : packet'[m].proposals[q] = first(q)
  BY DEF InsertsPacket, PacketsInv
<1>3. packet' \in [Mails -> Packet]
  <2>1. [p \in Proposals |-> first(p)] \in [Proposals -> Seq(Version)]
    BY <1>1
  <2>2. packet[m].number + 1 \in Nat
    BY DEF PacketsInv, Packet
  <2> QED
    BY <2>1, <2>2 DEF InsertsPacket, PacketsInv, Packet
<1>4. executions' = executions /\ ~packet[m].present
  BY DEF InsertsPacket
<1> HIDE DEF first
<1>5. AbsentPacketsEmpty'
  BY <1>2 DEF PacketsInv, AbsentPacketsEmpty
<1>6. OneHistory'
  <2> SUFFICES ASSUME NEW n \in Mails, NEW q \in Proposals, packet'[n].present
               PROVE  /\ packet'[n].proposals[q] # <<>>
                      /\ \A i \in DOMAIN packet'[n].proposals[q] :
                           packet'[n].proposals[q][i].status = "superseded"
                             <=> i < Len(packet'[n].proposals[q])
    BY DEF OneHistory, VersionsFor, HeadNumber
  <2>1. CASE n # m
    BY <1>2, <2>1 DEF PacketsInv, OneHistory, VersionsFor, HeadNumber
  <2>2. CASE n = m
    <3>1. packet'[n].proposals[q] = first(q)
      BY <1>2, <2>2
    <3>2. DOMAIN first(q) = {1} /\ Len(first(q)) = 1 /\ first(q) # <<>>
      BY <1>1
    <3>3. first(q)[1].status # "superseded"
      BY <1>1
    <3>4. \A i \in {1} : first(q)[i].status = "superseded" <=> i < 1
      BY <3>3
    <3> QED
      BY <3>1, <3>2, <3>4, Zenon
  <2> QED
    BY <2>1, <2>2
<1>7. ExecutionsBacked'
  <2>1. \A x \in executions : x.mail \in Mails \ {m}
    BY <1>4 DEF PacketsInv, ExecutionKey, ExecutionsBacked
  <2>2. \A x \in executions : packet'[x.mail] = packet[x.mail]
    BY <1>2, <2>1
  <2>3. ASSUME NEW n \in Mails, NEW q \in Proposals,
               NEW i \in DOMAIN packet'[n].proposals[q],
               packet'[n].proposals[q][i].status = "approved"
        PROVE  \E x \in executions : x.mail = n /\ x.proposal = q /\ x.version = i
    <3>1. CASE n # m
      BY <1>2, <2>3, <3>1 DEF PacketsInv, ExecutionsBacked, VersionsFor
    <3>2. CASE n = m
      BY <1>1, <1>2, <2>3, <3>2
    <3> QED
      BY <3>1, <3>2
  <2> QED
    BY <1>4, <2>2, <2>3 DEF PacketsInv, ExecutionsBacked, VersionsFor
<1> QED
  BY <1>3, <1>4, <1>5, <1>6, <1>7 DEF PacketsInv

LEMMA ResetKeepsPackets ==
  ASSUME PacketsInv, NEW m \in Mails, ResetProcessedMessage(m)
  PROVE  PacketsInv'
<1>1. /\ \A n \in Mails \ {m} : packet'[n] = packet[n]
      /\ ~packet'[m].present
      /\ packet'[m].proposals = NoVersions
      /\ executions' = executions
  BY DEF ResetProcessedMessage, PacketsInv, Packet
<1>2. packet' \in [Mails -> Packet]
  <2>1. NoVersions \in [Proposals -> Seq(Version)]
    BY DEF NoVersions
  <2> QED
    BY <2>1 DEF ResetProcessedMessage, PacketsInv, Packet
<1>3. AbsentPacketsEmpty'
  BY <1>1 DEF PacketsInv, AbsentPacketsEmpty, NoVersions
<1>4. OneHistory'
  BY <1>1 DEF PacketsInv, OneHistory, VersionsFor, HeadNumber
<1>5. \A x \in executions : x.mail # m
  <2>1. \A x \in executions : packet[x.mail].number = x.number
    BY DEF PacketsInv, ExecutionsBacked
  <2>2. \A x \in executions : ~(x.mail = m /\ x.number = packet[m].number)
    BY Zenon DEF ResetProcessedMessage
  <2> QED
    BY <2>1, <2>2, Zenon
<1>6. ExecutionsBacked'
  <2>1. \A x \in executions : packet'[x.mail] = packet[x.mail]
    BY <1>1, <1>5 DEF PacketsInv, ExecutionKey
  <2>2. \A q \in Proposals : DOMAIN packet'[m].proposals[q] = {}
    BY <1>1 DEF NoVersions
  <2>3. ASSUME NEW n \in Mails, NEW q \in Proposals,
               NEW i \in DOMAIN packet'[n].proposals[q],
               packet'[n].proposals[q][i].status = "approved"
        PROVE  \E x \in executions : x.mail = n /\ x.proposal = q /\ x.version = i
    BY <1>1, <2>2, <2>3 DEF PacketsInv, ExecutionsBacked, VersionsFor
  <2> QED
    BY <1>1, <2>1, <2>3 DEF PacketsInv, ExecutionsBacked, VersionsFor
<1> QED
  BY <1>1, <1>2, <1>3, <1>4, <1>6 DEF PacketsInv

(* What a rewrite of one history leaves of every version.                  *)
VersionsKept ==
  \A n \in Mails, q \in Proposals : \A i \in DOMAIN packet[n].proposals[q] :
    /\ i \in DOMAIN packet'[n].proposals[q]
    /\ packet'[n].proposals[q][i].payload = packet[n].proposals[q][i].payload
    /\ packet[n].proposals[q][i].status # "proposed" =>
         packet'[n].proposals[q][i] = packet[n].proposals[q][i]

LEMMA SucceedingHistory ==
  ASSUME NEW s \in Seq(Version), s # <<>>,
         s[Len(s)].status = "proposed",
         \A i \in DOMAIN s : s[i].status = "superseded" <=> i < Len(s),
         NEW t \in Seq(Version), Succeeds(s, t)
  PROVE  /\ t # <<>>
         /\ \A i \in DOMAIN t : t[i].status = "superseded" <=> i < Len(t)
         /\ \A i \in DOMAIN s : /\ i \in DOMAIN t
                                /\ t[i].payload = s[i].payload
                                /\ s[i].status # "proposed" => t[i] = s[i]
         /\ \A i \in DOMAIN t : t[i].status = "approved" =>
              i = Len(s) \/ (i \in DOMAIN s /\ t[i] = s[i])
<1> DEFINE k == Len(s)
           l == Len(t)
<1>1. k \in Nat /\ k > 0 /\ DOMAIN s = 1 .. k
  OBVIOUS
<1>2. l \in Nat /\ DOMAIN t = 1 .. l /\ (l > 0 => t # <<>>)
  OBVIOUS
<1>3. /\ \A i \in 1 .. k - 1 : t[i] = s[i]
      /\ t[k].payload = s[k].payload
      /\ \/ l = k + 1 /\ t[k].status = "superseded" /\ t[k + 1].status = "proposed"
         \/ l = k /\ t[k].status \in {"approved", "rejected"}
  BY DEF Succeeds
<1>4. s[k].status = "proposed" /\ \A i \in 1 .. k : s[i].status = "superseded" <=> i < k
  BY <1>1
<1>5. t[k].status # "proposed"
  BY <1>3
<1> HIDE DEF k, l
<1>6. l > 0 /\ (l = k \/ l = k + 1)
  BY <1>1, <1>3
<1>7. \A i \in 1 .. k - 1 : t[i] = s[i] /\ t[i].status = "superseded"
  BY <1>1, <1>3, <1>4
<1>8. \A i \in 1 .. l : t[i].status = "superseded" <=> i < l
  <2> SUFFICES ASSUME NEW i \in 1 .. l
               PROVE  t[i].status = "superseded" <=> i < l
    OBVIOUS
  <2>1. CASE i \in 1 .. k - 1
    BY <1>1, <1>6, <1>7, <2>1
  <2>2. CASE i = k
    BY <1>1, <1>3, <2>2
  <2>3. CASE i = k + 1
    BY <1>1, <1>3, <1>6, <2>3
  <2> QED
    BY <1>1, <1>6, <2>1, <2>2, <2>3
<1>9. \A i \in 1 .. k : /\ i \in 1 .. l
                        /\ t[i].payload = s[i].payload
                        /\ s[i].status # "proposed" => t[i] = s[i]
  <2> SUFFICES ASSUME NEW i \in 1 .. k
               PROVE  /\ i \in 1 .. l
                      /\ t[i].payload = s[i].payload
                      /\ s[i].status # "proposed" => t[i] = s[i]
    OBVIOUS
  <2>1. i \in 1 .. l /\ (i = k \/ i \in 1 .. k - 1)
    BY <1>1, <1>2, <1>6
  <2>2. i = k => t[i].payload = s[i].payload /\ s[i].status = "proposed"
    BY <1>3, <1>4
  <2>3. i \in 1 .. k - 1 => t[i] = s[i]
    BY <1>7
  <2> QED
    BY <2>1, <2>2, <2>3, Zenon
<1>10. \A i \in 1 .. l : t[i].status = "approved" =>
         i = k \/ (i \in 1 .. k /\ t[i] = s[i])
  <2> SUFFICES ASSUME NEW i \in 1 .. l, t[i].status = "approved"
               PROVE  i = k \/ (i \in 1 .. k /\ t[i] = s[i])
    OBVIOUS
  <2>1. i = k + 1 => l = k + 1
    BY <1>1, <1>2, <1>6
  <2>2. i # k + 1
    <3>1. l = k + 1 => t[k + 1].status = "proposed"
      BY <1>1, <1>3
    <3>2. i = k + 1 => t[i].status = "proposed"
      BY <2>1, <3>1
    <3> QED
      BY <3>2
  <2>3. i = k \/ i \in 1 .. k - 1
    BY <1>1, <1>2, <1>6, <2>2
  <2> QED
    BY <1>1, <1>7, <2>3
<1>11. t # <<>>
  BY <1>2, <1>6
<1>12. \A i \in DOMAIN t : t[i].status = "superseded" <=> i < l
  BY <1>2, <1>8, Zenon
<1>13. \A i \in DOMAIN s : /\ i \in DOMAIN t
                           /\ t[i].payload = s[i].payload
                           /\ s[i].status # "proposed" => t[i] = s[i]
  <2> SUFFICES ASSUME NEW i \in DOMAIN s
               PROVE  /\ i \in DOMAIN t
                      /\ t[i].payload = s[i].payload
                      /\ s[i].status # "proposed" => t[i] = s[i]
    OBVIOUS
  <2>1. i \in 1 .. k /\ DOMAIN t = 1 .. l
    BY <1>1, <1>2
  <2> QED
    BY <1>9, <2>1
<1>14. \A i \in DOMAIN t : t[i].status = "approved" =>
         i = k \/ (i \in DOMAIN s /\ t[i] = s[i])
  BY <1>1, <1>2, <1>10, Zenon
<1> QED
  BY <1>11, <1>12, <1>13, <1>14, Zenon DEF k, l

LEMMA RewriteKeepsHistories ==
  ASSUME PacketsInv,
         NEW m \in Mails, NEW p \in Proposals, NEW t \in Seq(Version),
         packet[m].present,
         packet[m].proposals[p] \in Seq(Version),
         packet[m].proposals[p] # <<>>,
         packet[m].proposals[p][Len(packet[m].proposals[p])].status = "proposed",
         Rewritten(m, p, t),
         Succeeds(packet[m].proposals[p], t)
  PROVE  /\ packet' \in [Mails -> Packet]
         /\ AbsentPacketsEmpty'
         /\ OneHistory'
         /\ VersionsKept
<1> DEFINE s == packet[m].proposals[p]
<1>1. s \in Seq(Version) /\ s # <<>> /\ s[Len(s)].status = "proposed" /\ Succeeds(s, t)
  OBVIOUS
<1>2. \A i \in DOMAIN s : s[i].status = "superseded" <=> i < Len(s)
  BY DEF PacketsInv, OneHistory, VersionsFor, HeadNumber
<1>3. /\ t # <<>>
      /\ \A i \in DOMAIN t : t[i].status = "superseded" <=> i < Len(t)
      /\ \A i \in DOMAIN s : /\ i \in DOMAIN t
                             /\ t[i].payload = s[i].payload
                             /\ s[i].status # "proposed" => t[i] = s[i]
  <2> HIDE DEF s
  <2>1. s \in Seq(Version) /\ s # <<>> /\ s[Len(s)].status = "proposed"
    BY <1>1, Zenon
  <2>2. Succeeds(s, t)
    BY <1>1, Zenon
  <2> QED
    BY <1>2, <2>1, <2>2, SucceedingHistory, SMTT(30)
<1>4. /\ packet' \in [Mails -> Packet]
      /\ \A n \in Mails \ {m} : packet'[n] = packet[n]
      /\ packet'[m].present = packet[m].present
      /\ packet'[m].proposals[p] = t
      /\ \A q \in Proposals \ {p} : packet'[m].proposals[q] = packet[m].proposals[q]
  BY DEF Rewritten
<1> HIDE DEF s
<1>5. packet[m].proposals[p] = s
  BY DEF s
<1>6. AbsentPacketsEmpty'
  BY <1>4 DEF PacketsInv, AbsentPacketsEmpty, NoVersions
<1>7. OneHistory'
  <2> SUFFICES ASSUME NEW n \in Mails, NEW q \in Proposals, packet'[n].present
               PROVE  /\ packet'[n].proposals[q] # <<>>
                      /\ \A i \in DOMAIN packet'[n].proposals[q] :
                           packet'[n].proposals[q][i].status = "superseded"
                             <=> i < Len(packet'[n].proposals[q])
    BY DEF OneHistory, VersionsFor, HeadNumber
  <2>1. CASE n = m /\ q = p
    BY <1>3, <1>4, <2>1, Zenon
  <2>2. CASE n # m \/ q # p
    <3>1. packet'[n].proposals[q] = packet[n].proposals[q] /\ packet[n].present
      BY <1>4, <2>2
    <3>2. /\ packet[n].proposals[q] # <<>>
          /\ \A i \in DOMAIN packet[n].proposals[q] :
               packet[n].proposals[q][i].status = "superseded"
                 <=> i < Len(packet[n].proposals[q])
      BY <3>1 DEF PacketsInv, OneHistory, VersionsFor, HeadNumber
    <3> QED
      BY <3>1, <3>2
  <2> QED
    BY <2>1, <2>2
<1>8. VersionsKept
  <2> SUFFICES ASSUME NEW n \in Mails, NEW q \in Proposals
               PROVE  \A i \in DOMAIN packet[n].proposals[q] :
                 /\ i \in DOMAIN packet'[n].proposals[q]
                 /\ packet'[n].proposals[q][i].payload = packet[n].proposals[q][i].payload
                 /\ packet[n].proposals[q][i].status # "proposed" =>
                      packet'[n].proposals[q][i] = packet[n].proposals[q][i]
    BY DEF VersionsKept
  <2>1. CASE n = m /\ q = p
    BY <1>3, <1>4, <1>5, <2>1, Zenon
  <2>2. CASE n # m \/ q # p
    <3>1. packet'[n].proposals[q] = packet[n].proposals[q]
      BY <1>4, <2>2
    <3> QED
      BY <3>1, Zenon
  <2> QED
    BY <2>1, <2>2
<1> QED
  BY <1>4, <1>6, <1>7, <1>8

LEMMA DecisionKeepsPackets ==
  ASSUME PacketsInv,
         NEW m \in Mails, NEW p \in Proposals, NEW number \in Nat, NEW version \in Nat,
         NEW payload \in Payloads,
         Decides(m, number, p, version, payload)
  PROVE  /\ PacketsInv'
         /\ VersionsKept
         /\ \A n \in Mails : /\ packet'[n].present = packet[n].present
                            /\ packet'[n].number = packet[n].number
<1> DEFINE s == packet[m].proposals[p]
           key == [mail |-> m, number |-> number, proposal |-> p,
                   version |-> version, payload |-> payload]
<1>1. /\ packet[m].present
      /\ packet[m].number = number
      /\ s \in Seq(Version)
      /\ s # <<>>
      /\ version = Len(s)
      /\ s[version].status = "proposed"
  BY HeadFacts
(* Either the new head is approved and has its execution, or neither.      *)
<1>2. \E t \in Seq(Version) :
        /\ Rewritten(m, p, t)
        /\ Succeeds(s, t)
        /\ \/ t[version].status # "approved" /\ executions' = executions
           \/ /\ Len(t) = version
              /\ t[version] = [status |-> "approved", payload |-> payload]
              /\ payload \notin Escalations
              /\ executions' = executions \cup {key}
  <2>1. ASSUME NEW new \in Payloads, EditProposal(m, number, p, version, new)
        PROVE  \E t \in Seq(Version) : /\ Rewritten(m, p, t)
                                       /\ Succeeds(s, t)
                                       /\ t[version].status # "approved"
                                       /\ executions' = executions
    BY <1>1, <2>1, EditStep
  <2>2. CASE ApproveProposal(m, number, p, version, payload)
    <3>1. s[version].payload = payload
      <4>1. HeadVersion(m, p) = s[version]
        BY <1>1, Zenon DEF HeadVersion, HeadNumber, VersionsFor
      <4> QED
        BY <2>2, <4>1 DEF ApproveProposal, Decidable
    <3>2. /\ payload \notin Escalations
          /\ executions' = executions \cup {key}
          /\ Decide(m, p, version, "approved")
      BY <2>2 DEF ApproveProposal
    <3>3. PICK t \in Seq(Version) :
            /\ Rewritten(m, p, t)
            /\ Succeeds(s, t)
            /\ Len(t) = version
            /\ t[version] = [status |-> "approved", payload |-> s[version].payload]
      BY <3>2, DecideStep
    <3> QED
      BY <3>1, <3>2, <3>3, Zenon
  <2>3. CASE RejectProposal(m, number, p, version, payload)
    <3>1. executions' = executions /\ Decide(m, p, version, "rejected")
      BY <2>3 DEF RejectProposal
    <3>2. PICK t \in Seq(Version) :
            /\ Rewritten(m, p, t)
            /\ Succeeds(s, t)
            /\ t[version] = [status |-> "rejected", payload |-> s[version].payload]
      BY <3>1, DecideStep
    <3>3. t[version].status # "approved"
      BY <3>2
    <3> QED
      BY <3>1, <3>2, <3>3
  <2> QED
    BY <2>1, <2>2, <2>3, Zenon DEF Decides
<1>3. PICK t \in Seq(Version) :
        /\ Rewritten(m, p, t)
        /\ Succeeds(s, t)
        /\ \/ t[version].status # "approved" /\ executions' = executions
           \/ /\ Len(t) = version
              /\ t[version] = [status |-> "approved", payload |-> payload]
              /\ payload \notin Escalations
              /\ executions' = executions \cup {key}
  BY <1>2
<1>4. packet' \in [Mails -> Packet] /\ AbsentPacketsEmpty' /\ OneHistory' /\ VersionsKept
  BY <1>1, <1>3, RewriteKeepsHistories
<1> HIDE DEF s
<1>5. /\ \A n \in Mails : /\ packet'[n].present = packet[n].present
                          /\ packet'[n].number = packet[n].number
      /\ packet'[m].proposals[p] = t
      /\ \A n \in Mails, q \in Proposals :
           n # m \/ q # p => packet'[n].proposals[q] = packet[n].proposals[q]
  BY <1>3 DEF Rewritten
<1>6. key \in ExecutionKey /\ executions' \subseteq ExecutionKey
  BY <1>3 DEF PacketsInv, ExecutionKey
(* An execution of before stands for a version that is not proposed.       *)
<1>7. \A x \in executions :
        /\ packet'[x.mail].present
        /\ packet'[x.mail].number = x.number
        /\ x.version \in DOMAIN packet'[x.mail].proposals[x.proposal]
        /\ packet'[x.mail].proposals[x.proposal][x.version]
             = [status |-> "approved", payload |-> x.payload]
        /\ x.payload \notin Escalations
  <2> SUFFICES ASSUME NEW x \in executions
               PROVE  /\ packet'[x.mail].present
                      /\ packet'[x.mail].number = x.number
                      /\ x.version \in DOMAIN packet'[x.mail].proposals[x.proposal]
                      /\ packet'[x.mail].proposals[x.proposal][x.version]
                           = [status |-> "approved", payload |-> x.payload]
                      /\ x.payload \notin Escalations
    OBVIOUS
  <2>1. x.mail \in Mails /\ x.proposal \in Proposals
    BY DEF PacketsInv, ExecutionKey
  <2>2. /\ packet[x.mail].present
        /\ packet[x.mail].number = x.number
        /\ x.version \in DOMAIN packet[x.mail].proposals[x.proposal]
        /\ packet[x.mail].proposals[x.proposal][x.version]
             = [status |-> "approved", payload |-> x.payload]
        /\ x.payload \notin Escalations
    BY Zenon DEF PacketsInv, ExecutionsBacked, VersionsFor
  <2>3. packet[x.mail].proposals[x.proposal][x.version].status # "proposed"
    BY <2>2
  <2> QED
    BY <1>4, <1>5, <2>1, <2>2, <2>3, Zenon DEF VersionsKept
<1>8. /\ packet'[m].present
      /\ packet'[m].number = number
      /\ executions' # executions =>
           /\ version \in DOMAIN packet'[m].proposals[p]
           /\ packet'[m].proposals[p][version] = [status |-> "approved", payload |-> payload]
           /\ payload \notin Escalations
  <2>1. Len(s) \in Nat \ {0} /\ DOMAIN t = 1 .. Len(t)
    BY <1>1
  <2> QED
    BY <1>1, <1>3, <1>5, <2>1
<1>9. \A x \in executions' : x \in executions \/ (x = key /\ executions' # executions)
  BY <1>3
<1>10. /\ key.mail = m /\ key.number = number /\ key.proposal = p
       /\ key.version = version /\ key.payload = payload
  OBVIOUS
<1>11. ASSUME NEW n \in Mails, NEW q \in Proposals,
              NEW i \in DOMAIN packet'[n].proposals[q],
              packet'[n].proposals[q][i].status = "approved"
       PROVE  \E x \in executions' : x.mail = n /\ x.proposal = q /\ x.version = i
  <2>1. executions \subseteq executions'
    BY <1>3
  <2>2. ASSUME i \in DOMAIN packet[n].proposals[q],
               packet[n].proposals[q][i].status = "approved"
        PROVE  \E x \in executions : x.mail = n /\ x.proposal = q /\ x.version = i
    BY <2>2 DEF PacketsInv, ExecutionsBacked, VersionsFor
  <2>3. CASE n # m \/ q # p
    BY <1>5, <1>11, <2>1, <2>2, <2>3
  <2>4. CASE n = m /\ q = p
    <3>1. i \in DOMAIN t /\ t[i].status = "approved"
      BY <1>5, <1>11, <2>4
    <3>2. i = version \/ (i \in DOMAIN s /\ t[i] = s[i])
      <4>1. \A j \in DOMAIN s : s[j].status = "superseded" <=> j < Len(s)
        BY <1>1 DEF s, PacketsInv, OneHistory, VersionsFor, HeadNumber
      <4>2. s \in Seq(Version) /\ s # <<>> /\ s[Len(s)].status = "proposed"
        BY <1>1
      <4>3. Succeeds(s, t)
        BY <1>3
      <4>4. \A j \in DOMAIN t : t[j].status = "approved" =>
              j = Len(s) \/ (j \in DOMAIN s /\ t[j] = s[j])
        BY <4>1, <4>2, <4>3, SucceedingHistory, SMTT(30)
      <4> QED
        BY <1>1, <3>1, <4>4, Zenon
    <3>3. CASE i \in DOMAIN s /\ t[i] = s[i]
      BY <2>1, <2>2, <2>4, <3>1, <3>3 DEF s
    <3>4. CASE i = version
      <4>1. key \in executions'
        BY <1>3, <3>1, <3>4
      <4> QED
        BY <1>10, <2>4, <3>4, <4>1, Zenon
    <3> QED
      BY <3>2, <3>3, <3>4
  <2> QED
    BY <2>3, <2>4
<1> HIDE DEF key
<1>12. ExecutionsBacked'
  <2>1. ASSUME NEW x \in executions'
        PROVE  /\ packet'[x.mail].present
               /\ packet'[x.mail].number = x.number
               /\ x.version \in DOMAIN packet'[x.mail].proposals[x.proposal]
               /\ packet'[x.mail].proposals[x.proposal][x.version]
                    = [status |-> "approved", payload |-> x.payload]
               /\ x.payload \notin Escalations
    BY <1>7, <1>8, <1>9, <1>10, Zenon
  <2> QED
    BY <1>11, <2>1 DEF ExecutionsBacked, VersionsFor
<1> QED
  BY <1>4, <1>5, <1>6, <1>12 DEF PacketsInv

LEMMA PacketsInductive ==
  ASSUME PacketsInv, PacketStep
  PROVE  PacketsInv'
<1>1. CASE UNCHANGED <<packet, executions>>
  BY <1>1 DEF PacketsInv, AbsentPacketsEmpty, OneHistory, ExecutionsBacked,
     VersionsFor, HeadNumber
<1>2. ASSUME NEW m \in Mails, NEW draft \in [Proposals -> Payloads], InsertsPacket(m, draft)
      PROVE  PacketsInv'
  BY <1>2, InsertKeepsPackets
<1>3. ASSUME NEW m \in Mails, ResetProcessedMessage(m)
      PROVE  PacketsInv'
  BY <1>3, ResetKeepsPackets
<1>4. ASSUME NEW m \in Mails, NEW p \in Proposals, NEW number \in Nat, NEW version \in Nat,
             NEW payload \in Payloads, Decides(m, number, p, version, payload)
      PROVE  PacketsInv'
  BY <1>4, DecisionKeepsPackets
<1> QED
  BY <1>1, <1>2, <1>3, <1>4 DEF PacketStep

-----------------------------------------------------------------------------
(* The frames under each action.                                           *)

LEMMA MessageRows ==
  ASSUME message \in [Mails -> MessageRow], NEW m,
         \/ UpsertHeader(m)
         \/ SaveFetchedMessage(m)
         \/ SetMessageFailed(m)
         \/ ResetFailedMessage(m)
         \/ ResetProcessedMessage(m)
         \/ \E draft \in [Proposals -> Payloads] : SaveProcessedPacket(m, draft)
         \/ UNCHANGED message
  PROVE  message' \in [Mails -> MessageRow]
<1> USE DEF MessageRow, MessageStatuses
<1>1. CASE UpsertHeader(m)
  BY <1>1 DEF UpsertHeader
<1>2. CASE SaveFetchedMessage(m)
  BY <1>2 DEF SaveFetchedMessage
<1>3. CASE SetMessageFailed(m)
  BY <1>3 DEF SetMessageFailed
<1>4. CASE ResetFailedMessage(m)
  BY <1>4 DEF ResetFailedMessage
<1>5. CASE ResetProcessedMessage(m)
  <2>1. message' = [message EXCEPT ![m].status = "awaiting_agent"]
    BY <1>5 DEF ResetProcessedMessage
  <2> QED
    BY <2>1
<1>6. ASSUME NEW draft \in [Proposals -> Payloads], SaveProcessedPacket(m, draft)
      PROVE  message' \in [Mails -> MessageRow]
  <2>1. message' = message \/ message' = [message EXCEPT ![m].status = "processed"]
    BY <1>6 DEF SaveProcessedPacket, messageVars
  <2> QED
    BY <2>1
<1> QED
  BY <1>1, <1>2, <1>3, <1>4, <1>5, <1>6

LEMMA FramesInductive ==
  ASSUME MessagesInv, [Next]_vars
  PROVE  FramesInv'
<1> USE DEF FramesInv
<1>1. FramesInv /\ PacketsInv
  BY DEF MessagesInv
<1>2. CASE UNCHANGED vars
  BY <1>1, <1>2 DEF vars, ProcessorsHaveMail
<1>3. CASE Caregiver
  <2>1. ASSUME NEW u \in Senders, NEW status \in {"confirmed", "rejected"},
               SetSourceStatus(u, status)
        PROVE  FramesInv'
    BY <1>1, <2>1 DEF SetSourceStatus, messageVars, ProcessorsHaveMail
  <2>2. ASSUME NEW m \in Mails, Retry(m) \/ Reanalyze(m)
        PROVE  FramesInv'
    <3>1. message' \in [Mails -> MessageRow]
      BY <1>1, <2>2, MessageRows DEF Retry, Reanalyze
    <3> QED
      BY <1>1, <2>2, <3>1 DEF Retry, Reanalyze, ProcessorsHaveMail
  <2> QED
    BY <1>3, <2>1, <2>2 DEF Caregiver
<1>4. ASSUME NEW y \in Syncs, Sync(y)
      PROVE  FramesInv'
  <2>1. UNCHANGED <<processor, reviewer>>
    BY <1>4 DEF Sync, ListPage, RecordHeader, ReadSources, FetchMessage, SaveFetched,
       ImportFailed, EndSync, GoOn
  <2>2. message' \in [Mails -> MessageRow]
    <3>1. \E m : \/ UpsertHeader(m)
                 \/ SaveFetchedMessage(m)
                 \/ SetMessageFailed(m)
                 \/ UNCHANGED message
      BY <1>4 DEF Sync, ListPage, RecordHeader, ReadSources, FetchMessage, SaveFetched,
         ImportFailed, EndSync, messageVars
    <3> QED
      BY <1>1, <3>1, MessageRows
  <2>3. source' \in [Senders -> {"unseen", "suggested", "confirmed", "rejected"}]
    <3>1. ASSUME NEW m \in Mails, RecordHeader(y, m)
          PROVE  source' = source \/ source' = [source EXCEPT ![SenderOf[m]] = "suggested"]
      BY <3>1 DEF RecordHeader
    <3>2. source' = source \/ \E m \in Mails : RecordHeader(y, m)
      BY <1>4 DEF Sync, ListPage, ReadSources, FetchMessage, SaveFetched,
         ImportFailed, EndSync, GoOn
    <3> QED
      BY <1>1, <3>1, <3>2
  <2>4. sync' \in [Syncs -> SyncFrame]
    <3>1. IdleSync \in SyncFrame
      BY DEF IdleSync, SyncFrame
    <3>2. ASSUME NEW page \in SUBSET Mails, ListPage(y, page)
          PROVE  sync' \in [Syncs -> SyncFrame]
      BY <1>1, <3>1, <3>2 DEF ListPage, SyncFrame
    <3>3. sync[y] \in SyncFrame
      BY <1>1
    <3>4. ASSUME NEW m \in Mails, RecordHeader(y, m)
          PROVE  sync' \in [Syncs -> SyncFrame]
      <4> DEFINE frame == [sync[y] EXCEPT !.todo = sync[y].todo \ {m}, !.seen[m] = message'[m].status]
      <4>1. message'[m].status \in {"absent"} \cup MessageStatuses
        BY <2>2 DEF MessageRow
      <4>2. frame \in SyncFrame
        BY <3>3, <4>1 DEF SyncFrame
      <4>3. sync' = [sync EXCEPT ![y] = frame]
        BY <3>4, Zenon DEF RecordHeader
      <4> HIDE DEF frame
      <4> QED
        BY <1>1, <4>2, <4>3
    <3>5. ASSUME NEW m \in Mails, FetchMessage(y, m)
          PROVE  sync' \in [Syncs -> SyncFrame]
      <4> DEFINE frame(stage) ==
                   [sync[y] EXCEPT !.stage = stage, !.todo = sync[y].todo \ {m}, !.current = m]
      <4>1. frame("save") \in SyncFrame /\ frame("failed") \in SyncFrame
        BY <3>3 DEF SyncFrame
      <4>2. PICK stage \in {"save", "failed"} : sync' = [sync EXCEPT ![y] = frame(stage)]
        BY <3>5 DEF FetchMessage
      <4> HIDE DEF frame
      <4> QED
        BY <1>1, <4>1, <4>2
    <3>6. CASE ReadSources(y)
      <4>1. PICK todo \in SUBSET sync[y].page :
              sync' = [sync EXCEPT ![y] = [@ EXCEPT !.stage = "import", !.todo = todo]]
        BY <3>6 DEF ReadSources
      <4>2. [sync[y] EXCEPT !.stage = "import", !.todo = todo] \in SyncFrame
        BY <3>3, <4>1 DEF SyncFrame
      <4> QED
        BY <1>1, <4>1, <4>2
    <3>7. CASE SaveFetched(y) \/ ImportFailed(y)
      <4>1. [sync[y] EXCEPT !.stage = "import", !.current = None] \in SyncFrame
        BY <3>3 DEF SyncFrame
      <4> QED
        BY <1>1, <3>7, <4>1 DEF SaveFetched, ImportFailed, GoOn
    <3>8. CASE EndSync(y)
      BY <1>1, <3>1, <3>8 DEF EndSync
    <3> QED
      BY <1>4, <3>2, <3>4, <3>5, <3>6, <3>7, <3>8 DEF Sync
  <2> QED
    BY <1>1, <2>1, <2>2, <2>3, <2>4 DEF ProcessorsHaveMail
<1>5. ASSUME NEW p \in Processors, Process(p)
      PROVE  FramesInv'
  <2>1. UNCHANGED <<source, sync, reviewer>>
    BY <1>5 DEF Process, StartProcessing, Analyze, AnalyzeFails, EndProcessing,
       SavePacket, MarkFailed
  <2>2. message' \in [Mails -> MessageRow]
    <3>1. \E m : \/ SetMessageFailed(m)
                 \/ \E draft \in [Proposals -> Payloads] : SaveProcessedPacket(m, draft)
                 \/ UNCHANGED message
      BY <1>5 DEF Process, StartProcessing, Analyze, AnalyzeFails, EndProcessing,
         SavePacket, MarkFailed, messageVars
    <3> QED
      BY <1>1, <3>1, MessageRows
  <2>3. processor' \in [Processors -> ProcessorFrame] /\ ProcessorsHaveMail'
    BY <1>1, <1>5 DEF Process, StartProcessing, Analyze, AnalyzeFails, EndProcessing,
       SavePacket, MarkFailed, IdleProcessor, ProcessorFrame, ProcessorsHaveMail
  <2> QED
    BY <1>1, <2>1, <2>2, <2>3
<1>6. ASSUME NEW r \in Reviewers, Review(r)
      PROVE  FramesInv'
  <2>1. UNCHANGED <<message, source, sync, processor>>
    BY <1>6 DEF Review, ViewProposal, Edit, Approve, Reject, EditProposal,
       ApproveProposal, RejectProposal, messageVars
  <2>2. ASSUME NEW m \in Mails, NEW p \in Proposals, ViewProposal(r, m, p)
        PROVE  reviewer' \in [Reviewers -> SUBSET View]
    <3> DEFINE s == packet[m].proposals[p]
               v == [mail |-> m, number |-> packet[m].number, proposal |-> p,
                     version |-> HeadNumber(m, p), payload |-> HeadVersion(m, p).payload]
    <3>1. packet[m].number \in Nat /\ s \in Seq(Version) /\ s # <<>>
      BY <1>1, <2>2 DEF ViewProposal, PacketsInv, Packet, OneHistory, VersionsFor
    <3>2. HeadNumber(m, p) \in Nat /\ HeadVersion(m, p) = s[Len(s)]
      BY <3>1 DEF HeadNumber, HeadVersion, VersionsFor
    <3>3. s[Len(s)] \in Version
      <4> HIDE DEF s
      <4> QED
        BY <3>1
    <3>4. v \in View
      BY <3>1, <3>2, <3>3 DEF View, Version
    <3>5. reviewer' = [reviewer EXCEPT ![r] = {v}]
      BY <2>2 DEF ViewProposal
    <3> QED
      BY <1>1, <3>4, <3>5
  <2>3. reviewer' \in [Reviewers -> SUBSET View]
    BY <1>1, <1>6, <2>2 DEF Review, Edit, Approve, Reject
  <2> QED
    BY <1>1, <2>1, <2>3 DEF ProcessorsHaveMail
<1> QED
  BY <1>2, <1>3, <1>4, <1>5, <1>6 DEF Next

-----------------------------------------------------------------------------
(* The invariant, and what follows from it.                                *)

LEMMA MessagesInitially == Init => MessagesInv
<1> SUFFICES ASSUME Init PROVE MessagesInv
  OBVIOUS
<1> USE DEF Init, MessageStoreInit
<1>1. PacketsInv
  <2>1. NoVersions \in [Proposals -> Seq(Version)]
    BY DEF NoVersions
  <2> QED
    BY <2>1 DEF PacketsInv, Packet, AbsentPacketsEmpty, OneHistory, ExecutionsBacked,
       VersionsFor, NoVersions
<1>2. FramesInv
  BY DEF FramesInv, MessageRow, SyncFrame, IdleSync, ProcessorFrame, IdleProcessor,
     ProcessorsHaveMail
<1> QED
  BY <1>1, <1>2 DEF MessagesInv

(***************************************************************************)
(* Throughout every run of Messages its types, the histories, the          *)
(* executions and the processors' frames are in order.                     *)
(***************************************************************************)
THEOREM MessagesInvariant == Spec => []MessagesInv
<1>1. MessagesInv /\ [Next]_vars => MessagesInv'
  <2> SUFFICES ASSUME MessagesInv, [Next]_vars PROVE MessagesInv'
    OBVIOUS
  <2>1. PacketsInv'
    BY PacketSteps, PacketsInductive DEF MessagesInv
  <2>2. FramesInv'
    BY FramesInductive
  <2> QED
    BY <2>1, <2>2 DEF MessagesInv
<1> QED
  BY <1>1, MessagesInitially, PTL DEF Spec

(* Every variable keeps its type.                                          *)
THEOREM MessagesTypeCorrect == Spec => []TypeOK
<1>1. MessagesInv => TypeOK
  BY DEF MessagesInv, PacketsInv, FramesInv, TypeOK, MessageStoreTypeOK
<1> QED
  BY <1>1, MessagesInvariant, PTL

(***************************************************************************)
(* The versions of a proposal form one history, whichever edits and        *)
(* decisions race: only the last one was not superseded.                   *)
(***************************************************************************)
THEOREM VersionsFormOneHistory == Spec => []OneHistory
<1>1. MessagesInv => OneHistory
  BY DEF MessagesInv, PacketsInv
<1> QED
  BY <1>1, MessagesInvariant, PTL

(***************************************************************************)
(* Executions and approved versions stand for each other: what the worker  *)
(* verifies before it acts can be found, as it was approved.               *)
(***************************************************************************)
THEOREM ApprovalsBackExecutions == Spec => []ExecutionsBacked
<1>1. MessagesInv => ExecutionsBacked
  BY DEF MessagesInv, PacketsInv
<1> QED
  BY <1>1, MessagesInvariant, PTL

(***************************************************************************)
(* No proposal of a letter is acted upon twice: its executions stand for   *)
(* approved versions of the one packet it has, an approved version is the  *)
(* head of its history, and a history has one head.                        *)
(***************************************************************************)
THEOREM ProposalActedOnOnce == Spec => []ActedOnOnce
<1>1. ASSUME PacketsInv
      PROVE  ActedOnOnce
  <2>1. ASSUME NEW x \in executions
        PROVE  /\ x.number = packet[x.mail].number
               /\ x.version = HeadNumber(x.mail, x.proposal)
               /\ x.payload = HeadVersion(x.mail, x.proposal).payload
    <3> DEFINE s == VersionsFor(x.mail, x.proposal)
    <3>1. x.mail \in Mails /\ x.proposal \in Proposals /\ x.version \in Nat
      BY <1>1 DEF PacketsInv, ExecutionKey
    <3>2. /\ packet[x.mail].present
          /\ packet[x.mail].number = x.number
          /\ x.version \in DOMAIN s
          /\ s[x.version] = [status |-> "approved", payload |-> x.payload]
      BY <1>1, Zenon DEF PacketsInv, ExecutionsBacked
    <3>3. s[x.version].status # "superseded" /\ s[x.version].payload = x.payload
      BY <3>2
    <3>4. /\ \A i \in DOMAIN s : s[i].status = "superseded" <=> i < HeadNumber(x.mail, x.proposal)
          /\ s \in Seq(Version)
      BY <1>1, <3>1, <3>2 DEF PacketsInv, OneHistory, Packet, VersionsFor
    <3>5. HeadNumber(x.mail, x.proposal) = Len(s)
      BY DEF HeadNumber
    <3> HIDE DEF s
    <3>6. x.version = Len(s)
      BY <3>1, <3>2, <3>3, <3>4, <3>5
    <3>7. HeadVersion(x.mail, x.proposal) = s[Len(s)]
      BY <3>5 DEF HeadVersion, s
    <3> QED
      BY <3>2, <3>3, <3>5, <3>6, <3>7
  <2>2. executions \subseteq ExecutionKey
    BY <1>1 DEF PacketsInv
  <2>3. ASSUME NEW x \in executions, NEW y \in executions,
               x.mail = y.mail, x.proposal = y.proposal
        PROVE  x = y
    <3>1. x.number = y.number /\ x.version = y.version /\ x.payload = y.payload
      BY <2>1, <2>3
    <3> QED
      BY <2>2, <2>3, <3>1 DEF ExecutionKey
  <2> QED
    BY <2>3 DEF ActedOnOnce
<1>2. MessagesInv => ActedOnOnce
  BY <1>1 DEF MessagesInv
<1> QED
  BY <1>2, MessagesInvariant, PTL

(***************************************************************************)
(* No step rewrites a decided version or the payload of any version, and   *)
(* none discards an approved one.                                          *)
(***************************************************************************)
THEOREM DecisionsStand == Spec => VersionsImmutable
<1> DEFINE Kept == \A m \in Mails, p \in Proposals : \A i \in DOMAIN VersionsFor(m, p) :
       LET v == VersionsFor(m, p)[i] IN
       IF packet'[m].number = packet[m].number /\ packet'[m].present
       THEN /\ i \in DOMAIN packet'[m].proposals[p]
            /\ packet'[m].proposals[p][i].payload = v.payload
            /\ v.status # "proposed" => packet'[m].proposals[p][i] = v
       ELSE v.status # "approved"
<1>1. ASSUME MessagesInv, [Next]_vars
      PROVE  [Kept]_vars
  <2>1. CASE UNCHANGED <<packet, executions>>
    <3>1. \A m \in Mails, p \in Proposals : \A i \in DOMAIN VersionsFor(m, p) : packet[m].present
      BY <1>1 DEF MessagesInv, PacketsInv, AbsentPacketsEmpty, VersionsFor, NoVersions
    <3> QED
      BY <2>1, <3>1 DEF VersionsFor
  <2>2. ASSUME NEW m \in Mails, NEW draft \in [Proposals -> Payloads], InsertsPacket(m, draft)
        PROVE  Kept
    <3>1. \A n \in Mails \ {m} : packet'[n] = packet[n]
      BY <1>1, <2>2 DEF InsertsPacket, MessagesInv, PacketsInv
    <3>2. \A n \in Mails, p \in Proposals : \A i \in DOMAIN VersionsFor(n, p) :
            packet[n].present /\ n # m
      BY <1>1, <2>2 DEF InsertsPacket, MessagesInv, PacketsInv, AbsentPacketsEmpty,
         VersionsFor, NoVersions
    <3> QED
      BY <3>1, <3>2 DEF VersionsFor
  <2>3. ASSUME NEW m \in Mails, ResetProcessedMessage(m)
        PROVE  Kept
    <3>1. \A n \in Mails \ {m} : packet'[n] = packet[n]
      BY <1>1, <2>3 DEF ResetProcessedMessage, MessagesInv, PacketsInv
    <3>2. ~packet'[m].present
      BY <1>1, <2>3 DEF ResetProcessedMessage, MessagesInv, PacketsInv, Packet
    <3>3. \A p \in Proposals : \A i \in DOMAIN VersionsFor(m, p) :
            VersionsFor(m, p)[i].status # "approved"
      BY <2>3, Zenon DEF ResetProcessedMessage, VersionsFor
    <3>4. \A n \in Mails, p \in Proposals : \A i \in DOMAIN VersionsFor(n, p) : packet[n].present
      BY <1>1 DEF MessagesInv, PacketsInv, AbsentPacketsEmpty, VersionsFor, NoVersions
    <3> QED
      BY <3>1, <3>2, <3>3, <3>4 DEF VersionsFor
  <2>4. ASSUME NEW m \in Mails, NEW p \in Proposals, NEW number \in Nat, NEW version \in Nat,
               NEW payload \in Payloads, Decides(m, number, p, version, payload)
        PROVE  Kept
    <3>1. /\ VersionsKept
          /\ \A n \in Mails : /\ packet'[n].present = packet[n].present
                             /\ packet'[n].number = packet[n].number
      BY <1>1, <2>4, DecisionKeepsPackets DEF MessagesInv
    <3>2. \A n \in Mails, q \in Proposals : \A i \in DOMAIN VersionsFor(n, q) : packet[n].present
      BY <1>1 DEF MessagesInv, PacketsInv, AbsentPacketsEmpty, VersionsFor, NoVersions
    <3> QED
      BY <3>1, <3>2, Zenon DEF VersionsKept, VersionsFor
  <2> QED
    BY <1>1, <2>1, <2>2, <2>3, <2>4, PacketSteps DEF PacketStep
<1> QED
  BY <1>1, MessagesInvariant, PTL DEF Spec, VersionsImmutable

(***************************************************************************)
(* A message is marked processed with its packet, and its packet goes only *)
(* with the mark: process_message never finds it "marked processed but its *)
(* packet is missing".                                                     *)
(***************************************************************************)
THEOREM ProcessedMessagesHavePackets == Spec => []ProcessedHasPacket
<1>1. Init => ProcessedHasPacket
  BY DEF Init, MessageStoreInit, ProcessedHasPacket
<1>2. ASSUME MessagesInv, ProcessedHasPacket, [Next]_vars
      PROVE  ProcessedHasPacket'
  (* No packet is taken from a message but by a reset of that message.     *)
  <2>1. ASSUME NEW m \in Mails, packet[m].present, ~packet'[m].present
        PROVE  ResetProcessedMessage(m)
    <3>1. CASE UNCHANGED <<packet, executions>>
      BY <2>1, <3>1
    <3>2. ASSUME NEW n \in Mails, NEW draft \in [Proposals -> Payloads], InsertsPacket(n, draft)
          PROVE  FALSE
      BY <1>2, <2>1, <3>2 DEF InsertsPacket, MessagesInv, PacketsInv
    <3>3. ASSUME NEW n \in Mails, ResetProcessedMessage(n)
          PROVE  n = m
      BY <1>2, <2>1, <3>3 DEF ResetProcessedMessage, MessagesInv, PacketsInv
    <3>4. ASSUME NEW n \in Mails, NEW p \in Proposals, NEW number \in Nat, NEW version \in Nat,
                 NEW payload \in Payloads, Decides(n, number, p, version, payload)
          PROVE  FALSE
      BY <1>2, <2>1, <3>4, DecisionKeepsPackets DEF MessagesInv
    <3> QED
      BY <1>2, <2>1, <3>1, <3>2, <3>3, <3>4, PacketSteps DEF PacketStep
  (* No message becomes processed but with its packet.                     *)
  <2>2. ASSUME NEW m \in Mails, message[m].status # "processed",
               message'[m].status = "processed"
        PROVE  packet'[m].present
    <3>1. PICK p \in Processors, draft \in [Proposals -> Payloads] : SavePacket(p, draft)
      <4>1. UNCHANGED message
              \/ (\E n \in Mails : \/ UpsertHeader(n) \/ ResetFailedMessage(n)
                                   \/ ResetProcessedMessage(n))
              \/ (\E n : SaveFetchedMessage(n) \/ SetMessageFailed(n))
              \/ \E p \in Processors, draft \in [Proposals -> Payloads] : SavePacket(p, draft)
        <5>1. CASE Caregiver
          BY <5>1 DEF Caregiver, SetSourceStatus, Retry, Reanalyze, messageVars
        <5>2. CASE \E y \in Syncs : Sync(y)
          BY <5>2 DEF Sync, ListPage, RecordHeader, ReadSources, FetchMessage, SaveFetched,
             ImportFailed, EndSync, messageVars
        <5>3. CASE \E p \in Processors : Process(p)
          BY <5>3 DEF Process, StartProcessing, Analyze, AnalyzeFails, EndProcessing,
             MarkFailed, messageVars
        <5>4. CASE \E r \in Reviewers : Review(r)
          BY <5>4 DEF Review, ViewProposal, Edit, Approve, Reject, EditProposal,
             ApproveProposal, RejectProposal, messageVars
        <5>5. CASE UNCHANGED vars
          BY <5>5 DEF vars
        <5> QED
          BY <1>2, <5>1, <5>2, <5>3, <5>4, <5>5 DEF Next
      <4>2. message \in [Mails -> MessageRow]
        BY <1>2 DEF MessagesInv, FramesInv
      <4>3. ASSUME NEW n, \/ UpsertHeader(n) \/ ResetFailedMessage(n) \/ ResetProcessedMessage(n)
                          \/ SaveFetchedMessage(n) \/ SetMessageFailed(n)
            PROVE  FALSE
        BY <2>2, <4>2, <4>3 DEF UpsertHeader, ResetFailedMessage, ResetProcessedMessage,
           SaveFetchedMessage, SetMessageFailed, MessageRow
      <4> QED
        BY <2>2, <4>1, <4>3
    <3>2. processor[p].mail \in Mails
      BY <1>2, <3>1 DEF SavePacket, MessagesInv, FramesInv, ProcessorsHaveMail
    <3>3. SaveProcessedPacket(processor[p].mail, draft)
      BY <3>1 DEF SavePacket
    <3>4. message' = [message EXCEPT ![processor[p].mail].status = "processed"]
            /\ InsertsPacket(processor[p].mail, draft)
      BY <2>2, <3>3 DEF SaveProcessedPacket, InsertsPacket, messageVars
    <3>5. processor[p].mail = m
      BY <1>2, <2>2, <3>2, <3>4 DEF MessagesInv, FramesInv
    <3> QED
      BY <1>2, <3>4, <3>5 DEF InsertsPacket, MessagesInv, PacketsInv
  <2>3. ASSUME NEW m \in Mails, ResetProcessedMessage(m)
        PROVE  message'[m].status # "processed"
    BY <1>2, <2>3 DEF ResetProcessedMessage, MessagesInv, FramesInv, MessageRow
  <2>4. ASSUME NEW m \in Mails, message'[m].status = "processed"
        PROVE  packet'[m].present
    BY <1>2, <2>1, <2>2, <2>3, <2>4 DEF ProcessedHasPacket
  <2> QED
    BY <2>4 DEF ProcessedHasPacket
<1> QED
  BY <1>1, <1>2, MessagesInvariant, PTL DEF Spec

-----------------------------------------------------------------------------
(* Imports.                                                                *)

DecidedMails == {m \in Mails : source[SenderOf[m]] \in {"confirmed", "rejected"}}

(* What a sync imports, or is about to, was found confirmed; a caregiver   *)
(* may have rejected it since.                                             *)
ImportsDecided(f) ==
  /\ f.stage \in {"import", "save", "failed"} => f.todo \subseteq DecidedMails
  /\ f.stage \in {"save", "failed"} => f.current \in DecidedMails

ImportInv == ImportedAfterDecision /\ \A y \in Syncs : ImportsDecided(sync[y])

(* What a sync writes besides its frame.                                   *)
LEMMA SyncSteps ==
  ASSUME NEW y, Sync(y)
  PROVE  /\ (UNCHANGED source) \/ (\E m \in Mails : RecordHeader(y, m))
         /\ \/ UNCHANGED message
            \/ \E m \in Mails : UpsertHeader(m)
            \/ SaveFetched(y) \/ ImportFailed(y)
<1>1. ASSUME NEW m, RecordHeader(y, m)  PROVE UpsertHeader(m)
  BY <1>1, Zenon DEF RecordHeader
<1>2. ASSUME NEW page, ListPage(y, page)  PROVE UNCHANGED <<source, message>>
  BY <1>2, Zenon DEF ListPage, messageVars
<1>3. ASSUME NEW m, FetchMessage(y, m)  PROVE UNCHANGED <<source, message>>
  BY <1>3, Zenon DEF FetchMessage, messageVars
<1>4. ASSUME ReadSources(y) \/ EndSync(y)  PROVE UNCHANGED <<source, message>>
  BY <1>4, Zenon DEF ReadSources, EndSync, messageVars
<1>5. ASSUME SaveFetched(y) \/ ImportFailed(y)  PROVE UNCHANGED source
  BY <1>5, Zenon DEF SaveFetched, ImportFailed, GoOn
<1> QED
  BY <1>1, <1>2, <1>3, <1>4, <1>5 DEF Sync

LEMMA DecisionsRemain ==
  ASSUME FramesInv, [Next]_vars
  PROVE  DecidedMails \subseteq DecidedMails'
<1> SUFFICES ASSUME NEW m \in DecidedMails
             PROVE  source'[SenderOf[m]] \in {"confirmed", "rejected"}
  BY DEF DecidedMails
<1>1. /\ m \in Mails /\ SenderOf[m] \in Senders
      /\ source[SenderOf[m]] \in {"confirmed", "rejected"}
      /\ source \in [Senders -> {"unseen", "suggested", "confirmed", "rejected"}]
  BY MessagesAssumption DEF DecidedMails, FramesInv
<1>2. ASSUME NEW s, NEW status \in {"confirmed", "rejected"}, SetSourceStatus(s, status)
      PROVE  source'[SenderOf[m]] \in {"confirmed", "rejected"}
  BY <1>1, <1>2 DEF SetSourceStatus
<1>3. ASSUME NEW y, NEW n, RecordHeader(y, n)
      PROVE  source'[SenderOf[m]] \in {"confirmed", "rejected"}
  BY <1>1, <1>3 DEF RecordHeader
<1>4. CASE UNCHANGED source
  BY <1>1, <1>4
<1>5. ASSUME NEW y \in Syncs, Sync(y)
      PROVE  source'[SenderOf[m]] \in {"confirmed", "rejected"}
  BY <1>3, <1>4, <1>5, SyncSteps
<1>6. CASE \E p \in Processors : Process(p)
  BY <1>4, <1>6 DEF Process, StartProcessing, Analyze, AnalyzeFails, EndProcessing,
     SavePacket, MarkFailed
<1>7. CASE \E r \in Reviewers : Review(r)
  BY <1>4, <1>7 DEF Review, ViewProposal, Edit, Approve, Reject
<1>8. CASE Caregiver
  BY <1>2, <1>4, <1>8 DEF Caregiver, Retry, Reanalyze
<1>9. CASE UNCHANGED vars
  BY <1>4, <1>9 DEF vars
<1> QED
  BY <1>5, <1>6, <1>7, <1>8, <1>9 DEF Next

(* The sync that moves, and the others.                                    *)
LEMMA SyncsImportDecided ==
  ASSUME FramesInv, ImportInv, [Next]_vars, NEW y \in Syncs
  PROVE  ImportsDecided(sync[y])'
<1>1. DecidedMails \subseteq DecidedMails' /\ ImportsDecided(sync[y])
  BY DecisionsRemain DEF ImportInv
<1>2. sync[y] \in SyncFrame /\ sync \in [Syncs -> SyncFrame]
  BY DEF FramesInv
<1>3. CASE sync'[y] = sync[y]
  BY <1>1, <1>3 DEF ImportsDecided
<1>4. ASSUME Sync(y)  PROVE ImportsDecided(sync[y])'
  <2>1. ASSUME NEW page \in SUBSET Mails, ListPage(y, page)  PROVE sync'[y].stage = "headers"
    BY <1>2, <2>1 DEF ListPage, IdleSync
  <2>2. ASSUME NEW m \in Mails, RecordHeader(y, m)  PROVE sync'[y].stage = "headers"
    <3> DEFINE frame == [sync[y] EXCEPT !.todo = sync[y].todo \ {m},
                                        !.seen[m] = message'[m].status]
    <3>1. sync' = [sync EXCEPT ![y] = frame] /\ sync[y].stage = "headers"
      BY <2>2, Zenon DEF RecordHeader
    <3>2. frame.stage = "headers"
      BY <1>2, <3>1 DEF SyncFrame
    <3> HIDE DEF frame
    <3> QED
      BY <1>2, <3>1, <3>2
  <2>3. CASE ReadSources(y)
    <3> DEFINE todo == {m \in sync[y].page :
                          /\ source[SenderOf[m]] = "confirmed"
                          /\ sync[y].seen[m] \notin {"awaiting_agent", "processed"}}
    <3>1. sync' = [sync EXCEPT ![y] = [@ EXCEPT !.stage = "import", !.todo = todo]]
            /\ UNCHANGED source
      BY <2>3 DEF ReadSources
    <3>2. todo \subseteq DecidedMails'
      BY <1>2, <3>1 DEF SyncFrame, DecidedMails
    <3> HIDE DEF todo
    <3>3. sync'[y].stage = "import" /\ sync'[y].todo = todo
      BY <1>2, <3>1 DEF SyncFrame
    <3> QED
      BY <3>2, <3>3 DEF ImportsDecided
  <2>4. ASSUME NEW m \in Mails, FetchMessage(y, m)  PROVE ImportsDecided(sync[y])'
    <3> DEFINE frame(stage) ==
                 [sync[y] EXCEPT !.stage = stage, !.todo = sync[y].todo \ {m}, !.current = m]
    <3>1. PICK stage \in {"save", "failed"} : sync' = [sync EXCEPT ![y] = frame(stage)]
      BY <2>4 DEF FetchMessage
    <3>2. /\ frame(stage).todo = sync[y].todo \ {m}
          /\ frame(stage).current = m
      BY <1>2 DEF SyncFrame
    <3> HIDE DEF frame
    <3>3. m \in sync[y].todo /\ sync[y].todo \subseteq DecidedMails
      BY <1>1, <2>4 DEF FetchMessage, ImportsDecided
    <3> QED
      BY <1>1, <1>2, <3>1, <3>2, <3>3 DEF ImportsDecided
  <2>5. CASE SaveFetched(y) \/ ImportFailed(y)
    <3> DEFINE frame == [sync[y] EXCEPT !.stage = "import", !.current = None]
    <3>1. sync' = [sync EXCEPT ![y] = frame] /\ sync[y].stage \in {"save", "failed"}
      BY <2>5 DEF SaveFetched, ImportFailed, GoOn
    <3>2. frame.stage = "import" /\ frame.todo = sync[y].todo
      BY <1>2 DEF SyncFrame
    <3> HIDE DEF frame
    <3> QED
      BY <1>1, <1>2, <3>1, <3>2 DEF ImportsDecided
  <2>6. CASE EndSync(y)
    <3>1. sync'[y].stage = "idle"
      BY <1>2, <2>6 DEF EndSync, IdleSync
    <3> QED
      BY <3>1 DEF ImportsDecided
  <2> QED
    BY <1>4, <2>1, <2>2, <2>3, <2>4, <2>5, <2>6 DEF Sync, ImportsDecided
<1>5. ASSUME NEW z \in Syncs, z # y, Sync(z)  PROVE sync'[y] = sync[y]
  <2>1. PICK f : sync' = [sync EXCEPT ![z] = f]
    BY <1>5, Zenon DEF Sync, ListPage, RecordHeader, ReadSources, FetchMessage, SaveFetched,
       ImportFailed, EndSync, GoOn
  <2> QED
    BY <1>2, <1>5, <2>1
<1>6. CASE UNCHANGED sync
  BY <1>3, <1>6
<1>7. CASE \E p \in Processors : Process(p)
  BY <1>6, <1>7 DEF Process, StartProcessing, Analyze, AnalyzeFails, EndProcessing,
     SavePacket, MarkFailed
<1>8. CASE (\E r \in Reviewers : Review(r)) \/ Caregiver
  BY <1>6, <1>8 DEF Review, ViewProposal, Edit, Approve, Reject, Caregiver, SetSourceStatus,
     Retry, Reanalyze
<1>9. CASE UNCHANGED vars
  BY <1>6, <1>9 DEF vars
<1> QED
  BY <1>3, <1>4, <1>5, <1>7, <1>8, <1>9 DEF Next

(***************************************************************************)
(* No contents are imported before a caregiver has decided about their     *)
(* sender, whichever syncs overlap the decisions.                          *)
(***************************************************************************)
THEOREM ImportsFollowDecisions == Spec => []ImportedAfterDecision
<1>1. Init => ImportInv
  BY DEF Init, MessageStoreInit, IdleSync, ImportInv, ImportedAfterDecision, ImportsDecided
<1>2. ASSUME MessagesInv, ImportInv, [Next]_vars
      PROVE  ImportInv'
  <2>1. FramesInv
    BY <1>2 DEF MessagesInv
  <2>2. \A y \in Syncs : ImportsDecided(sync[y])'
    BY <1>2, <2>1, SyncsImportDecided
  <2>3. DecidedMails \subseteq DecidedMails' /\ message \in [Mails -> MessageRow]
    BY <1>2, <2>1, DecisionsRemain DEF FramesInv
  (* Only a sync marks a message imported: the one it has fetched.         *)
  <2>4. ASSUME NEW m \in Mails, message'[m].imported, ~message[m].imported
        PROVE  m \in DecidedMails
    <3>1. PICK y \in Syncs : SaveFetched(y)
      <4>1. ASSUME NEW n, \/ UpsertHeader(n) \/ ResetFailedMessage(n)
                          \/ ResetProcessedMessage(n) \/ SetMessageFailed(n)
                          \/ \E draft : SaveProcessedPacket(n, draft)
            PROVE  FALSE
        BY <2>3, <2>4, <4>1 DEF UpsertHeader, ResetFailedMessage, ResetProcessedMessage,
           SetMessageFailed, SaveProcessedPacket, MessageRow, messageVars
      <4>2. CASE UNCHANGED message
        BY <2>4, <4>2
      <4>3. CASE Caregiver
        BY <4>1, <4>2, <4>3 DEF Caregiver, SetSourceStatus, Retry, Reanalyze, messageVars
      <4>4. ASSUME NEW y \in Syncs, Sync(y)  PROVE \E z \in Syncs : SaveFetched(z)
        <5>1. ASSUME NEW n, UpsertHeader(n)  PROVE FALSE
          BY <4>1, <5>1
        <5>2. ImportFailed(y) => FALSE
          BY <4>1 DEF ImportFailed
        <5> QED
          BY <4>2, <4>4, <5>1, <5>2, SyncSteps, Zenon
      <4>5. CASE \E p \in Processors : Process(p)
        BY <4>1, <4>2, <4>5 DEF Process, StartProcessing, Analyze, AnalyzeFails,
           EndProcessing, SavePacket, MarkFailed, messageVars
      <4>6. CASE \E r \in Reviewers : Review(r)
        BY <4>2, <4>6 DEF Review, ViewProposal, Edit, Approve, Reject, EditProposal,
           ApproveProposal, RejectProposal, messageVars
      <4>7. CASE UNCHANGED vars
        BY <4>2, <4>7 DEF vars
      <4> QED
        BY <1>2, <4>3, <4>4, <4>5, <4>6, <4>7 DEF Next
    <3>2. /\ message' = [message EXCEPT ![sync[y].current] =
                           [status |-> "awaiting_agent", imported |-> TRUE]]
          /\ sync[y].stage = "save"
      BY <3>1 DEF SaveFetched, SaveFetchedMessage
    <3>3. m = sync[y].current
      BY <2>3, <2>4, <3>2
    <3> QED
      BY <1>2, <3>2, <3>3 DEF ImportInv, ImportsDecided
  <2>5. ASSUME NEW m \in Mails, message'[m].imported
        PROVE  m \in DecidedMails'
    <3>1. CASE message[m].imported
      BY <1>2, <2>3, <3>1 DEF ImportInv, ImportedAfterDecision, DecidedMails
    <3> QED
      BY <2>3, <2>4, <2>5, <3>1
  <2> QED
    BY <2>2, <2>5 DEF ImportInv, ImportedAfterDecision, DecidedMails
<1>3. ImportInv => ImportedAfterDecision
  BY DEF ImportInv
<1> QED
  BY <1>1, <1>2, <1>3, MessagesInvariant, PTL DEF Spec
=============================================================================
