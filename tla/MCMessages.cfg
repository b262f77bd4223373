\* One letter of one sender: a sync, two proposals, two processors and a stale tab under every fault.
CONSTANTS
  None = None
  school = school
  Mails = {m1}
  Senders = {school}
  SenderOf <- MCSenderOf
  Proposals = {q1, q2}
  Payloads = {reply, escalation}
  Escalations = {escalation}
  Syncs = {y1}
  Processors = {p1, p2}
  Reviewers = {r1}
  MaxPackets = 2
  MaxVersions = 2
  Faults = {"import", "provider_auth", "unsafe", "model_access", "crash"}
SPECIFICATION Spec
INVARIANTS
  TypeOK
  ProcessedHasPacket
  ImportedAfterDecision
  OneHistory
  ExecutionsBacked
  ActedOnOnce
PROPERTIES
  VersionsImmutable
SYMMETRY Interchangeable
CHECK_DEADLOCK FALSE
