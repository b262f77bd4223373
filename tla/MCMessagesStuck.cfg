\* One letter: a sync and two processors, one of them refusing the draft.
CONSTANTS
  None = None
  school = school
  Mails = {m1}
  Senders = {school}
  SenderOf <- MCSenderOf
  Proposals = {q1}
  Payloads = {reply, escalation}
  Escalations = {escalation}
  Syncs = {y1}
  Processors = {p1, p2}
  Reviewers = {}
  MaxPackets = 2
  MaxVersions = 2
  Faults = {"unsafe"}
SPECIFICATION Spec
INVARIANT
  AwaitingCanBeProcessed
CHECK_DEADLOCK FALSE
