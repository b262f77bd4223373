CONSTANTS
  s1 = s1
  s2 = s2
  Providers = {"gmail", "outlook"}
  Senders = {s1}
  SenderOf <- OneSender
  Manuals = {m1}
  Workers = {w1}
  Renewers = {r1}
  PageSize = 1
  MaxPages = 1
  BatchSize = 2
  MaxReceives = 2
  MaxMessages = 2
  MaxEvents = 1
  MaxFaults = 1
  Faults = {"import", "auth", "expired"}
  None = None
SPECIFICATION Spec
CHECK_DEADLOCK FALSE
INVARIANTS
  TypeOK
  NothingPassedOver
  ActiveWatchHasCursor
