CONSTANTS
  s1 = s1
  s2 = s2
  Providers = {"outlook"}
  Senders = {s1}
  SenderOf <- OneSender
  Manuals = {m1}
  Workers = {}
  Renewers = {}
  PageSize = 1
  MaxPages = 1
  BatchSize = 1
  MaxReceives = 3
  MaxMessages = 1
  MaxEvents = 0
  MaxFaults = 0
  Faults = {}
  None = None
SPECIFICATION SyncingSpec
CHECK_DEADLOCK FALSE
PROPERTY
  SyncImportsTrusted
