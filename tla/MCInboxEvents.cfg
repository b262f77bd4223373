CONSTANTS
  s1 = s1
  s2 = s2
  Providers = {"outlook"}
  Senders = {s1}
  SenderOf <- OneSender
  Manuals = {}
  Workers = {w1}
  Renewers = {r1}
  PageSize = 1
  MaxPages = 1
  BatchSize = 2
  MaxReceives = 3
  MaxMessages = 1
  MaxEvents = 3
  MaxFaults = 1
  Faults = {"call", "import", "auth", "expired", "crash", "slow", "disconnect"}
  None = None
SPECIFICATION Spec
CHECK_DEADLOCK FALSE
PROPERTIES
  InOrder
  AnnouncedIsListed
