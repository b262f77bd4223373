\* Local mode: a Google event and an Outlook form when workers crash, the database refuses calls and answers are lost or misread.
CONSTANTS
  e1 = e1
  e2 = e2
  gmail_account = gmail_account
  outlook_account = outlook_account
  Nobody = Nobody
  Executions = {e1, e2}
  Workers = {w1, w2}
  Dispatchers = {}
  Copies = {1}
  Connections = {gmail_account, outlook_account}
  ConnectionOf <- MCConnectionOf
  ProviderOf <- MCProviderOf
  KindOf <- MCEventAndForm
  HouseholdOf <- MCHouseholdOf
  LocalMode = TRUE
  MaxAttempts = 2
  MaxReceives = 2
  MaxClaims = 3
  Faults = {"refused", "lost", "malformed", "gateway", "auth", "evidence", "worker_crash", "store"}
SPECIFICATION Spec
INVARIANTS
  SingleDelivery
  NoStaleWorker
  CompletedMeansDelivered
PROPERTIES
  KeepsPromise
SYMMETRY WorkerSymmetry
CHECK_DEADLOCK FALSE
