\* SQS mode: a filled form from Gmail, workers may outlive lease and visibility.
CONSTANTS
  e1 = e1
  e2 = e2
  gmail_account = gmail_account
  outlook_account = outlook_account
  Nobody = Nobody
  Executions = {e1}
  Workers = {w1, w2}
  Dispatchers = {d1}
  Copies = {1}
  Connections = {gmail_account, outlook_account}
  ConnectionOf <- MCConnectionOf
  ProviderOf <- MCProviderOf
  KindOf <- MCForms
  HouseholdOf <- MCHouseholdOf
  LocalMode = FALSE
  MaxAttempts = 2
  MaxReceives = 3
  MaxClaims = 3
  Faults = {"refused", "lost", "malformed", "gateway", "auth", "evidence", "disconnect", "enqueue", "dispatcher_crash", "worker_crash", "store", "slow"}
SPECIFICATION Spec
INVARIANTS
  CompletedMeansDelivered
PROPERTIES
  TerminalIsFinal
  SettledByItsAttempt
SYMMETRY WorkerSymmetry
CHECK_DEADLOCK FALSE
