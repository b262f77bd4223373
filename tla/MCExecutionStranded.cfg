\* SQS mode: a Gmail reply whose worker dies.
CONSTANTS
  e1 = e1
  e2 = e2
  gmail_account = gmail_account
  outlook_account = outlook_account
  Nobody = Nobody
  Executions = {e1}
  Workers = {w1, w2}
  Dispatchers = {d1}
  Copies = {1}
  Connections = {gmail_account, outlook_account}
  ConnectionOf <- MCConnectionOf
  ProviderOf <- MCProviderOf
  KindOf <- MCMails
  HouseholdOf <- MCHouseholdOf
  LocalMode = FALSE
  MaxAttempts = 2
  MaxReceives = 3
  MaxClaims = 3
  Faults = {"worker_crash"}
SPECIFICATION Spec
INVARIANT
  NeverStranded
CHECK_DEADLOCK FALSE
