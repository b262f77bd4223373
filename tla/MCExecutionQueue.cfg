\* SQS mode: one Outlook form, two dispatchers, two copies of its command.
CONSTANTS
  e1 = e1
  e2 = e2
  gmail_account = gmail_account
  outlook_account = outlook_account
  Nobody = Nobody
  Executions = {e2}
  Workers = {w1}
  Dispatchers = {d1, d2}
  Copies = {1, 2}
  Connections = {gmail_account, outlook_account}
  ConnectionOf <- MCConnectionOf
  ProviderOf <- MCProviderOf
  KindOf <- MCMails
  HouseholdOf <- MCHouseholdOf
  LocalMode = FALSE
  MaxAttempts = 3
  MaxReceives = 3
  MaxClaims = 3
  Faults = {"refused", "lost", "auth", "evidence", "enqueue", "dispatcher_crash"}
SPECIFICATION FairSpec
INVARIANTS
  TypeOK
  RetryOnlyBeforeEffect
  NeverUndispatchable
  NeverStranded
  AttemptsWithinLimit
PROPERTIES
  EventuallySettled
CHECK_DEADLOCK FALSE
