---------------------------- MODULE Connections ----------------------------
(***************************************************************************)
(* Connections to inboxes and their credentials: the OAuth round trip that *)
(* attaches an inbox, the requests that disconnect it, and the syncs,      *)
(* executions and renewals that use and refresh the credentials.  The      *)
(* database and the vault are two systems, so every route is several       *)
(* steps, and the routes interleave.                                       *)
(*                                                                         *)
(* A connection row is named by its household and inbox (the unique index  *)
(* connections_identity); the vault's secret is named by the row.          *)
(***************************************************************************)
EXTENDS Membership

CONSTANTS
  Inboxes,       \* accounts at a provider (provider_subject)
  ProviderOf,    \* the provider of an inbox
  States,        \* rows of oauth_states
  Callbacks,     \* concurrent calls of the callback route
  Uses,          \* concurrent syncs, executions and renewals
  MaxFaults,     \* bound: failing calls and crashes
  Faults         \* what may go wrong in this configuration

Providers == {"gmail", "outlook"}

ASSUME ConnectionsAssumption ==
  /\ Inboxes # {}
  /\ ProviderOf \in [Inboxes -> Providers]
  /\ MaxFaults \in Nat
  /\ Faults \subseteq {"vault",    \* the vault or the last write fails
                       "refused",  \* the provider refuses a refresh
                       "crash"}    \* a callback or a use dies

VARIABLES
  connection,    \* status of the connections rows
  vault,         \* rows the vault has credentials for
  oauth,         \* the oauth_states table
  callback,      \* frames of the callback route
  use,           \* frames of those that read and refresh credentials
  breakdowns,    \* faults so far
  forgotten      \* history: rows disconnected while nothing else worked on
                 \* them, and without new credentials since

connectionVars == <<connection, vault, oauth, callback, use, breakdowns, forgotten>>

-----------------------------------------------------------------------------

Rows == HouseholdIds \X Inboxes

Statuses == {"pending", "connected", "reauthorization_required", "disconnected"}

OAuthState == [status    : {"unused", "issued", "spent", "expired"},
               household : HouseholdIds,
               provider  : Providers]

(* prior: the status of the row that list_connections returned.            *)
Callback == [stage     : {"idle", "exchange", "attach", "store", "connect"},
             household : HouseholdIds,
             provider  : Providers,
             inbox     : Inboxes,
             prior     : Statuses \cup {"none"}]

Use == [stage : {"idle", "read", "refresh"}, row : Rows, renewal : BOOLEAN]

ConnectionsTypeOK ==
  /\ connection \in [Rows -> Statuses \cup {"none"}]
  /\ vault \subseteq Rows
  /\ oauth \in [States -> OAuthState]
  /\ callback \in [Callbacks -> Callback]
  /\ use \in [Uses -> Use]
  /\ breakdowns \in 0..MaxFaults
  /\ forgotten \subseteq Rows

Breakdown(f) ==
  /\ f \in Faults
  /\ breakdowns < MaxFaults
  /\ breakdowns' = breakdowns + 1

Target(k) == <<callback[k].household, callback[k].inbox>>

(* Callback k has looked up row r and may still write its status.          *)
Attaching(k, r) ==
  callback[k].stage \in {"attach", "store", "connect"} /\ Target(k) = r

NoCallback == CHOOSE c \in Callback : c.stage = "idle"

NoUse == CHOOSE n \in Use : n.stage = "idle"

EndCallback(k) == callback' = [callback EXCEPT ![k] = NoCallback]

EndUse(x) == use' = [use EXCEPT ![x] = NoUse]

-----------------------------------------------------------------------------
(* The callback route                                                      *)

(* create_oauth_state.                                                     *)
CreateOAuthState(s, h, p) ==
  /\ oauth[s].status = "unused"
  /\ oauth' = [oauth EXCEPT ![s] = [status |-> "issued", household |-> h, provider |-> p]]
  /\ UNCHANGED <<connection, vault, callback, use, breakdowns, forgotten>>

StateExpires(s) ==
  /\ oauth[s].status = "issued"
  /\ oauth' = [oauth EXCEPT ![s].status = "expired"]
  /\ UNCHANGED <<connection, vault, callback, use, breakdowns, forgotten>>

(* consume_oauth_state; a state of another provider is spent for nothing.  *)
Consume(k, s, p) ==
  /\ callback[k].stage = "idle"
  /\ oauth[s].status = "issued"
  /\ oauth' = [oauth EXCEPT ![s].status = "spent"]
  /\ callback' = IF oauth[s].provider = p
                 THEN [callback EXCEPT ![k] = [callback[k] EXCEPT
                         !.stage = "exchange", !.household = oauth[s].household,
                         !.provider = p]]
                 ELSE callback
  /\ UNCHANGED <<connection, vault, use, breakdowns, forgotten>>

(* Mistake: the credentials are stored before the inbox is attached.       *)
IdentifyAndStore(k, b) ==
  /\ callback[k].stage = "exchange"
  /\ ProviderOf[b] = callback[k].provider
  /\ callback' = [callback EXCEPT ![k] = [callback[k] EXCEPT
                    !.stage = "attach", !.inbox = b,
                    !.prior = connection[<<callback[k].household, b>>]]]
  /\ vault' = vault \cup {<<callback[k].household, b>>}
  /\ UNCHANGED <<connection, oauth, use, breakdowns, forgotten>>

(* exchange_code and identity, then list_connections.                      *)
Identify(k, b) ==
  /\ callback[k].stage = "exchange"
  /\ ProviderOf[b] = callback[k].provider
  /\ callback' = [callback EXCEPT ![k] = [callback[k] EXCEPT
                    !.stage = "attach", !.inbox = b,
                    !.prior = connection[<<callback[k].household, b>>]]]
  /\ UNCHANGED <<connection, vault, oauth, use, breakdowns, forgotten>>

ExchangeFails(k) ==
  /\ callback[k].stage = "exchange"
  /\ EndCallback(k)
  /\ UNCHANGED <<connection, vault, oauth, use, breakdowns, forgotten>>

(* connections_global_identity.                                            *)
Free(h, b) == \A g \in HouseholdIds \ {h} : connection[<<g, b>>] = "none"

(* upsert_connection.                                                      *)
Attach(k) ==
  /\ callback[k].stage = "attach"
  /\ Free(callback[k].household, callback[k].inbox)
  /\ connection' = [connection EXCEPT ![Target(k)] = "pending"]
  /\ callback' = [callback EXCEPT ![k].stage = "store"]
  /\ UNCHANGED <<vault, oauth, use, breakdowns, forgotten>>

AttachConflict(k) ==
  /\ callback[k].stage = "attach"
  /\ ~Free(callback[k].household, callback[k].inbox)
  /\ EndCallback(k)
  /\ UNCHANGED <<connection, vault, oauth, use, breakdowns, forgotten>>

StoreCredentials(k) ==
  /\ callback[k].stage = "store"
  /\ vault' = vault \cup {Target(k)}
  /\ forgotten' = forgotten \ {Target(k)}
  /\ callback' = [callback EXCEPT ![k].stage = "connect"]
  /\ UNCHANGED <<connection, oauth, use, breakdowns>>

(* Mistakes: a failed reconnect restores "connected" whatever it had read; *)
(* or it cleans up the credentials it did not store.                       *)
RestoreConnected(k) ==
  /\ callback[k].stage = "store"
  /\ Breakdown("vault")
  /\ connection' = [connection EXCEPT ![Target(k)] =
                      IF callback[k].prior = "none" THEN "disconnected"
                                                    ELSE "connected"]
  /\ EndCallback(k)
  /\ UNCHANGED <<vault, oauth, use, forgotten>>

RestoreAndDelete(k) ==
  /\ callback[k].stage = "store"
  /\ Breakdown("vault")
  /\ connection' = [connection EXCEPT ![Target(k)] =
                      IF callback[k].prior = "none" THEN "disconnected"
                                                    ELSE callback[k].prior]
  /\ vault' = vault \ {Target(k)}
  /\ EndCallback(k)
  /\ UNCHANGED <<oauth, use, forgotten>>

(* restore_connection puts back the status read before the upsert.         *)
StoreCredentialsFails(k) ==
  /\ callback[k].stage = "store"
  /\ Breakdown("vault")
  /\ connection' = [connection EXCEPT ![Target(k)] =
                      IF callback[k].prior = "none" THEN "disconnected"
                                                    ELSE callback[k].prior]
  /\ EndCallback(k)
  /\ UNCHANGED <<vault, oauth, use, forgotten>>

Connect(k) ==
  /\ callback[k].stage = "connect"
  /\ connection' = [connection EXCEPT ![Target(k)] = "connected"]
  /\ EndCallback(k)
  /\ UNCHANGED <<vault, oauth, use, breakdowns, forgotten>>

(* The credentials go, the row stays pending.                              *)
ConnectFails(k) ==
  /\ callback[k].stage = "connect"
  /\ Breakdown("vault")
  /\ vault' = vault \ {Target(k)}
  /\ EndCallback(k)
  /\ UNCHANGED <<connection, oauth, use, forgotten>>

CallbackCrashes(k) ==
  /\ callback[k].stage # "idle"
  /\ Breakdown("crash")
  /\ EndCallback(k)
  /\ UNCHANGED <<connection, vault, oauth, use, forgotten>>

-----------------------------------------------------------------------------
(* Syncs, executions and renewals                                          *)

(* A sync and an execution look at the status first, a renewal does not.   *)
BeginUse(x, r, renewal) ==
  /\ use[x].stage = "idle"
  /\ IF renewal THEN connection[r] # "none" ELSE connection[r] = "connected"
  /\ use' = [use EXCEPT ![x] = [stage |-> "read", row |-> r, renewal |-> renewal]]
  /\ UNCHANGED <<connection, vault, oauth, callback, breakdowns, forgotten>>

(* vault.get; credentials that have time left are used as they are.        *)
ReadCredentials(x) ==
  /\ use[x].stage = "read"
  /\ use[x].row \in vault
  /\ use' = [use EXCEPT ![x].stage = "refresh"]
  /\ UNCHANGED <<connection, vault, oauth, callback, breakdowns, forgotten>>

(* Without credentials a sync or an execution asks for a new consent; a    *)
(* renewal marks only its watch.                                           *)
CredentialsMissing(x) ==
  /\ use[x].stage = "read"
  /\ use[x].row \notin vault
  /\ connection' = IF use[x].renewal THEN connection
                   ELSE [connection EXCEPT ![use[x].row] = "reauthorization_required"]
  /\ EndUse(x)
  /\ UNCHANGED <<vault, oauth, callback, breakdowns, forgotten>>

StillFresh(x) ==
  /\ use[x].stage = "refresh"
  /\ EndUse(x)
  /\ UNCHANGED <<connection, vault, oauth, callback, breakdowns, forgotten>>

(* adapter.refresh, then vault.put, whatever happened to the row meanwhile. *)
Refresh(x) ==
  /\ use[x].stage = "refresh"
  /\ vault' = vault \cup {use[x].row}
  /\ EndUse(x)
  /\ UNCHANGED <<connection, oauth, callback, breakdowns, forgotten>>

RefreshRefused(x) ==
  /\ use[x].stage = "refresh"
  /\ Breakdown("refused")
  /\ connection' = [connection EXCEPT ![use[x].row] = "reauthorization_required"]
  /\ EndUse(x)
  /\ UNCHANGED <<vault, oauth, callback, forgotten>>

-----------------------------------------------------------------------------
(* The two steps of the disconnect route                                   *)

DisconnectRow(r) ==
  /\ connection[r] # "none"
  /\ connection' = [connection EXCEPT ![r] = "disconnected"]
  /\ UNCHANGED <<vault, oauth, callback, use, breakdowns, forgotten>>

(* Nothing else has the row or its credentials in hand.                    *)
Alone(r) ==
  /\ connection[r] = "disconnected"
  /\ \A k \in Callbacks : ~Attaching(k, r)
  /\ \A x \in Uses : use[x].stage = "refresh" => use[x].row # r

DeleteCredentials(r) ==
  /\ vault' = vault \ {r}
  /\ forgotten' = IF Alone(r) THEN forgotten \cup {r} ELSE forgotten
  /\ UNCHANGED <<connection, oauth, callback, use, breakdowns>>

DeleteCredentialsFails(r) ==
  /\ Breakdown("vault")
  /\ UNCHANGED <<connection, vault, oauth, callback, use, forgotten>>

-----------------------------------------------------------------------------

Callbacking(k) ==
  \/ \E s \in States, p \in Providers : Consume(k, s, p)
  \/ \E b \in Inboxes : Identify(k, b)
  \/ ExchangeFails(k)
  \/ Attach(k) \/ AttachConflict(k)
  \/ StoreCredentials(k) \/ StoreCredentialsFails(k)
  \/ Connect(k) \/ ConnectFails(k)
  \/ CallbackCrashes(k)

Using(x) ==
  \/ \E r \in Rows, renewal \in BOOLEAN : BeginUse(x, r, renewal)
  \/ ReadCredentials(x) \/ CredentialsMissing(x)
  \/ StillFresh(x) \/ Refresh(x) \/ RefreshRefused(x)

-----------------------------------------------------------------------------
(* Properties                                                              *)

(* Whatever the callbacks of two households do with the consent of the     *)
(* same account, its credentials are kept for the one household that the   *)
(* inbox is attached to: the callback that loses leaves none.              *)
OneKeeper ==
  \A r \in vault : \A h \in HouseholdIds :
    connection[<<h, r[2]>>] # "none" <=> h = r[1]

(* A disconnect that runs while no callback and no refresh has the account *)
(* in hand forgets it.  Until a callback stores new credentials, no sync,  *)
(* execution or renewal finds any, and no reconnect that fails or dies at  *)
(* any of its writes brings the status "connected" back.                   *)
DisconnectForgets ==
  \A r \in forgotten : r \notin vault /\ connection[r] # "connected"

=============================================================================
