----------------------------- MODULE Households -----------------------------
(***************************************************************************)
(* The requests of caregivers about their household and its connections.   *)
(*                                                                         *)
(* A route reads the caller's membership, checks the role, and only then   *)
(* runs its transactions: between the two, other requests may change the   *)
(* roles it was judged by.  Ask is the first half of a request, the        *)
(* actions that follow the second.  Users run one request at a time.       *)
(***************************************************************************)
EXTENDS Connections

CONSTANTS
  FirstOwners,   \* who the household that exists at first belongs to
  MaxRequests,   \* bound: requests that were admitted
  NoRequest      \* model value

ASSUME RequestsAssumption ==
  /\ FirstOwners \in [HouseholdIds -> SUBSET Users]
  /\ \A h \in HouseholdIds : \A u, v \in FirstOwners[h] :
       AddressOf[u] = AddressOf[v] => u = v
  /\ MaxRequests \in Nat

VARIABLES
  request,       \* the admitted request a user has in flight
  requests,      \* how many were admitted
  contested      \* history: rows that two calls worked on at the same time

vars == <<membershipVars, connectionVars, request, requests, contested>>

-----------------------------------------------------------------------------

OwnerRequests ==
       [op : {"invite"}, household : HouseholdIds, invitation : Invitations,
        address : Addresses, role : {"editor", "viewer"}]
  \cup [op : {"list"}, household : HouseholdIds]
  \cup [op : {"revoke"}, household : HouseholdIds, invitation : Invitations]
  \cup [op : {"change"}, household : HouseholdIds, member : Users, role : Roles]
  \cup [op : {"remove"}, household : HouseholdIds, member : Users]

EditRequests ==
       [op : {"authorize"}, household : HouseholdIds, provider : Providers]
  \cup [op : {"disconnect", "delete"}, household : HouseholdIds, inbox : Inboxes]

Requests == OwnerRequests \cup EditRequests

ASSUME NoRequestAssumption == NoRequest \notin Requests

TypeOK ==
  /\ MembershipTypeOK
  /\ ConnectionsTypeOK
  /\ request \in [Users -> Requests \cup {NoRequest}]
  /\ requests \in 0..MaxRequests
  /\ contested \subseteq Rows

(* FirstOwners have found each other already; nothing else has happened.   *)
Init ==
  /\ households = {h \in HouseholdIds : FirstOwners[h] # {}}
  /\ role = [h \in HouseholdIds |->
               [u \in Users |-> IF u \in FirstOwners[h] THEN "owner" ELSE "none"]]
  /\ invitation = [i \in Invitations |->
                     CHOOSE n \in Invitation : n.status = "unused" /\ ~n.passed]
  /\ connection = [r \in Rows |-> "none"]
  /\ vault = {}
  /\ oauth = [s \in States |-> CHOOSE o \in OAuthState : o.status = "unused"]
  /\ callback = [k \in Callbacks |-> NoCallback]
  /\ use = [x \in Uses |-> NoUse]
  /\ breakdowns = 0
  /\ forgotten = {}
  /\ request = [u \in Users |-> NoRequest]
  /\ requests = 0
  /\ contested = {}

-----------------------------------------------------------------------------
(* Requests                                                                *)

(* _membership with _require_owner or _require_edit.                       *)
Admitted(u, q) ==
  \/ q \in OwnerRequests /\ role[q.household][u] = "owner"
  \/ q \in EditRequests /\ role[q.household][u] \in {"owner", "editor"}

(* A row of the invitations table is inserted once; the second half of a   *)
(* disconnect is not asked for.                                            *)
Fresh(q) ==
  /\ q.op # "delete"
  /\ q.op = "invite" =>
       /\ invitation[q.invitation].status = "unused"
       /\ \A u \in Users : request[u] # NoRequest /\ request[u].op = "invite"
                           => request[u].invitation # q.invitation

Ask(u) ==
  /\ request[u] = NoRequest
  /\ requests < MaxRequests
  /\ \E q \in Requests : /\ Fresh(q)
                         /\ Admitted(u, q)
                         /\ request' = [request EXCEPT ![u] = q]
  /\ requests' = requests + 1
  /\ UNCHANGED <<membershipVars, connectionVars>>

Asks(u, op) == request[u] # NoRequest /\ request[u].op = op

Answer(u) ==
  /\ request' = [request EXCEPT ![u] = NoRequest]
  /\ UNCHANGED requests

Invite(u) ==
  LET q == request[u] IN
  /\ Asks(u, "invite")
  /\ CreateInvitation(q.invitation, q.household, q.address, q.role)
  /\ Answer(u)
  /\ UNCHANGED connectionVars

ShowInvitations(u) ==
  /\ Asks(u, "list")
  /\ ListInvitations(request[u].household)
  /\ Answer(u)
  /\ UNCHANGED connectionVars

Revoke(u) ==
  /\ Asks(u, "revoke")
  /\ RevokeInvitation(request[u].household, request[u].invitation)
  /\ Answer(u)
  /\ UNCHANGED connectionVars

ChangeRole(u) ==
  /\ Asks(u, "change")
  /\ ChangeMemberRole(request[u].household, request[u].member, request[u].role)
  /\ Answer(u)
  /\ UNCHANGED connectionVars

Remove(u) ==
  /\ Asks(u, "remove")
  /\ RemoveMember(request[u].household, request[u].member)
  /\ Answer(u)
  /\ UNCHANGED connectionVars

Authorize(u) ==
  /\ Asks(u, "authorize")
  /\ \E s \in States : CreateOAuthState(s, request[u].household, request[u].provider)
  /\ Answer(u)
  /\ UNCHANGED membershipVars

RowOf(u) == <<request[u].household, request[u].inbox>>

Disconnect(u) ==
  /\ Asks(u, "disconnect")
  /\ DisconnectRow(RowOf(u))
  /\ request' = [request EXCEPT ![u].op = "delete"]
  /\ UNCHANGED <<membershipVars, requests>>

Delete(u) ==
  /\ Asks(u, "delete")
  /\ DeleteCredentials(RowOf(u)) \/ DeleteCredentialsFails(RowOf(u))
  /\ Answer(u)
  /\ UNCHANGED membershipVars

(* The transaction finds that the request no longer applies.               *)
Conflict(u) ==
  LET q == request[u] IN
  /\ \/ Asks(u, "invite") /\ ~Invitable(q.household, q.address)
     \/ Asks(u, "revoke") /\ ~Revocable(q.household, q.invitation)
     \/ Asks(u, "change") /\ ~Changeable(q.household, q.member, q.role)
     \/ Asks(u, "remove") /\ ~Removable(q.household, q.member)
     \/ Asks(u, "disconnect") /\ connection[RowOf(u)] = "none"
  /\ Answer(u)
  /\ UNCHANGED <<membershipVars, connectionVars>>

(* Neither needs a membership.                                             *)
Found(u, h) == CreateHousehold(h, u) /\ UNCHANGED <<connectionVars, request, requests>>

Accept(u, i) ==
  /\ AcceptInvitation(u, i) \/ AcceptTooLate(i)
  /\ UNCHANGED <<connectionVars, request, requests>>

-----------------------------------------------------------------------------

Serve(u) ==
  \/ Invite(u) \/ ShowInvitations(u) \/ Revoke(u) \/ ChangeRole(u) \/ Remove(u)
  \/ Authorize(u) \/ Disconnect(u) \/ Delete(u) \/ Conflict(u)

Unasked ==
  \/ \E u \in Users : \/ \E h \in HouseholdIds : Found(u, h)
                      \/ \E i \in Invitations : Accept(u, i)
  \/ /\ \E i \in Invitations : InvitationPasses(i)
     /\ UNCHANGED <<connectionVars, request, requests>>

Connecting ==
  /\ \/ \E s \in States : StateExpires(s)
     \/ \E k \in Callbacks : Callbacking(k)
     \/ \E x \in Uses : Using(x)
  /\ UNCHANGED <<membershipVars, request, requests>>

(* Two callbacks, or a callback and a disconnect, between the first and    *)
(* the last of their calls for row r.                                      *)
Deleting(u, r) == Asks(u, "delete") /\ RowOf(u) = r

Contended(r) ==
  \E k \in Callbacks :
    /\ Attaching(k, r)
    /\ \/ \E j \in Callbacks \ {k} : Attaching(j, r)
       \/ \E u \in Users : Deleting(u, r)

Observe == contested' = contested \cup {r \in Rows : Contended(r)'}

Next ==
  /\ \/ \E u \in Users : Ask(u) \/ Serve(u)
     \/ Unasked
     \/ Connecting
  /\ Observe

Spec == Init /\ [][Next]_vars

-----------------------------------------------------------------------------
(* Properties                                                              *)

(* An account shown as connected has credentials, whichever of the calls   *)
(* to the database and the vault failed or died, as long as no two         *)
(* callbacks and no callback and disconnect of that account overlapped.    *)
(* (When they do, the code has nothing that keeps the two in step.)        *)
ConnectedHasCredentials ==
  \A r \in Rows \ contested : connection[r] = "connected" => r \in vault

=============================================================================
