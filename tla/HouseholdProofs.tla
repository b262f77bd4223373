-------------------------- MODULE HouseholdProofs --------------------------
(***************************************************************************)
(* Proofs about Households.  The database of members and the tables and    *)
(* vault of connections share no variable, so each has an invariant of its *)
(* own, kept by every step of its part, and a step of the whole is a step  *)
(* or a stutter of each part.                                              *)
(***************************************************************************)
EXTENDS Households, FiniteSetTheorems, TLAPS

-----------------------------------------------------------------------------
(* Members                                                                 *)

(* A household that was not founded has neither members nor invitations.   *)
Untouched ==
  \A h \in HouseholdIds \ households :
    /\ \A u \in Users : role[h][u] = "none"
    /\ \A i \in Invitations : invitation[i].status = "pending"
                              => invitation[i].household # h

MembershipInv ==
  MembershipTypeOK /\ OwnerRemains /\ OneSeatPerAddress /\ Untouched

MembershipStep ==
  \/ \E h \in HouseholdIds, u \in Users : CreateHousehold(h, u)
  \/ \E i \in Invitations, h \in HouseholdIds, a \in Addresses, r \in {"editor", "viewer"} :
       CreateInvitation(i, h, a, r)
  \/ \E h \in HouseholdIds : ListInvitations(h)
  \/ \E h \in HouseholdIds, i \in Invitations : RevokeInvitation(h, i)
  \/ \E u \in Users, i \in Invitations : AcceptInvitation(u, i)
  \/ \E i \in Invitations : AcceptTooLate(i)
  \/ \E h \in HouseholdIds, u \in Users, r \in Roles : ChangeMemberRole(h, u, r)
  \/ \E h \in HouseholdIds, u \in Users : RemoveMember(h, u)
  \/ \E i \in Invitations : InvitationPasses(i)
  \/ UNCHANGED membershipVars

(* An owner who is not the last one leaves another behind.                 *)
LEMMA AnotherOwner ==
  ASSUME NEW h \in HouseholdIds, NEW u \in Users,
         role[h][u] = "owner", NotLastOwner(h, u)
  PROVE  \E v \in Owners(h) : v # u
<1>1. IsFiniteSet(Owners(h))
  BY AddressAssumption, FS_Subset DEF Owners
<1>2. u \in Owners(h)
  BY DEF Owners
<1>3. Cardinality(Owners(h)) > 1
  BY DEF NotLastOwner
<1>4. SUFFICES ASSUME \A v \in Owners(h) : v = u
               PROVE  FALSE
  OBVIOUS
<1>5. Owners(h) = {u}
  BY <1>2, <1>4
<1> QED
  BY <1>3, <1>5, FS_Singleton

LEMMA MembershipTyped ==
  ASSUME MembershipTypeOK, MembershipStep
  PROVE  MembershipTypeOK'
<1> USE AddressAssumption DEF MembershipTypeOK, Invitation, Roles
<1>1. ASSUME NEW h \in HouseholdIds, NEW u \in Users, CreateHousehold(h, u)
      PROVE  MembershipTypeOK'
  BY <1>1 DEF CreateHousehold
<1>2. ASSUME NEW i \in Invitations, NEW h \in HouseholdIds, NEW a \in Addresses,
             NEW r \in {"editor", "viewer"}, CreateInvitation(i, h, a, r)
      PROVE  MembershipTypeOK'
  BY <1>2 DEF CreateInvitation
<1>3. ASSUME NEW h \in HouseholdIds, ListInvitations(h)
      PROVE  MembershipTypeOK'
  BY <1>3 DEF ListInvitations
<1>4. ASSUME NEW h \in HouseholdIds, NEW i \in Invitations, RevokeInvitation(h, i)
      PROVE  MembershipTypeOK'
  BY <1>4 DEF RevokeInvitation
<1>5. ASSUME NEW u \in Users, NEW i \in Invitations, AcceptInvitation(u, i)
      PROVE  MembershipTypeOK'
  BY <1>5 DEF AcceptInvitation
<1>6. ASSUME NEW i \in Invitations, AcceptTooLate(i)
      PROVE  MembershipTypeOK'
  BY <1>6 DEF AcceptTooLate
<1>7. ASSUME NEW h \in HouseholdIds, NEW u \in Users, NEW r \in Roles,
             ChangeMemberRole(h, u, r)
      PROVE  MembershipTypeOK'
  BY <1>7 DEF ChangeMemberRole
<1>8. ASSUME NEW h \in HouseholdIds, NEW u \in Users, RemoveMember(h, u)
      PROVE  MembershipTypeOK'
  BY <1>8 DEF RemoveMember
<1>9. ASSUME NEW i \in Invitations, InvitationPasses(i)
      PROVE  MembershipTypeOK'
  BY <1>9 DEF InvitationPasses
<1>10. CASE UNCHANGED membershipVars
  BY <1>10 DEF membershipVars
<1> QED
  BY <1>1, <1>2, <1>3, <1>4, <1>5, <1>6, <1>7, <1>8, <1>9, <1>10 DEF MembershipStep

LEMMA OwnersKept ==
  ASSUME MembershipInv, MembershipStep
  PROVE  OwnerRemains'
<1> USE DEF MembershipInv, MembershipTypeOK, OwnerRemains
<1>1. ASSUME NEW h \in HouseholdIds, NEW u \in Users, CreateHousehold(h, u)
      PROVE  OwnerRemains'
  <2> SUFFICES ASSUME NEW g \in households'
               PROVE  \E v \in Users : role'[g][v] = "owner"
    BY DEF Owners
  <2>1. CASE g = h
    BY <1>1, <2>1 DEF CreateHousehold
  <2>2. CASE g # h
    BY <1>1, <2>2 DEF CreateHousehold, Owners
  <2> QED
    BY <2>1, <2>2
<1>2. ASSUME NEW h \in HouseholdIds, NEW u \in Users, NEW r \in Roles,
             ChangeMemberRole(h, u, r)
      PROVE  OwnerRemains'
  <2> SUFFICES ASSUME NEW g \in households'
               PROVE  \E v \in Users : role'[g][v] = "owner"
    BY DEF Owners
  <2>0. g \in households /\ g \in HouseholdIds
    BY <1>2 DEF ChangeMemberRole
  <2>1. CASE g # h \/ role[h][u] # "owner" \/ r = "owner"
    <3>1. PICK v \in Users : role[g][v] = "owner"
      BY <2>0 DEF Owners
    <3> QED
      BY <1>2, <2>0, <2>1, <3>1 DEF ChangeMemberRole
  <2>2. CASE g = h /\ role[h][u] = "owner" /\ r # "owner"
    <3>1. NotLastOwner(h, u)
      BY <1>2, <2>2 DEF ChangeMemberRole, Changeable
    <3>2. PICK v \in Owners(h) : v # u
      BY <2>2, <3>1, AnotherOwner
    <3> QED
      BY <1>2, <2>0, <2>2, <3>2 DEF ChangeMemberRole, Owners
  <2> QED
    BY <2>1, <2>2
<1>3. ASSUME NEW h \in HouseholdIds, NEW u \in Users, RemoveMember(h, u)
      PROVE  OwnerRemains'
  <2> SUFFICES ASSUME NEW g \in households'
               PROVE  \E v \in Users : role'[g][v] = "owner"
    BY DEF Owners
  <2>0. g \in households /\ g \in HouseholdIds
    BY <1>3 DEF RemoveMember
  <2>1. CASE g # h \/ role[h][u] # "owner"
    <3>1. PICK v \in Users : role[g][v] = "owner"
      BY <2>0 DEF Owners
    <3> QED
      BY <1>3, <2>0, <2>1, <3>1 DEF RemoveMember
  <2>2. CASE g = h /\ role[h][u] = "owner"
    <3>1. NotLastOwner(h, u)
      BY <1>3 DEF RemoveMember, Removable
    <3>2. PICK v \in Owners(h) : v # u
      BY <2>2, <3>1, AnotherOwner
    <3> QED
      BY <1>3, <2>0, <2>2, <3>2 DEF RemoveMember, Owners
  <2> QED
    BY <2>1, <2>2
<1>4. ASSUME NEW u \in Users, NEW i \in Invitations, AcceptInvitation(u, i)
      PROVE  OwnerRemains'
  <2> SUFFICES ASSUME NEW g \in households'
               PROVE  \E v \in Users : role'[g][v] = "owner"
    BY DEF Owners
  <2>1. g \in households /\ g \in HouseholdIds
    BY <1>4 DEF AcceptInvitation
  <2>2. PICK v \in Users : role[g][v] = "owner"
    BY <2>1 DEF Owners
  <2>3. g # invitation[i].household \/ v # u
    BY <1>4, <2>2 DEF AcceptInvitation, IsMember
  <2> QED
    BY <1>4, <2>1, <2>2, <2>3 DEF AcceptInvitation
<1>5. CASE UNCHANGED <<households, role>>
  BY <1>5 DEF Owners
<1> QED
  BY <1>1, <1>2, <1>3, <1>4, <1>5
  DEF MembershipStep, membershipVars, CreateInvitation, ListInvitations,
      RevokeInvitation, AcceptTooLate, InvitationPasses

LEMMA UntouchedKept ==
  ASSUME MembershipInv, MembershipStep
  PROVE  Untouched'
<1> USE DEF MembershipInv, MembershipTypeOK, Invitation, Untouched
<1>1. ASSUME NEW h \in HouseholdIds, NEW u \in Users, CreateHousehold(h, u)
      PROVE  Untouched'
  BY <1>1 DEF CreateHousehold
<1>2. ASSUME NEW i \in Invitations, NEW h \in HouseholdIds, NEW a \in Addresses,
             NEW r \in {"editor", "viewer"}, CreateInvitation(i, h, a, r)
      PROVE  Untouched'
  BY <1>2 DEF CreateInvitation, Invitable
<1>3. ASSUME NEW h \in HouseholdIds, ListInvitations(h)
      PROVE  Untouched'
  BY <1>3 DEF ListInvitations
<1>4. ASSUME NEW h \in HouseholdIds, NEW i \in Invitations, RevokeInvitation(h, i)
      PROVE  Untouched'
  BY <1>4 DEF RevokeInvitation
<1>5. ASSUME NEW u \in Users, NEW i \in Invitations, AcceptInvitation(u, i)
      PROVE  Untouched'
  BY <1>5 DEF AcceptInvitation
<1>6. ASSUME NEW i \in Invitations, AcceptTooLate(i)
      PROVE  Untouched'
  BY <1>6 DEF AcceptTooLate
<1>7. ASSUME NEW h \in HouseholdIds, NEW u \in Users, NEW r \in Roles,
             ChangeMemberRole(h, u, r)
      PROVE  Untouched'
  BY <1>7 DEF ChangeMemberRole, Changeable, IsMember
<1>8. ASSUME NEW h \in HouseholdIds, NEW u \in Users, RemoveMember(h, u)
      PROVE  Untouched'
  BY <1>8 DEF RemoveMember, Removable, IsMember
<1>9. ASSUME NEW i \in Invitations, InvitationPasses(i)
      PROVE  Untouched'
  BY <1>9 DEF InvitationPasses
<1>10. CASE UNCHANGED membershipVars
  BY <1>10 DEF membershipVars
<1> QED
  BY <1>1, <1>2, <1>3, <1>4, <1>5, <1>6, <1>7, <1>8, <1>9, <1>10 DEF MembershipStep

(* Offers(h, a, i) and Sits(h, a, u) spell out the two kinds of seat.      *)
Offers(h, a, i) == /\ invitation[i].status = "pending"
                   /\ invitation[i].household = h
                   /\ invitation[i].address = a

Sits(h, a, u) == role[h][u] # "none" /\ AddressOf[u] = a

SeatsApart ==
  \A h \in HouseholdIds, a \in Addresses :
    /\ \A i, j \in Invitations : Offers(h, a, i) /\ Offers(h, a, j) => i = j
    /\ \A u, v \in Users : Sits(h, a, u) /\ Sits(h, a, v) => u = v
    /\ \A i \in Invitations, u \in Users : ~(Offers(h, a, i) /\ Sits(h, a, u))

LEMMA SeatsApartIsOneSeat == SeatsApart <=> OneSeatPerAddress
BY DEF SeatsApart, OneSeatPerAddress, Offers, Sits, Pending, Seated, IsMember

LEMMA SeatsKept ==
  ASSUME MembershipInv, MembershipStep
  PROVE  SeatsApart'
<1> SeatsApart
  BY SeatsApartIsOneSeat DEF MembershipInv
<1> USE AddressAssumption
    DEF MembershipInv, MembershipTypeOK, Invitation
<1>1. ASSUME NEW h \in HouseholdIds, NEW u \in Users, CreateHousehold(h, u)
      PROVE  SeatsApart'
  <2>1. \A v \in Users : role'[h][v] # "none" => v = u
    BY <1>1 DEF CreateHousehold, Untouched
  <2>2. \A i \in Invitations : invitation'[i].status = "pending"
                               => invitation'[i].household # h
    BY <1>1 DEF CreateHousehold, Untouched
  <2>3. \A g \in HouseholdIds \ {h} : role'[g] = role[g]
    BY <1>1 DEF CreateHousehold
  <2>4. invitation' = invitation
    BY <1>1 DEF CreateHousehold
  <2> QED
    BY <2>1, <2>2, <2>3, <2>4 DEF SeatsApart, Offers, Sits
<1>2. ASSUME NEW i \in Invitations, NEW h \in HouseholdIds, NEW a \in Addresses,
             NEW r \in {"editor", "viewer"}, CreateInvitation(i, h, a, r)
      PROVE  SeatsApart'
  <2>1. /\ \A u \in Users : ~Sits(h, a, u)
        /\ \A j \in Invitations : ~Offers(h, a, j)
    BY <1>2 DEF CreateInvitation, Invitable, Seated, Pending, IsMember, Offers, Sits
  <2>2. /\ invitation'[i].household = h
        /\ invitation'[i].address = a
        /\ \A j \in Invitations \ {i} : invitation'[j] = invitation[j]
        /\ role' = role
    BY <1>2 DEF CreateInvitation
  <2>3. \A g \in HouseholdIds, b \in Addresses, j \in Invitations :
          Offers(g, b, j)' => IF j = i THEN g = h /\ b = a ELSE Offers(g, b, j)
    BY <2>2 DEF Offers, Sits
  <2>4. \A g \in HouseholdIds, b \in Addresses, u \in Users :
          Sits(g, b, u)' => Sits(g, b, u)
    BY <2>2 DEF Offers, Sits
  <2> QED
    BY <2>1, <2>3, <2>4 DEF SeatsApart
<1>3. ASSUME NEW h \in HouseholdIds, ListInvitations(h)
      PROVE  SeatsApart'
  <2>1. \A j \in Invitations : invitation'[j].status = "pending"
                               => invitation'[j] = invitation[j]
    BY <1>3 DEF ListInvitations
  <2> QED
    BY <1>3, <2>1 DEF ListInvitations, SeatsApart, Offers, Sits
<1>4. ASSUME NEW h \in HouseholdIds, NEW i \in Invitations, RevokeInvitation(h, i)
      PROVE  SeatsApart'
  BY <1>4 DEF RevokeInvitation, SeatsApart, Offers, Sits
<1>5. ASSUME NEW u \in Users, NEW i \in Invitations, AcceptInvitation(u, i)
      PROVE  SeatsApart'
  <2> DEFINE h == invitation[i].household
             a == invitation[i].address
  <2>1. h \in HouseholdIds /\ a \in Addresses /\ AddressOf[u] = a
    BY <1>5 DEF AcceptInvitation
  <2>2. /\ \A v \in Users : ~Sits(h, a, v)
        /\ \A j \in Invitations \ {i} : ~Offers(h, a, j)
    BY <1>5, <2>1 DEF AcceptInvitation, Seated, IsMember, SeatsApart, Offers, Sits
  <2>3. /\ invitation'[i].status = "accepted"
        /\ \A j \in Invitations \ {i} : invitation'[j] = invitation[j]
    BY <1>5 DEF AcceptInvitation
  <2>4. /\ \A g \in HouseholdIds \ {h} : role'[g] = role[g]
        /\ \A v \in Users \ {u} : role'[h][v] = role[h][v]
    BY <1>5, <2>1 DEF AcceptInvitation
  <2> HIDE DEF h, a
  <2>5. \A g \in HouseholdIds, b \in Addresses, j \in Invitations :
          Offers(g, b, j)' => j # i /\ Offers(g, b, j)
    BY <2>3 DEF Offers
  <2>6. \A g \in HouseholdIds, b \in Addresses, v \in Users :
          Sits(g, b, v)' => IF g = h /\ v = u THEN b = a ELSE Sits(g, b, v)
    BY <2>1, <2>4 DEF Sits
  <2> QED
    BY <2>2, <2>5, <2>6 DEF SeatsApart
<1>6. ASSUME NEW i \in Invitations, AcceptTooLate(i)
      PROVE  SeatsApart'
  BY <1>6 DEF AcceptTooLate, SeatsApart, Offers, Sits
<1>7. ASSUME NEW h \in HouseholdIds, NEW u \in Users, NEW r \in Roles,
             ChangeMemberRole(h, u, r)
      PROVE  SeatsApart'
  <2>1. \A g \in HouseholdIds, v \in Users : role'[g][v] # "none" => role[g][v] # "none"
    BY <1>7 DEF ChangeMemberRole, Changeable, IsMember
  <2> QED
    BY <1>7, <2>1 DEF ChangeMemberRole, SeatsApart, Offers, Sits
<1>8. ASSUME NEW h \in HouseholdIds, NEW u \in Users, RemoveMember(h, u)
      PROVE  SeatsApart'
  <2>1. \A g \in HouseholdIds, v \in Users : role'[g][v] # "none" => role[g][v] # "none"
    BY <1>8 DEF RemoveMember
  <2> QED
    BY <1>8, <2>1 DEF RemoveMember, SeatsApart, Offers, Sits
<1>9. ASSUME NEW i \in Invitations, InvitationPasses(i)
      PROVE  SeatsApart'
  BY <1>9 DEF InvitationPasses, SeatsApart, Offers, Sits
<1>10. CASE UNCHANGED membershipVars
  BY <1>10 DEF membershipVars, SeatsApart, Offers, Sits
<1> QED
  BY <1>1, <1>2, <1>3, <1>4, <1>5, <1>6, <1>7, <1>8, <1>9, <1>10 DEF MembershipStep

LEMMA MembershipKept ==
  ASSUME MembershipInv, MembershipStep
  PROVE  MembershipInv'
<1>1. OneSeatPerAddress'
  BY SeatsKept, SeatsApartIsOneSeat, PTL
<1> QED
  BY <1>1, MembershipTyped, OwnersKept, UntouchedKept DEF MembershipInv

-----------------------------------------------------------------------------
(* Connections                                                             *)

(* Whatever a frame still has to do to a row, the row exists by then.      *)
FramesHaveRows ==
  /\ \A k \in Callbacks : callback[k].stage \in {"store", "connect"}
                          => connection[Target(k)] # "none"
  /\ \A x \in Uses : use[x].stage # "idle" => connection[use[x].row] # "none"

(* An inbox is attached to one household at most.                          *)
OneHousehold ==
  \A b \in Inboxes : \A g, h \in HouseholdIds :
    connection[<<g, b>>] # "none" /\ connection[<<h, b>>] # "none" => g = h

(* Credentials are stored for rows only.                                   *)
VaultHasRows == \A r \in vault : connection[r] # "none"

(* A reconnect of row r that is about to end well, or to restore the       *)
(* status "connected".                                                     *)
Reconnects(k, r) ==
  /\ Attaching(k, r)
  /\ callback[k].stage = "connect" \/ callback[k].prior = "connected"

(* Nobody has credentials of a forgotten row in hand, and no callback will *)
(* call it connected without storing new ones.                             *)
ForgottenIsLeftAlone ==
  \A r \in forgotten :
    /\ r \notin vault
    /\ connection[r] # "connected"
    /\ \A k \in Callbacks : ~Reconnects(k, r)
    /\ \A x \in Uses : use[x].stage = "refresh" => use[x].row # r

ConnectionsInv ==
  /\ ConnectionsTypeOK
  /\ OneHousehold
  /\ FramesHaveRows
  /\ VaultHasRows
  /\ ForgottenIsLeftAlone

ConnectionsStep ==
  \/ \E s \in States, h \in HouseholdIds, p \in Providers : CreateOAuthState(s, h, p)
  \/ \E s \in States : StateExpires(s)
  \/ \E k \in Callbacks : Callbacking(k)
  \/ \E x \in Uses : Using(x)
  \/ \E r \in Rows : DisconnectRow(r) \/ DeleteCredentials(r) \/ DeleteCredentialsFails(r)
  \/ UNCHANGED connectionVars

LEMMA IdleFrames == NoCallback \in Callback /\ NoCallback.stage = "idle"
                    /\ NoUse \in Use /\ NoUse.stage = "idle"
<1>1. PICK h \in HouseholdIds : TRUE
  BY AddressAssumption
<1>2. PICK b \in Inboxes : TRUE
  BY ConnectionsAssumption
<1>3. [stage |-> "idle", household |-> h, provider |-> "gmail", inbox |-> b,
       prior |-> "none"] \in Callback
  BY DEF Callback, Providers
<1>4. [stage |-> "idle", row |-> <<h, b>>, renewal |-> FALSE] \in Use
  BY DEF Use, Rows
<1>5. \E c \in Callback : c.stage = "idle"
  BY <1>3
<1>6. \E n \in Use : n.stage = "idle"
  BY <1>4
<1> QED
  BY <1>5, <1>6 DEF NoCallback, NoUse

LEMMA TargetIsRow ==
  ASSUME ConnectionsTypeOK, NEW k \in Callbacks
  PROVE  Target(k) \in Rows
BY DEF ConnectionsTypeOK, Callback, Target, Rows

LEMMA CallbackTyped ==
  ASSUME ConnectionsTypeOK, NEW k \in Callbacks, Callbacking(k)
  PROVE  ConnectionsTypeOK'
<1> DEFINE T == Target(k)
<1> T \in Rows
  BY TargetIsRow
<1> HIDE DEF T
<1> USE IdleFrames, ConnectionsAssumption DEF ConnectionsTypeOK
<1>1. ASSUME NEW s \in States, NEW p \in Providers, Consume(k, s, p)
      PROVE  ConnectionsTypeOK'
  <2>1. oauth' \in [States -> OAuthState]
    BY <1>1 DEF Consume, OAuthState
  <2>2. callback' \in [Callbacks -> Callback]
    BY <1>1 DEF Consume, OAuthState, Callback
  <2> QED
    BY <1>1, <2>1, <2>2 DEF Consume
<1>2. ASSUME NEW b \in Inboxes, Identify(k, b)
      PROVE  ConnectionsTypeOK'
  <2>1. connection[<<callback[k].household, b>>] \in Statuses \cup {"none"}
    BY DEF Callback, Rows
  <2>2. callback' \in [Callbacks -> Callback]
    BY <1>2, <2>1 DEF Identify, Callback
  <2> QED
    BY <1>2, <2>2 DEF Identify
<1>3. CASE ExchangeFails(k)
  BY <1>3 DEF ExchangeFails, EndCallback
<1>4. CASE Attach(k)
  <2>1. callback' \in [Callbacks -> Callback]
    BY <1>4 DEF Attach, Callback
  <2>2. connection' \in [Rows -> Statuses \cup {"none"}]
    BY <1>4 DEF Attach, Statuses
  <2> QED
    BY <1>4, <2>1, <2>2 DEF Attach
<1>5. CASE AttachConflict(k)
  BY <1>5 DEF AttachConflict, EndCallback
<1>6. CASE StoreCredentials(k)
  <2>1. callback' \in [Callbacks -> Callback]
    BY <1>6 DEF StoreCredentials, Callback
  <2> QED
    BY <1>6, <2>1 DEF StoreCredentials, T
<1>7. CASE StoreCredentialsFails(k)
  <2>1. callback[k].prior \in Statuses \cup {"none"}
    BY DEF Callback
  <2>2. connection' \in [Rows -> Statuses \cup {"none"}]
    BY <1>7, <2>1 DEF StoreCredentialsFails, Statuses
  <2> QED
    BY <1>7, <2>2 DEF StoreCredentialsFails, Breakdown, EndCallback
<1>8. CASE Connect(k)
  BY <1>8 DEF Connect, EndCallback, Statuses
<1>9. CASE ConnectFails(k)
  BY <1>9 DEF ConnectFails, Breakdown, EndCallback
<1>10. CASE CallbackCrashes(k)
  BY <1>10 DEF CallbackCrashes, Breakdown, EndCallback
<1> QED
  BY <1>1, <1>2, <1>3, <1>4, <1>5, <1>6, <1>7, <1>8, <1>9, <1>10 DEF Callbacking

LEMMA UseTyped ==
  ASSUME ConnectionsTypeOK, NEW x \in Uses, Using(x)
  PROVE  ConnectionsTypeOK'
<1> USE IdleFrames, ConnectionsAssumption DEF ConnectionsTypeOK
<1>0. use[x].row \in Rows
  BY DEF Use
<1>1. ASSUME NEW r \in Rows, NEW renewal \in BOOLEAN, BeginUse(x, r, renewal)
      PROVE  ConnectionsTypeOK'
  BY <1>1 DEF BeginUse, Use
<1>2. CASE ReadCredentials(x)
  BY <1>2 DEF ReadCredentials, Use
<1>3. CASE CredentialsMissing(x)
  BY <1>0, <1>3 DEF CredentialsMissing, EndUse, Statuses
<1>4. CASE StillFresh(x)
  BY <1>4 DEF StillFresh, EndUse
<1>5. CASE Refresh(x)
  BY <1>0, <1>5 DEF Refresh, EndUse
<1>6. CASE RefreshRefused(x)
  BY <1>0, <1>6 DEF RefreshRefused, Breakdown, EndUse, Statuses
<1> QED
  BY <1>1, <1>2, <1>3, <1>4, <1>5, <1>6 DEF Using

LEMMA ConnectionsTyped ==
  ASSUME ConnectionsTypeOK, ConnectionsStep
  PROVE  ConnectionsTypeOK'
<1> USE ConnectionsAssumption DEF ConnectionsTypeOK
<1>1. ASSUME NEW s \in States, NEW h \in HouseholdIds, NEW p \in Providers,
             CreateOAuthState(s, h, p)
      PROVE  ConnectionsTypeOK'
  BY <1>1 DEF CreateOAuthState, OAuthState
<1>2. ASSUME NEW s \in States, StateExpires(s)
      PROVE  ConnectionsTypeOK'
  BY <1>2 DEF StateExpires, OAuthState
<1>3. ASSUME NEW r \in Rows, DisconnectRow(r)
      PROVE  ConnectionsTypeOK'
  BY <1>3 DEF DisconnectRow, Statuses
<1>4. ASSUME NEW r \in Rows, DeleteCredentials(r)
      PROVE  ConnectionsTypeOK'
  BY <1>4 DEF DeleteCredentials
<1>5. ASSUME NEW r \in Rows, DeleteCredentialsFails(r)
      PROVE  ConnectionsTypeOK'
  BY <1>5 DEF DeleteCredentialsFails, Breakdown
<1>6. CASE UNCHANGED connectionVars
  BY <1>6 DEF connectionVars
<1> QED
  BY <1>1, <1>2, <1>3, <1>4, <1>5, <1>6, CallbackTyped, UseTyped DEF ConnectionsStep

(* The actions that write a status, and what they write.                   *)
Writes(r, c) == connection' = [connection EXCEPT ![r] = c]

(* Every step but an upsert leaves the set of rows as it is.               *)
LEMMA RowsStay ==
  ASSUME ConnectionsInv, ConnectionsStep, \A k \in Callbacks : ~Attach(k)
  PROVE  \A r \in Rows : connection'[r] = "none" <=> connection[r] = "none"
<1> USE DEF ConnectionsInv, ConnectionsTypeOK
<1>1. ASSUME NEW r \in Rows, NEW c \in Statuses, connection[r] # "none", Writes(r, c)
      PROVE  \A q \in Rows : connection'[q] = "none" <=> connection[q] = "none"
  BY <1>1 DEF Writes, Statuses
<1>2. CASE UNCHANGED connection
  BY <1>2
<1>3. ASSUME NEW k \in Callbacks, Callbacking(k), connection' # connection
      PROVE  /\ connection[Target(k)] # "none"
             /\ \E c \in Statuses : Writes(Target(k), c)
  <2>1. StoreCredentialsFails(k) \/ Connect(k)
    BY <1>3 DEF Callbacking, Consume, Identify, ExchangeFails, AttachConflict,
                StoreCredentials, ConnectFails, CallbackCrashes
  <2>2. connection[Target(k)] # "none"
    BY <2>1 DEF StoreCredentialsFails, Connect, FramesHaveRows
  <2>3. callback[k].prior \in Statuses \cup {"none"}
    BY DEF Callback
  <2> QED
    BY <2>1, <2>2, <2>3 DEF StoreCredentialsFails, Connect, Writes, Statuses
<1>4. ASSUME NEW x \in Uses, Using(x), connection' # connection
      PROVE  /\ connection[use[x].row] # "none"
             /\ \E c \in Statuses : Writes(use[x].row, c)
  <2>1. (CredentialsMissing(x) /\ ~use[x].renewal) \/ RefreshRefused(x)
    BY <1>4 DEF Using, BeginUse, ReadCredentials, CredentialsMissing, StillFresh, Refresh
  <2> QED
    BY <2>1 DEF CredentialsMissing, RefreshRefused, FramesHaveRows, Writes, Statuses
<1>5. \A k \in Callbacks : Target(k) \in Rows
  BY TargetIsRow
<1>6. \A x \in Uses : use[x].row \in Rows
  BY DEF Use
<1>7. ASSUME NEW r \in Rows, DisconnectRow(r)
      PROVE  connection[r] # "none" /\ Writes(r, "disconnected") /\ "disconnected" \in Statuses
  BY <1>7 DEF DisconnectRow, Writes, Statuses
<1> QED
  BY <1>1, <1>2, <1>3, <1>4, <1>5, <1>6, <1>7
  DEF ConnectionsStep, CreateOAuthState, StateExpires, DeleteCredentials,
      DeleteCredentialsFails, connectionVars

LEMMA OneHouseholdKept ==
  ASSUME ConnectionsInv, ConnectionsStep
  PROVE  OneHousehold'
<1> USE DEF ConnectionsInv, ConnectionsTypeOK
<1>1. CASE \A k \in Callbacks : ~Attach(k)
  <2>1. \A r \in Rows : connection'[r] = "none" <=> connection[r] = "none"
    BY <1>1, RowsStay
  <2> QED
    BY <2>1 DEF OneHousehold, Rows
<1>2. ASSUME NEW k \in Callbacks, Attach(k)
      PROVE  OneHousehold'
  <2>1. /\ callback[k].household \in HouseholdIds
        /\ callback[k].inbox \in Inboxes
    BY DEF Callback
  <2>2. \A g \in HouseholdIds \ {callback[k].household} :
          connection[<<g, callback[k].inbox>>] = "none"
    BY <1>2 DEF Attach, Free
  <2>3. \A r \in Rows : r # Target(k) => connection'[r] = connection[r]
    BY <1>2 DEF Attach
  <2>4. \A b \in Inboxes, g, h \in HouseholdIds :
          connection'[<<g, b>>] # "none" /\ connection'[<<h, b>>] # "none" => g = h
    BY <2>1, <2>2, <2>3 DEF OneHousehold, Rows, Target
  <2> QED
    BY <2>4 DEF OneHousehold
<1> QED
  BY <1>1, <1>2

LEMMA RowsGrow ==
  ASSUME ConnectionsInv, ConnectionsStep
  PROVE  \A r \in Rows : connection[r] # "none" => connection'[r] # "none"
<1>1. CASE \A k \in Callbacks : ~Attach(k)
  BY <1>1, RowsStay
<1>2. ASSUME NEW k \in Callbacks, Attach(k)
      PROVE  \A r \in Rows : connection[r] # "none" => connection'[r] # "none"
  BY <1>2 DEF Attach, ConnectionsInv, ConnectionsTypeOK
<1> QED
  BY <1>1, <1>2

(* The frames that a step leaves alone need no row that is not there.      *)
LEMMA FramesHaveRowsKept ==
  ASSUME ConnectionsInv, ConnectionsStep
  PROVE  FramesHaveRows'
<1> USE IdleFrames, RowsGrow DEF ConnectionsInv, ConnectionsTypeOK
<1>0. /\ \A k \in Callbacks : Target(k) \in Rows
      /\ \A x \in Uses : use[x].row \in Rows
  BY TargetIsRow DEF Use
<1>1. ASSUME UNCHANGED callback
      PROVE  \A k \in Callbacks : callback'[k].stage \in {"store", "connect"}
                                  => connection'[Target(k)'] # "none"
  BY <1>0, <1>1 DEF FramesHaveRows, Target
<1>2. ASSUME UNCHANGED use
      PROVE  \A x \in Uses : use'[x].stage # "idle" => connection'[use'[x].row] # "none"
  BY <1>0, <1>2 DEF FramesHaveRows
<1>3. ASSUME NEW k \in Callbacks, Callbacking(k)
      PROVE  FramesHaveRows'
  <2>1. \A j \in Callbacks \ {k} : callback'[j] = callback[j]
    BY <1>3 DEF Callbacking, Consume, Identify, ExchangeFails, Attach, AttachConflict,
                StoreCredentials, StoreCredentialsFails, Connect, ConnectFails,
                CallbackCrashes, EndCallback
  <2>2. \A j \in Callbacks \ {k} : callback'[j].stage \in {"store", "connect"}
                                   => connection'[Target(j)'] # "none"
    BY <1>0, <2>1 DEF FramesHaveRows, Target
  <2>3. CASE Attach(k)
    <3>1. connection'[Target(k)] = "pending"
      BY <1>0, <2>3 DEF Attach
    <3>2. Target(k)' = Target(k)
      BY <2>3 DEF Attach, Target, Callback
    <3> QED
      BY <1>2, <2>2, <2>3, <3>1, <3>2 DEF FramesHaveRows, Attach
  <2>4. CASE StoreCredentials(k)
    <3>1. connection[Target(k)] # "none"
      BY <2>4 DEF StoreCredentials, FramesHaveRows
    <3>2. Target(k)' = Target(k)
      BY <2>4 DEF StoreCredentials, Target, Callback
    <3> QED
      BY <1>0, <1>2, <2>2, <2>4, <3>1, <3>2 DEF FramesHaveRows, StoreCredentials
  <2>5. CASE callback'[k].stage \notin {"store", "connect"} /\ UNCHANGED use
    BY <1>2, <2>2, <2>5 DEF FramesHaveRows
  <2>6. \/ Attach(k)
        \/ StoreCredentials(k)
        \/ callback'[k].stage \notin {"store", "connect"} /\ UNCHANGED use
    <3>1. ASSUME NEW s \in States, NEW p \in Providers, Consume(k, s, p)
          PROVE  callback'[k].stage \notin {"store", "connect"} /\ UNCHANGED use
      BY <3>1 DEF Consume, Callback
    <3>2. ASSUME NEW b \in Inboxes, Identify(k, b)
          PROVE  callback'[k].stage \notin {"store", "connect"} /\ UNCHANGED use
      BY <3>2 DEF Identify, Callback
    <3>3. CASE EndCallback(k) /\ UNCHANGED use
      BY <3>3 DEF EndCallback
    <3> QED
      BY <1>3, <3>1, <3>2, <3>3
      DEF Callbacking, ExchangeFails, AttachConflict, StoreCredentialsFails, Connect,
          ConnectFails, CallbackCrashes
  <2> QED
    BY <2>3, <2>4, <2>5, <2>6
<1>4. ASSUME NEW x \in Uses, Using(x)
      PROVE  FramesHaveRows'
  <2>1. UNCHANGED callback
    BY <1>4 DEF Using, BeginUse, ReadCredentials, CredentialsMissing, StillFresh,
                Refresh, RefreshRefused
  <2>2. ASSUME NEW r \in Rows, NEW renewal \in BOOLEAN, BeginUse(x, r, renewal)
        PROVE  \A y \in Uses : use'[y].stage # "idle" => connection'[use'[y].row] # "none"
    BY <1>0, <2>2 DEF BeginUse, FramesHaveRows
  <2>3. \A y \in Uses : use'[y].stage # "idle" => connection'[use'[y].row] # "none"
    <3>1. CASE \E r \in Rows, renewal \in BOOLEAN : BeginUse(x, r, renewal)
      BY <2>2, <3>1
    <3>2. CASE ReadCredentials(x)
      BY <1>0, <3>2 DEF ReadCredentials, FramesHaveRows, Use
    <3>3. CASE EndUse(x)
      BY <1>0, <3>3 DEF EndUse, FramesHaveRows
    <3> QED
      BY <1>4, <3>1, <3>2, <3>3 DEF Using, CredentialsMissing, StillFresh, Refresh, RefreshRefused
  <2> QED
    BY <1>1, <2>1, <2>3 DEF FramesHaveRows
<1>5. CASE UNCHANGED <<callback, use>>
  BY <1>1, <1>2, <1>5 DEF FramesHaveRows
<1> QED
  BY <1>3, <1>4, <1>5
  DEF ConnectionsStep, CreateOAuthState, StateExpires, DisconnectRow, DeleteCredentials,
      DeleteCredentialsFails, connectionVars

LEMMA VaultHasRowsKept ==
  ASSUME ConnectionsInv, ConnectionsStep
  PROVE  VaultHasRows'
<1> USE DEF ConnectionsInv, ConnectionsTypeOK
<1>0. /\ \A k \in Callbacks : Target(k) \in Rows
      /\ \A x \in Uses : use[x].row \in Rows
  BY TargetIsRow DEF Use
<1>1. ASSUME NEW k \in Callbacks, Callbacking(k), NEW r \in vault'
      PROVE  r \in Rows /\ connection[r] # "none"
  <2>1. CASE r \in vault
    BY <2>1 DEF VaultHasRows
  <2>2. CASE r \notin vault
    <3>1. StoreCredentials(k) /\ r = Target(k)
      BY <1>1, <2>2 DEF Callbacking, Consume, Identify, ExchangeFails, Attach, AttachConflict,
           StoreCredentials, StoreCredentialsFails, Connect, ConnectFails, CallbackCrashes
    <3> QED
      BY <1>0, <3>1 DEF StoreCredentials, FramesHaveRows
  <2> QED
    BY <2>1, <2>2
<1>2. ASSUME NEW x \in Uses, Using(x), NEW r \in vault'
      PROVE  r \in Rows /\ connection[r] # "none"
  <2>1. CASE r \in vault
    BY <2>1 DEF VaultHasRows
  <2>2. CASE r \notin vault
    <3>1. Refresh(x) /\ r = use[x].row
      BY <1>2, <2>2 DEF Using, BeginUse, ReadCredentials, CredentialsMissing, StillFresh,
           Refresh, RefreshRefused
    <3> QED
      BY <1>0, <3>1 DEF Refresh, FramesHaveRows
  <2> QED
    BY <2>1, <2>2
<1>3. ASSUME vault' \subseteq vault, NEW r \in vault'
      PROVE  r \in Rows /\ connection[r] # "none"
  BY <1>3 DEF VaultHasRows
<1>4. \A r \in vault' : r \in Rows /\ connection[r] # "none"
  BY <1>1, <1>2, <1>3
  DEF ConnectionsStep, CreateOAuthState, StateExpires, DisconnectRow, DeleteCredentials,
      DeleteCredentialsFails, connectionVars
<1> QED
  BY <1>4, RowsGrow DEF VaultHasRows

(* A callback leaves every other frame alone; unless it is one of the five *)
(* writes, it leaves the tables and the vault alone too.                   *)
LEMMA CallbackEffects ==
  ASSUME ConnectionsTypeOK, NEW k \in Callbacks, Callbacking(k)
  PROVE  /\ \A j \in Callbacks \ {k} : callback'[j] = callback[j]
         /\ \A j \in Callbacks \ {k}, r \in Rows : Reconnects(j, r)' <=> Reconnects(j, r)
         /\ UNCHANGED use
         /\ \/ /\ callback'[k].stage \in {"idle", "exchange"}
               /\ UNCHANGED <<connection, vault, forgotten>>
            \/ /\ callback'[k].stage = "attach"
               /\ callback'[k].prior = connection[Target(k)']
               /\ Target(k)' \in Rows
               /\ UNCHANGED <<connection, vault, forgotten>>
            \/ Attach(k) \/ StoreCredentials(k) \/ StoreCredentialsFails(k)
            \/ Connect(k) \/ ConnectFails(k)
<1> USE IdleFrames DEF ConnectionsTypeOK
<1>1. /\ \A j \in Callbacks \ {k} : callback'[j] = callback[j]
      /\ UNCHANGED use
  BY DEF Callbacking, Consume, Identify, ExchangeFails, Attach, AttachConflict,
         StoreCredentials, StoreCredentialsFails, Connect, ConnectFails,
         CallbackCrashes, EndCallback
<1>2. \A j \in Callbacks \ {k}, r \in Rows : Reconnects(j, r)' <=> Reconnects(j, r)
  BY <1>1 DEF Attaching, Reconnects, Target
<1>3. ASSUME NEW s \in States, NEW p \in Providers, Consume(k, s, p)
      PROVE  /\ callback'[k].stage \in {"idle", "exchange"}
             /\ UNCHANGED <<connection, vault, forgotten>>
  BY <1>3 DEF Consume, Callback
<1>4. ASSUME NEW b \in Inboxes, Identify(k, b)
      PROVE  /\ callback'[k].stage = "attach"
             /\ callback'[k].prior = connection[Target(k)']
             /\ Target(k)' \in Rows
             /\ UNCHANGED <<connection, vault, forgotten>>
  <2>1. /\ callback'[k].stage = "attach"
        /\ callback'[k].household = callback[k].household
        /\ callback'[k].inbox = b
        /\ callback'[k].prior = connection[<<callback[k].household, b>>]
    BY <1>4 DEF Identify, Callback
  <2>2. callback[k].household \in HouseholdIds
    BY DEF Callback
  <2> QED
    BY <1>4, <2>1, <2>2 DEF Identify, Target, Rows
<1>5. CASE ExchangeFails(k) \/ AttachConflict(k) \/ CallbackCrashes(k)
  <2>1. callback'[k].stage = "idle"
    BY <1>5 DEF ExchangeFails, AttachConflict, CallbackCrashes, EndCallback
  <2> QED
    BY <1>1, <1>2, <1>5, <2>1 DEF ExchangeFails, AttachConflict, CallbackCrashes
<1> QED
  BY <1>1, <1>2, <1>3, <1>4, <1>5 DEF Callbacking

(* The frame, the status and the vault after each of the writes.           *)
LEMMA AttachWrites ==
  ASSUME ConnectionsTypeOK, NEW k \in Callbacks, Attach(k)
  PROVE  /\ callback'[k].stage = "store" /\ callback'[k].prior = callback[k].prior
         /\ Target(k)' = Target(k) /\ Attaching(k, Target(k))
         /\ connection' = [connection EXCEPT ![Target(k)] = "pending"]
         /\ UNCHANGED <<vault, forgotten>>
BY DEF Attach, Target, Callback, Attaching, ConnectionsTypeOK

LEMMA StoreWrites ==
  ASSUME ConnectionsTypeOK, NEW k \in Callbacks, StoreCredentials(k)
  PROVE  /\ callback'[k].stage = "connect"
         /\ Target(k)' = Target(k) /\ Attaching(k, Target(k))
         /\ callback[k].stage = "store"
         /\ vault' = vault \cup {Target(k)}
         /\ forgotten' = forgotten \ {Target(k)}
         /\ UNCHANGED connection
BY DEF StoreCredentials, Target, Callback, Attaching, ConnectionsTypeOK

LEMMA StoreFailsWrites ==
  ASSUME ConnectionsTypeOK, NEW k \in Callbacks, StoreCredentialsFails(k)
  PROVE  /\ callback'[k].stage = "idle" /\ Attaching(k, Target(k))
         /\ connection' = [connection EXCEPT ![Target(k)] =
                             IF callback[k].prior = "none" THEN "disconnected"
                                                           ELSE callback[k].prior]
         /\ UNCHANGED <<vault, forgotten>>
BY IdleFrames DEF StoreCredentialsFails, EndCallback, Attaching, ConnectionsTypeOK

LEMMA ConnectWrites ==
  ASSUME ConnectionsTypeOK, NEW k \in Callbacks, Connect(k)
  PROVE  /\ callback'[k].stage = "idle" /\ Reconnects(k, Target(k))
         /\ callback[k].stage = "connect"
         /\ connection' = [connection EXCEPT ![Target(k)] = "connected"]
         /\ UNCHANGED <<vault, forgotten>>
BY IdleFrames DEF Connect, EndCallback, Reconnects, Attaching, ConnectionsTypeOK

LEMMA ConnectFailsWrites ==
  ASSUME ConnectionsTypeOK, NEW k \in Callbacks, ConnectFails(k)
  PROVE  /\ callback'[k].stage = "idle" /\ Attaching(k, Target(k))
         /\ callback[k].stage = "connect"
         /\ vault' = vault \ {Target(k)}
         /\ UNCHANGED <<connection, forgotten>>
BY IdleFrames DEF ConnectFails, EndCallback, Attaching, ConnectionsTypeOK

(* A forgotten row is left alone by every step but a StoreCredentials.     *)
LEMMA ForgottenKept ==
  ASSUME ConnectionsInv, ConnectionsStep
  PROVE  ForgottenIsLeftAlone'
<1> USE IdleFrames DEF ConnectionsInv, ConnectionsTypeOK
<1>0. /\ \A k \in Callbacks : Target(k) \in Rows
      /\ \A x \in Uses : use[x].row \in Rows
  BY TargetIsRow DEF Use
<1>1. ASSUME NEW k \in Callbacks, Callbacking(k)
      PROVE  ForgottenIsLeftAlone'
  <2>0. forgotten' \subseteq forgotten
    BY <1>1, CallbackEffects, AttachWrites, StoreWrites, StoreFailsWrites, ConnectWrites,
       ConnectFailsWrites
  <2>1. SUFFICES ASSUME NEW r \in forgotten'
                 PROVE  /\ r \notin vault'
                        /\ connection'[r] # "connected"
                        /\ ~Reconnects(k, r)'
    BY <1>1, <2>0, CallbackEffects DEF ForgottenIsLeftAlone
  <2>2. /\ r \in forgotten /\ r \in Rows
        /\ r \notin vault
        /\ connection[r] # "connected"
        /\ ~Reconnects(k, r)
    BY <2>0 DEF ForgottenIsLeftAlone
  <2>3. CASE /\ callback'[k].stage \in {"idle", "exchange"}
             /\ UNCHANGED <<connection, vault>>
    BY <2>2, <2>3 DEF Reconnects, Attaching
  <2>4. CASE /\ callback'[k].stage = "attach"
             /\ callback'[k].prior = connection[Target(k)']
             /\ UNCHANGED <<connection, vault>>
    BY <2>2, <2>4 DEF Reconnects, Attaching
  <2>5. CASE Attach(k)
    <3>1. /\ callback'[k].stage = "store" /\ callback'[k].prior = callback[k].prior
          /\ Target(k)' = Target(k) /\ Attaching(k, Target(k))
          /\ connection' = [connection EXCEPT ![Target(k)] = "pending"]
          /\ UNCHANGED vault
      BY <2>5, AttachWrites
    <3> QED
      BY <1>0, <2>2, <3>1 DEF Reconnects, Attaching
  <2>6. CASE StoreCredentials(k)
    <3>1. /\ Target(k)' = Target(k)
          /\ vault' = vault \cup {Target(k)}
          /\ forgotten' = forgotten \ {Target(k)}
          /\ UNCHANGED connection
      BY <2>6, StoreWrites
    <3> QED
      BY <2>1, <2>2, <3>1 DEF Reconnects, Attaching
  <2>7. CASE StoreCredentialsFails(k)
    <3>1. /\ callback'[k].stage = "idle" /\ Attaching(k, Target(k))
          /\ connection' = [connection EXCEPT ![Target(k)] =
                              IF callback[k].prior = "none" THEN "disconnected"
                                                            ELSE callback[k].prior]
          /\ UNCHANGED vault
      BY <2>7, StoreFailsWrites
    <3>2. r = Target(k) => callback[k].prior # "connected"
      BY <2>2, <3>1 DEF Reconnects
    <3> QED
      BY <1>0, <2>2, <3>1, <3>2 DEF Reconnects, Attaching
  <2>8. CASE Connect(k)
    <3>1. /\ callback'[k].stage = "idle" /\ Reconnects(k, Target(k))
          /\ connection' = [connection EXCEPT ![Target(k)] = "connected"]
          /\ UNCHANGED vault
      BY <2>8, ConnectWrites
    <3>2. r # Target(k)
      BY <2>2, <3>1
    <3> QED
      BY <1>0, <2>2, <3>1, <3>2 DEF Reconnects, Attaching
  <2>9. CASE ConnectFails(k)
    <3>1. /\ callback'[k].stage = "idle"
          /\ vault' = vault \ {Target(k)}
          /\ UNCHANGED connection
      BY <2>9, ConnectFailsWrites
    <3> QED
      BY <2>2, <3>1 DEF Reconnects, Attaching
  <2> QED
    BY <1>1, <2>3, <2>4, <2>5, <2>6, <2>7, <2>8, <2>9, CallbackEffects
<1>2. ASSUME NEW x \in Uses, Using(x)
      PROVE  ForgottenIsLeftAlone'
  <2>1. /\ \A y \in Uses \ {x} : use'[y] = use[y]
        /\ UNCHANGED <<callback, forgotten>>
        /\ \A k \in Callbacks, r \in Rows : Reconnects(k, r)' <=> Reconnects(k, r)
    BY <1>2 DEF Using, BeginUse, ReadCredentials, CredentialsMissing, StillFresh,
                Refresh, RefreshRefused, EndUse, Reconnects, Attaching, Target
  <2>2. SUFFICES ASSUME NEW r \in forgotten
                 PROVE  /\ r \notin vault'
                        /\ connection'[r] # "connected"
                        /\ use'[x].stage = "refresh" => use'[x].row # r
    BY <2>1 DEF ForgottenIsLeftAlone
  <2>3. /\ r \in Rows
        /\ r \notin vault
        /\ connection[r] # "connected"
        /\ use[x].stage = "refresh" => use[x].row # r
    BY <2>2 DEF ForgottenIsLeftAlone
  <2>4. ASSUME NEW q \in Rows, NEW renewal \in BOOLEAN, BeginUse(x, q, renewal)
        PROVE  /\ vault' = vault /\ connection' = connection
               /\ use'[x].stage # "refresh"
    BY <2>4 DEF BeginUse
  <2>5. CASE ReadCredentials(x)
    <3>1. use'[x].row = use[x].row /\ use[x].row # r
      BY <2>3, <2>5 DEF ReadCredentials, Use
    <3> QED
      BY <2>3, <2>5, <3>1 DEF ReadCredentials
  <2>6. CASE CredentialsMissing(x) \/ StillFresh(x) \/ Refresh(x) \/ RefreshRefused(x)
    <3>1. use'[x].stage = "idle"
      BY <2>6 DEF CredentialsMissing, StillFresh, Refresh, RefreshRefused, EndUse
    <3>2. connection'[r] # "connected"
      BY <1>0, <2>3, <2>6 DEF CredentialsMissing, StillFresh, Refresh, RefreshRefused
    <3>3. r \notin vault'
      BY <2>3, <2>6 DEF CredentialsMissing, StillFresh, Refresh, RefreshRefused
    <3> QED
      BY <3>1, <3>2, <3>3
  <2> QED
    BY <1>2, <2>3, <2>4, <2>5, <2>6 DEF Using
<1>3. ASSUME NEW r \in Rows, DisconnectRow(r)
      PROVE  ForgottenIsLeftAlone'
  BY <1>3 DEF DisconnectRow, ForgottenIsLeftAlone, Reconnects, Attaching, Target
<1>4. ASSUME NEW r \in Rows, DeleteCredentials(r)
      PROVE  ForgottenIsLeftAlone'
  BY <1>4 DEF DeleteCredentials, ForgottenIsLeftAlone, Reconnects, Attaching, Target, Alone
<1>5. CASE UNCHANGED <<connection, vault, callback, use, forgotten>>
  BY <1>5 DEF ForgottenIsLeftAlone, Reconnects, Attaching, Target
<1> QED
  BY <1>1, <1>2, <1>3, <1>4, <1>5
  DEF ConnectionsStep, CreateOAuthState, StateExpires, DeleteCredentialsFails, connectionVars

LEMMA ConnectionsKept ==
  ASSUME ConnectionsInv, ConnectionsStep
  PROVE  ConnectionsInv'
BY ConnectionsTyped, OneHouseholdKept, FramesHaveRowsKept, VaultHasRowsKept, ForgottenKept
DEF ConnectionsInv

-----------------------------------------------------------------------------
(* Requests                                                                *)

RequestsTyped == /\ request \in [Users -> Requests \cup {NoRequest}]
                 /\ requests \in 0..MaxRequests

(* What the status of row r says of the vault, while at most one callback  *)
(* or disconnect works on it: a callback that writes "connected" finds     *)
(* credentials there, and none can go while the row shows that status.     *)
KeptInStep(r) ==
  /\ ~Contended(r)
  /\ connection[r] = "connected" => r \in vault
  /\ \A k \in Callbacks :
       /\ Reconnects(k, r) => r \in vault
       /\ Attaching(k, r) /\ callback[k].stage \in {"store", "connect"}
          => connection[r] # "connected"
  /\ \A u \in Users : Deleting(u, r) => connection[r] # "connected"

InStep == contested \subseteq Rows /\ \A r \in Rows \ contested : KeptInStep(r)

HouseholdInv == MembershipInv /\ ConnectionsInv /\ RequestsTyped /\ InStep

LEMMA HouseholdInit == Init => HouseholdInv
<1> SUFFICES ASSUME Init
             PROVE  HouseholdInv
  OBVIOUS
<1>1. PICK h0 \in HouseholdIds : TRUE
  BY AddressAssumption
<1>2. PICK a0 \in Addresses : TRUE
  BY AddressAssumption
<1>3. \E n \in Invitation : n.status = "unused" /\ ~n.passed
  <2> DEFINE n == [status |-> "unused", household |-> h0, address |-> a0,
                   role |-> "viewer", passed |-> FALSE]
  <2>1. n \in Invitation /\ n.status = "unused" /\ ~n.passed
    BY DEF Invitation
  <2> QED
    BY <2>1
<1>4. \E o \in OAuthState : o.status = "unused"
  <2> DEFINE o == [status |-> "unused", household |-> h0, provider |-> "gmail"]
  <2>1. o \in OAuthState /\ o.status = "unused"
    BY DEF OAuthState, Providers
  <2> QED
    BY <2>1
<1>5. \A i \in Invitations : invitation[i] \in Invitation /\ invitation[i].status = "unused"
  BY <1>3 DEF Init
<1>6. MembershipTypeOK
  BY <1>3, RequestsAssumption DEF Init, MembershipTypeOK, Roles
<1>7. OwnerRemains /\ Untouched
  BY <1>5, RequestsAssumption DEF Init, OwnerRemains, Owners, Untouched
<1>8. OneSeatPerAddress
  <2>1. \A h \in HouseholdIds, u \in Users : role[h][u] # "none" => u \in FirstOwners[h]
    BY DEF Init
  <2>2. \A h \in HouseholdIds, a \in Addresses : Pending(h, a) = {}
    BY <1>5 DEF Pending
  <2> QED
    BY <2>1, <2>2, RequestsAssumption DEF OneSeatPerAddress, IsMember
<1>9. ConnectionsTypeOK
  <2>1. oauth \in [States -> OAuthState]
    BY <1>4 DEF Init
  <2>2. callback \in [Callbacks -> Callback] /\ use \in [Uses -> Use]
    BY IdleFrames DEF Init
  <2>3. connection \in [Rows -> Statuses \cup {"none"}]
    BY DEF Init
  <2>4. breakdowns \in 0..MaxFaults
    BY ConnectionsAssumption DEF Init
  <2> QED
    BY <2>1, <2>2, <2>3, <2>4 DEF Init, ConnectionsTypeOK
<1>10. OneHousehold
  BY DEF Init, OneHousehold, Rows
<1>11. FramesHaveRows /\ VaultHasRows /\ ForgottenIsLeftAlone
  BY IdleFrames DEF Init, FramesHaveRows, VaultHasRows, ForgottenIsLeftAlone
<1>12. InStep
  <2>1. \A k \in Callbacks, r \in Rows : ~Attaching(k, r)
    BY IdleFrames DEF Init, Attaching
  <2>2. \A u \in Users, r \in Rows : ~Deleting(u, r)
    BY DEF Init, Deleting, Asks
  <2> QED
    BY <2>1, <2>2 DEF Init, InStep, KeptInStep, Contended, Reconnects
<1> QED
  BY <1>6, <1>7, <1>8, <1>9, <1>10, <1>11, <1>12, RequestsAssumption
  DEF HouseholdInv, MembershipInv, ConnectionsInv, RequestsTyped, Init

(* What a request of a kind carries.                                       *)
LEMMA RequestFields ==
  ASSUME RequestsTyped, NEW u \in Users, request[u] # NoRequest
  PROVE  LET q == request[u] IN
         /\ q.household \in HouseholdIds
         /\ q.op = "invite" => /\ q.invitation \in Invitations
                               /\ q.address \in Addresses
                               /\ q.role \in {"editor", "viewer"}
         /\ q.op = "revoke" => q.invitation \in Invitations
         /\ q.op = "change" => q.member \in Users /\ q.role \in Roles
         /\ q.op = "remove" => q.member \in Users
         /\ q.op = "authorize" => q.provider \in Providers
         /\ q.op \in {"disconnect", "delete"} =>
              /\ q.inbox \in Inboxes
              /\ [q EXCEPT !.op = "delete"] \in Requests
<1>1. request[u] \in Requests
  BY DEF RequestsTyped
<1>2. CASE request[u] \in OwnerRequests
  BY <1>2 DEF OwnerRequests
<1>3. CASE request[u] \in EditRequests
  BY <1>3 DEF EditRequests, Requests
<1> QED
  BY <1>1, <1>2, <1>3 DEF Requests

(* A step of the requests is a step of one part and a stutter of the other. *)
LEMMA HouseholdParts ==
  ASSUME RequestsTyped, [Next]_vars
  PROVE  /\ MembershipStep /\ ConnectionsStep /\ RequestsTyped'
<1> USE DEF RequestsTyped
<1> DEFINE Stays == request' \in [Users -> Requests \cup {NoRequest}]
<1>1. ASSUME NEW u \in Users, Ask(u)
      PROVE  MembershipStep /\ ConnectionsStep /\ RequestsTyped'
  <2>1. requests' \in 0..MaxRequests
    BY <1>1, RequestsAssumption DEF Ask
  <2>2. Stays
    BY <1>1 DEF Ask
  <2> QED
    BY <1>1, <2>1, <2>2 DEF Ask, MembershipStep, ConnectionsStep
<1>2. ASSUME NEW u \in Users, Serve(u)
      PROVE  MembershipStep /\ ConnectionsStep /\ RequestsTyped'
  <2>1. request[u] # NoRequest
    BY <1>2 DEF Serve, Invite, ShowInvitations, Revoke, ChangeRole, Remove, Authorize,
                Disconnect, Delete, Conflict, Asks
  <2>2. CASE Answer(u)
    <3>1. RequestsTyped'
      BY <2>2 DEF Answer
    <3>2. CASE Invite(u)
      BY <2>1, <3>1, <3>2, RequestFields
      DEF Invite, Asks, MembershipStep, ConnectionsStep
    <3>3. CASE ShowInvitations(u)
      BY <2>1, <3>1, <3>3, RequestFields
      DEF ShowInvitations, Asks, MembershipStep, ConnectionsStep
    <3>4. CASE Revoke(u)
      BY <2>1, <3>1, <3>4, RequestFields
      DEF Revoke, Asks, MembershipStep, ConnectionsStep
    <3>5. CASE ChangeRole(u)
      BY <2>1, <3>1, <3>5, RequestFields
      DEF ChangeRole, Asks, MembershipStep, ConnectionsStep
    <3>6. CASE Remove(u)
      BY <2>1, <3>1, <3>6, RequestFields
      DEF Remove, Asks, MembershipStep, ConnectionsStep
    <3>7. CASE Authorize(u)
      BY <2>1, <3>1, <3>7, RequestFields
      DEF Authorize, Asks, MembershipStep, ConnectionsStep
    <3>8. CASE Delete(u)
      <4>1. RowOf(u) \in Rows
        BY <2>1, <3>8, RequestFields DEF Delete, Asks, RowOf, Rows
      <4> QED
        BY <3>1, <3>8, <4>1 DEF Delete, MembershipStep, ConnectionsStep
    <3>9. CASE Conflict(u)
      BY <3>1, <3>9 DEF Conflict, MembershipStep, ConnectionsStep
    <3>10. CASE Disconnect(u)
      BY <2>2, <3>10, <2>1, RequestFields DEF Disconnect, Asks, Answer, RowOf, Rows,
         MembershipStep, ConnectionsStep
    <3> QED
      BY <1>2, <3>2, <3>3, <3>4, <3>5, <3>6, <3>7, <3>8, <3>9, <3>10 DEF Serve
  <2>3. CASE Disconnect(u)
    <3>1. /\ RowOf(u) \in Rows
          /\ [request[u] EXCEPT !.op = "delete"] \in Requests
      BY <2>1, <2>3, RequestFields DEF Disconnect, Asks, RowOf, Rows
    <3>2. request' = [request EXCEPT ![u] = [request[u] EXCEPT !.op = "delete"]]
      BY <2>3 DEF Disconnect
    <3>3. RequestsTyped'
      BY <2>3, <3>1, <3>2 DEF Disconnect
    <3> QED
      BY <2>3, <3>1, <3>3 DEF Disconnect, MembershipStep, ConnectionsStep
  <2> QED
    BY <1>2, <2>2, <2>3 DEF Serve, Invite, ShowInvitations, Revoke, ChangeRole, Remove,
                            Authorize, Delete, Conflict
<1>3. CASE Unasked
  BY <1>3 DEF Unasked, Found, Accept, MembershipStep, ConnectionsStep
<1>4. CASE Connecting
  BY <1>4 DEF Connecting, MembershipStep, ConnectionsStep
<1>5. CASE UNCHANGED vars
  BY <1>5 DEF vars, MembershipStep, ConnectionsStep
<1> QED
  BY <1>1, <1>2, <1>3, <1>4, <1>5 DEF Next

(* Which of the steps on the connections belongs to which request.         *)
LEMMA RequestSteps ==
  ASSUME RequestsTyped, [Next]_vars
  PROVE  \/ /\ \/ \E k \in Callbacks : Callbacking(k)
               \/ \E x \in Uses : Using(x)
               \/ UNCHANGED <<connection, vault, callback>>
            /\ \A u \in Users, r \in Rows : Deleting(u, r)' => Deleting(u, r)
         \/ \E v \in Users, q \in Rows :
              /\ DisconnectRow(q) /\ Deleting(v, q)'
              /\ \A u \in Users, r \in Rows \ {q} : Deleting(u, r)' => Deleting(u, r)
         \/ \E v \in Users, q \in Rows :
              /\ DeleteCredentials(q) /\ Deleting(v, q)
              /\ \A u \in Users, r \in Rows : Deleting(u, r)' => Deleting(u, r)
<1> USE DEF RequestsTyped
<1> DEFINE NoneBegins == \A u \in Users, r \in Rows : Deleting(u, r)' => Deleting(u, r)
<1>1. ASSUME NEW v \in Users, Answer(v)
      PROVE  NoneBegins
  BY <1>1 DEF Answer, Deleting, Asks, RowOf
<1>2. ASSUME NEW v \in Users, Ask(v)
      PROVE  NoneBegins /\ UNCHANGED <<connection, vault, callback>>
  <2>1. PICK q \in Requests : q.op # "delete" /\ request' = [request EXCEPT ![v] = q]
    BY <1>2 DEF Ask, Fresh
  <2> QED
    BY <1>2, <2>1 DEF Ask, Deleting, Asks, RowOf, connectionVars
<1>3. UNCHANGED request => NoneBegins
  BY DEF Deleting, Asks, RowOf
<1>4. ASSUME NEW v \in Users, Delete(v)
      PROVE  /\ RowOf(v) \in Rows /\ Deleting(v, RowOf(v)) /\ NoneBegins
             /\ \/ DeleteCredentials(RowOf(v))
                \/ UNCHANGED <<connection, vault, callback>>
  <2>1. request[v] # NoRequest /\ request[v].op = "delete"
    BY <1>4 DEF Delete, Asks
  <2>2. RowOf(v) \in Rows
    BY <2>1, RequestFields DEF RowOf, Rows
  <2> QED
    BY <1>1, <1>4, <2>1, <2>2 DEF Delete, Deleting, Asks, DeleteCredentialsFails
<1>5. ASSUME NEW v \in Users, Disconnect(v)
      PROVE  \E q \in Rows :
               /\ DisconnectRow(q) /\ Deleting(v, q)'
               /\ \A u \in Users, r \in Rows \ {q} : Deleting(u, r)' => Deleting(u, r)
  <2>1. request[v] # NoRequest /\ request[v].op = "disconnect"
    BY <1>5 DEF Disconnect, Asks
  <2>2. RowOf(v) \in Rows
    BY <2>1, RequestFields DEF RowOf, Rows
  <2>3. /\ request' = [request EXCEPT ![v] = [request[v] EXCEPT !.op = "delete"]]
        /\ DisconnectRow(RowOf(v))
    BY <1>5 DEF Disconnect
  <2>4. [request[v] EXCEPT !.op = "delete"] \in Requests
    BY <2>1, RequestFields
  <2>5. /\ request'[v].op = "delete" /\ request'[v] # NoRequest
        /\ request'[v].household = request[v].household
        /\ request'[v].inbox = request[v].inbox
    <3>1. request[v] \in [op : {"disconnect", "delete"}, household : HouseholdIds,
                          inbox : Inboxes]
      BY <2>1 DEF Requests, OwnerRequests, EditRequests
    <3>2. request'[v] = [request[v] EXCEPT !.op = "delete"]
      BY <2>3
    <3>3. request'[v] # NoRequest
      BY <2>4, <3>2, NoRequestAssumption
    <3> QED
      BY <3>1, <3>2, <3>3
  <2>6. \A u \in Users \ {v} : request'[u] = request[u]
    BY <2>3
  <2>7. PICK q \in Rows : q = RowOf(v)
    BY <2>2
  <2>8. RowOf(v)' = q
    BY <2>5, <2>7 DEF RowOf
  <2>9. Deleting(v, q)'
    BY <2>5, <2>8 DEF Deleting, Asks
  <2>10. \A u \in Users, r \in Rows \ {q} : Deleting(u, r)' => Deleting(u, r)
    BY <2>6, <2>8 DEF Deleting, Asks, RowOf
  <2> QED
    BY <2>3, <2>7, <2>9, <2>10
<1>6. ASSUME NEW v \in Users, Serve(v), ~Delete(v), ~Disconnect(v)
      PROVE  NoneBegins /\ UNCHANGED <<connection, vault, callback>>
  BY <1>1, <1>6 DEF Serve, Invite, ShowInvitations, Revoke, ChangeRole, Remove, Authorize,
       Conflict, CreateOAuthState, connectionVars
<1>7. CASE Unasked \/ UNCHANGED vars
  BY <1>3, <1>7 DEF Unasked, Found, Accept, connectionVars, vars
<1>8. CASE Connecting
  BY <1>3, <1>8 DEF Connecting, StateExpires
<1>9. ASSUME NEW v \in Users, Serve(v)
      PROVE  \/ Delete(v) \/ Disconnect(v)
             \/ NoneBegins /\ UNCHANGED <<connection, vault, callback>>
  BY <1>6, <1>9
<1> HIDE DEF NoneBegins
<1>10. CASE \E v \in Users : Ask(v) \/ Serve(v)
  <2>1. PICK v \in Users : Ask(v) \/ Serve(v)
    BY <1>10
  <2>2. CASE NoneBegins /\ UNCHANGED <<connection, vault, callback>>
    BY <2>2 DEF NoneBegins
  <2>3. CASE Delete(v)
    BY <1>4, <2>3 DEF NoneBegins
  <2>4. CASE Disconnect(v)
    BY <1>5, <2>4
  <2> QED
    BY <1>2, <1>9, <2>1, <2>2, <2>3, <2>4
<1> QED
  BY <1>7, <1>8, <1>10 DEF Next, NoneBegins

(* A row that no step has made contested stays in step with the vault.     *)
LEMMA InStepKept ==
  ASSUME ConnectionsInv, RequestsTyped, InStep, [Next]_vars
  PROVE  InStep'
<1> USE DEF ConnectionsInv, ConnectionsTypeOK
<1>0. contested' \subseteq Rows
  BY DEF InStep, Next, Observe, vars
<1>1. ASSUME NEW r \in Rows \ contested'
      PROVE  r \in Rows \ contested /\ KeptInStep(r)
  BY <1>1 DEF InStep, Next, Observe, vars
<1>2. ASSUME NEW r \in Rows \ contested'
      PROVE  ~Contended(r)'
  <2>1. CASE Observe
    BY <1>2, <2>1 DEF Observe
  <2>2. CASE UNCHANGED vars
    <3>1. ~Contended(r)
      BY <1>1, <1>2 DEF KeptInStep
    <3>2. /\ \A k \in Callbacks : Attaching(k, r)' <=> Attaching(k, r)
          /\ \A u \in Users : Deleting(u, r)' <=> Deleting(u, r)
      BY <2>2 DEF vars, connectionVars, Attaching, Target, Deleting, Asks, RowOf
    <3> QED
      BY <3>1, <3>2, Zenon DEF Contended
  <2> QED
    BY <2>1, <2>2 DEF Next
<1>3. SUFFICES ASSUME NEW r \in Rows \ contested'
               PROVE  /\ connection'[r] = "connected" => r \in vault'
                      /\ \A k \in Callbacks :
                           /\ Reconnects(k, r)' => r \in vault'
                           /\ Attaching(k, r)' /\ callback'[k].stage \in {"store", "connect"}
                              => connection'[r] # "connected"
                      /\ \A u \in Users : Deleting(u, r)' => connection'[r] # "connected"
  BY <1>0, <1>2 DEF InStep, KeptInStep
<1> DEFINE Kept == /\ connection'[r] = "connected" => r \in vault'
                   /\ \A k \in Callbacks :
                        /\ Reconnects(k, r)' => r \in vault'
                        /\ Attaching(k, r)' /\ callback'[k].stage \in {"store", "connect"}
                           => connection'[r] # "connected"
                   /\ \A u \in Users : Deleting(u, r)' => connection'[r] # "connected"
<1>4. /\ ~Contended(r) /\ ~Contended(r)'
      /\ connection[r] = "connected" => r \in vault
      /\ \A k \in Callbacks :
           /\ Reconnects(k, r) => r \in vault
           /\ Attaching(k, r) /\ callback[k].stage \in {"store", "connect"}
              => connection[r] # "connected"
      /\ \A u \in Users : Deleting(u, r) => connection[r] # "connected"
  BY <1>1, <1>2, <1>3 DEF KeptInStep
<1>r. r \in Rows
  BY <1>3
<1>5. ASSUME UNCHANGED <<connection, vault, callback>>,
             \A u \in Users : Deleting(u, r)' => Deleting(u, r)
      PROVE  Kept
  BY <1>4, <1>5 DEF Reconnects, Attaching, Target
<1>6. ASSUME NEW x \in Uses, Using(x), \A u \in Users : Deleting(u, r)' => Deleting(u, r)
      PROVE  Kept
  <2>1. /\ UNCHANGED callback
        /\ vault \subseteq vault'
        /\ connection'[r] \in {connection[r], "reauthorization_required"}
    <3>1. use[x].row \in Rows
      BY DEF Use
    <3> QED
      BY <1>6, <3>1 DEF Using, BeginUse, ReadCredentials, CredentialsMissing, StillFresh,
                        Refresh, RefreshRefused
  <2> QED
    BY <1>4, <1>6, <2>1 DEF Reconnects, Attaching, Target
<1>7. ASSUME NEW v \in Users, NEW q \in Rows, DisconnectRow(q), Deleting(v, q)',
             \A u \in Users, p \in Rows \ {q} : Deleting(u, p)' => Deleting(u, p)
      PROVE  Kept
  <2>1. /\ UNCHANGED <<vault, callback>>
        /\ connection' = [connection EXCEPT ![q] = "disconnected"]
    BY <1>7 DEF DisconnectRow
  <2>3. CASE r = q
    <3>1. connection'[r] # "connected"
      BY <1>r, <2>1, <2>3
    <3> QED
      BY <1>4, <2>1, <3>1 DEF Reconnects, Attaching, Target
  <2>4. CASE r # q
    <3>1. connection'[r] = connection[r] /\ vault' = vault
      BY <1>r, <2>1, <2>4
    <3>2. \A u \in Users : Deleting(u, r)' => Deleting(u, r)
      BY <1>r, <1>7, <2>4
    <3> QED
      BY <1>4, <2>1, <3>1, <3>2 DEF Reconnects, Attaching, Target
  <2> QED
    BY <2>3, <2>4
<1>8. ASSUME NEW v \in Users, NEW q \in Rows, DeleteCredentials(q), Deleting(v, q),
             \A u \in Users, p \in Rows : Deleting(u, p)' => Deleting(u, p)
      PROVE  Kept
  <2>1. /\ UNCHANGED <<connection, callback>>
        /\ vault' = vault \ {q}
    BY <1>8 DEF DeleteCredentials
  <2>3. ASSUME r = q
        PROVE  connection[r] # "connected" /\ \A k \in Callbacks : ~Attaching(k, r)
    BY <1>4, <1>8, <2>3 DEF Contended
  <2>4. \A u \in Users : Deleting(u, r)' => Deleting(u, r)
    BY <1>r, <1>8
  <2>5. CASE r = q
    <3>1. \A k \in Callbacks : ~Attaching(k, r)' /\ ~Reconnects(k, r)'
      BY <2>1, <2>3, <2>5 DEF Reconnects, Attaching, Target
    <3>2. connection'[r] # "connected"
      BY <2>1, <2>3, <2>5
    <3> QED
      BY <3>1, <3>2, Zenon
  <2>6. CASE r # q
    <3>1. connection'[r] = connection[r] /\ (r \in vault' <=> r \in vault)
      BY <2>1, <2>6
    <3> QED
      BY <1>4, <2>1, <2>4, <3>1 DEF Reconnects, Attaching, Target
  <2> QED
    BY <2>5, <2>6
<1>9. ASSUME NEW k \in Callbacks, Callbacking(k),
             \A u \in Users : Deleting(u, r)' => Deleting(u, r)
      PROVE  Kept
  <2>0. Target(k) \in Rows
    BY TargetIsRow
  <2>1. \A j \in Callbacks \ {k} : callback'[j] = callback[j]
    BY <1>9, CallbackEffects
  <2>2. ASSUME Attaching(k, r)
        PROVE  /\ \A j \in Callbacks \ {k} : ~Attaching(j, r)
               /\ \A u \in Users : ~Deleting(u, r)
    BY <1>4, <2>2 DEF Contended
  <2>3. SUFFICES /\ connection'[r] = "connected" => r \in vault'
                 /\ Reconnects(k, r)' => r \in vault'
                 /\ Attaching(k, r)' /\ callback'[k].stage \in {"store", "connect"}
                    => connection'[r] # "connected"
                 /\ ~Attaching(k, r) => connection'[r] = connection[r] /\ (r \in vault => r \in vault')
    <3>1. CASE Attaching(k, r)
      <4>1. \A j \in Callbacks \ {k} : ~Attaching(j, r)' /\ ~Reconnects(j, r)'
        BY <2>1, <2>2, <3>1 DEF Reconnects, Attaching, Target
      <4>2. \A u \in Users : ~Deleting(u, r)'
        BY <1>9, <2>2, <3>1
      <4> QED
        BY <2>3, <4>1, <4>2, Zenon
    <3>2. CASE ~Attaching(k, r)
      <4>1. connection'[r] = connection[r] /\ (r \in vault => r \in vault')
        BY <2>3, <3>2
      <4>2. \A j \in Callbacks \ {k} :
               /\ Reconnects(j, r)' => r \in vault'
               /\ Attaching(j, r)' /\ callback'[j].stage \in {"store", "connect"}
                  => connection'[r] # "connected"
        BY <1>4, <2>1, <4>1 DEF Reconnects, Attaching, Target
      <4>3. \A u \in Users : Deleting(u, r)' => connection'[r] # "connected"
        BY <1>4, <1>9, <4>1, Zenon
      <4> QED
        BY <2>3, <4>2, <4>3, Zenon
    <3> QED
      BY <3>1, <3>2
  <2>4. CASE /\ callback'[k].stage \in {"idle", "exchange"}
             /\ UNCHANGED <<connection, vault>>
    BY <1>4, <2>4 DEF Reconnects, Attaching
  <2>5. CASE /\ callback'[k].stage = "attach"
             /\ callback'[k].prior = connection[Target(k)']
             /\ UNCHANGED <<connection, vault>>
    BY <1>4, <2>5 DEF Reconnects, Attaching
  <2>6. CASE Attach(k)
    <3>1. /\ callback'[k].stage = "store" /\ callback'[k].prior = callback[k].prior
          /\ Target(k)' = Target(k) /\ Attaching(k, Target(k))
          /\ connection' = [connection EXCEPT ![Target(k)] = "pending"]
          /\ UNCHANGED vault
      BY <2>6, AttachWrites
    <3> QED
      BY <1>4, <2>0, <3>1 DEF Reconnects, Attaching
  <2>7. CASE StoreCredentials(k)
    <3>1. /\ callback'[k].stage = "connect" /\ callback[k].stage = "store"
          /\ Target(k)' = Target(k) /\ Attaching(k, Target(k))
          /\ vault' = vault \cup {Target(k)}
          /\ UNCHANGED connection
      BY <2>7, StoreWrites
    <3> QED
      BY <1>4, <3>1 DEF Reconnects, Attaching
  <2>8. CASE StoreCredentialsFails(k)
    <3>1. /\ callback'[k].stage = "idle" /\ Attaching(k, Target(k))
          /\ connection' = [connection EXCEPT ![Target(k)] =
                              IF callback[k].prior = "none" THEN "disconnected"
                                                            ELSE callback[k].prior]
          /\ UNCHANGED vault
      BY <2>8, StoreFailsWrites
    <3>2. Attaching(k, r) => r = Target(k)
      BY DEF Attaching
    <3>3. r = Target(k) /\ callback[k].prior = "connected" => r \in vault
      BY <1>4, <3>1 DEF Reconnects
    <3> QED
      BY <1>4, <2>0, <3>1, <3>2, <3>3 DEF Reconnects, Attaching
  <2>9. CASE Connect(k)
    <3>1. /\ callback'[k].stage = "idle" /\ Reconnects(k, Target(k))
          /\ connection' = [connection EXCEPT ![Target(k)] = "connected"]
          /\ UNCHANGED vault
      BY <2>9, ConnectWrites
    <3> QED
      BY <1>4, <2>0, <3>1 DEF Reconnects, Attaching
  <2>10. CASE ConnectFails(k)
    <3>1. /\ callback'[k].stage = "idle" /\ Attaching(k, Target(k))
          /\ callback[k].stage = "connect"
          /\ vault' = vault \ {Target(k)}
          /\ UNCHANGED connection
      BY <2>10, ConnectFailsWrites
    <3> QED
      BY <1>4, <3>1 DEF Reconnects, Attaching
  <2> QED
    BY <1>9, <2>4, <2>5, <2>6, <2>7, <2>8, <2>9, <2>10, CallbackEffects
<1> QED
  BY <1>r, <1>5, <1>6, <1>7, <1>8, <1>9, RequestSteps

LEMMA HouseholdStep == HouseholdInv /\ [Next]_vars => HouseholdInv'
BY HouseholdParts, MembershipKept, ConnectionsKept, InStepKept DEF HouseholdInv

LEMMA HouseholdInvariant == Spec => []HouseholdInv
BY HouseholdInit, HouseholdStep, PTL DEF Spec

(* Every table, frame and request keeps its form.                          *)
THEOREM HouseholdsTyped == Spec => []TypeOK
<1>1. HouseholdInv => TypeOK
  BY DEF HouseholdInv, MembershipInv, ConnectionsInv, RequestsTyped, InStep, TypeOK
<1> QED
  BY <1>1, HouseholdInvariant, PTL

(* However many owners a household has and however their requests overlap, *)
(* one of them stays an owner.                                             *)
THEOREM HouseholdsKeepOwners == Spec => []OwnerRemains
<1>1. HouseholdInv => OwnerRemains
  BY DEF HouseholdInv, MembershipInv
<1> QED
  BY <1>1, HouseholdInvariant, PTL

(* For any number of users, invitations and shared addresses, an address   *)
(* stands for one member or one pending invitation of a household.         *)
THEOREM AddressesHaveOneSeat == Spec => []OneSeatPerAddress
<1>1. HouseholdInv => OneSeatPerAddress
  BY DEF HouseholdInv, MembershipInv
<1> QED
  BY <1>1, HouseholdInvariant, PTL

(* For any number of households and callbacks that race for an inbox, its  *)
(* credentials are kept for the household it is attached to and no other.  *)
THEOREM CredentialsHaveOneKeeper == Spec => []OneKeeper
<1>1. HouseholdInv => OneKeeper
  <2> SUFFICES ASSUME HouseholdInv, NEW r \in vault, NEW h \in HouseholdIds
               PROVE  connection[<<h, r[2]>>] # "none" <=> h = r[1]
    BY DEF OneKeeper
  <2>1. /\ r \in Rows /\ connection[r] # "none"
        /\ OneHousehold
    BY DEF HouseholdInv, ConnectionsInv, ConnectionsTypeOK, VaultHasRows
  <2>2. r = <<r[1], r[2]>> /\ r[1] \in HouseholdIds /\ r[2] \in Inboxes
    BY <2>1 DEF Rows
  <2>3. connection[<<r[1], r[2]>>] # "none"
    BY <2>1, <2>2
  <2> QED
    BY <2>1, <2>2, <2>3 DEF OneHousehold
<1> QED
  BY <1>1, HouseholdInvariant, PTL

(* For any number of callbacks, requests, faults and users of the          *)
(* credentials: an account whose callbacks and disconnects never           *)
(* overlapped has credentials whenever it is shown as connected.           *)
THEOREM ConnectedAccountsHaveCredentials == Spec => []ConnectedHasCredentials
<1>1. HouseholdInv => ConnectedHasCredentials
  BY DEF HouseholdInv, InStep, KeptInStep, ConnectedHasCredentials
<1> QED
  BY <1>1, HouseholdInvariant, PTL

(* For any number of callbacks and users of the credentials: a disconnect  *)
(* that overlapped none of them is final until a callback stores new       *)
(* credentials, whatever later callbacks fail at.                          *)
THEOREM DisconnectsForget == Spec => []DisconnectForgets
<1>1. HouseholdInv => DisconnectForgets
  BY DEF HouseholdInv, ConnectionsInv, ForgottenIsLeftAlone, DisconnectForgets
<1> QED
  BY <1>1, HouseholdInvariant, PTL

=============================================================================
