----------------------------- MODULE Membership -----------------------------
(***************************************************************************)
(* Households, their members and the invitations to them, as the SQLite    *)
(* store keeps them.  Every method runs one transaction, so each is one    *)
(* atomic operator; the requests that interleave them are in Households.   *)
(*                                                                         *)
(* A membership row holds the address its user signed in with: creating a  *)
(* household stores it, accepting an invitation compares it.  Several      *)
(* users may have had the same address one after the other.                *)
(***************************************************************************)
EXTENDS Naturals, FiniteSets

CONSTANTS
  HouseholdIds,
  Users,         \* subjects of the identity provider
  Addresses,     \* normalized email addresses
  AddressOf,     \* the verified address a user signs in with
  Invitations    \* rows of the invitations table

ASSUME AddressAssumption ==
  /\ HouseholdIds # {} /\ Addresses # {}
  /\ IsFiniteSet(Users)
  /\ AddressOf \in [Users -> Addresses]

VARIABLES
  households,    \* the households table
  role,          \* the memberships table
  invitation     \* the invitations table

membershipVars == <<households, role, invitation>>

-----------------------------------------------------------------------------

Roles == {"owner", "editor", "viewer"}

(* passed: expires_at lies in the past, whatever the status says.          *)
Invitation == [status    : {"unused", "pending", "accepted", "revoked", "expired"},
               household : HouseholdIds,
               address   : Addresses,
               role      : {"editor", "viewer"},
               passed    : BOOLEAN]

MembershipTypeOK ==
  /\ households \subseteq HouseholdIds
  /\ role \in [HouseholdIds -> [Users -> Roles \cup {"none"}]]
  /\ invitation \in [Invitations -> Invitation]

Owners(h) == {u \in Users : role[h][u] = "owner"}

IsMember(h, u) == role[h][u] # "none"

Seated(h, a) == \E u \in Users : IsMember(h, u) /\ AddressOf[u] = a

Pending(h, a) == {i \in Invitations : /\ invitation[i].status = "pending"
                                      /\ invitation[i].household = h
                                      /\ invitation[i].address = a}

-----------------------------------------------------------------------------
(* Transactions                                                            *)

CreateHousehold(h, u) ==
  /\ h \notin households
  /\ households' = households \cup {h}
  /\ role' = [role EXCEPT ![h][u] = "owner"]
  /\ UNCHANGED invitation

(* Mistake: only the pending invitations are looked at.                    *)
InvitableTwice(h, a) == h \in households /\ Pending(h, a) = {}

(* The unique index on pending invitations counts one that has passed and  *)
(* that nobody has marked.                                                 *)
Invitable(h, a) == h \in households /\ ~Seated(h, a) /\ Pending(h, a) = {}

CreateInvitation(i, h, a, r) ==
  /\ Invitable(h, a)
  /\ invitation' = [invitation EXCEPT ![i] =
                      [status |-> "pending", household |-> h, address |-> a,
                       role |-> r, passed |-> FALSE]]
  /\ UNCHANGED <<households, role>>

ListInvitations(h) ==
  /\ invitation' =
       [i \in Invitations |->
          IF /\ invitation[i].household = h
             /\ invitation[i].status = "pending"
             /\ invitation[i].passed
          THEN [invitation[i] EXCEPT !.status = "expired"]
          ELSE invitation[i]]
  /\ UNCHANGED <<households, role>>

Revocable(h, i) == invitation[i].household = h /\ invitation[i].status = "pending"

(* Mistake: a status the table does not know.                              *)
WithdrawInvitation(h, i) ==
  /\ Revocable(h, i)
  /\ invitation' = [invitation EXCEPT ![i].status = "withdrawn"]
  /\ UNCHANGED <<households, role>>

RevokeInvitation(h, i) ==
  /\ Revocable(h, i)
  /\ invitation' = [invitation EXCEPT ![i].status = "revoked"]
  /\ UNCHANGED <<households, role>>

AcceptInvitation(u, i) ==
  LET h == invitation[i].household IN
  /\ invitation[i].status = "pending"
  /\ ~invitation[i].passed
  /\ AddressOf[u] = invitation[i].address
  /\ ~IsMember(h, u)
  /\ ~Seated(h, invitation[i].address)
  /\ invitation' = [invitation EXCEPT ![i].status = "accepted"]
  /\ role' = [role EXCEPT ![h][u] = invitation[i].role]
  /\ UNCHANGED households

(* The status is committed before the conflict is reported.                *)
AcceptTooLate(i) ==
  /\ invitation[i].status = "pending"
  /\ invitation[i].passed
  /\ invitation' = [invitation EXCEPT ![i].status = "expired"]
  /\ UNCHANGED <<households, role>>

(* Mistake: off by one.                                                    *)
SomeOwner(h, u) == role[h][u] = "owner" => Cardinality(Owners(h)) >= 1

(* _require_not_last_owner.                                                *)
NotLastOwner(h, u) == role[h][u] = "owner" => Cardinality(Owners(h)) > 1

Changeable(h, u, r) == IsMember(h, u) /\ (r # "owner" => NotLastOwner(h, u))

ChangeMemberRole(h, u, r) ==
  /\ Changeable(h, u, r)
  /\ role' = [role EXCEPT ![h][u] = r]
  /\ UNCHANGED <<households, invitation>>

Removable(h, u) == IsMember(h, u) /\ NotLastOwner(h, u)

RemoveMember(h, u) ==
  /\ Removable(h, u)
  /\ role' = [role EXCEPT ![h][u] = "none"]
  /\ UNCHANGED <<households, invitation>>

(* Time.                                                                   *)
InvitationPasses(i) ==
  /\ invitation[i].status = "pending"
  /\ ~invitation[i].passed
  /\ invitation' = [invitation EXCEPT ![i].passed = TRUE]
  /\ UNCHANGED <<households, role>>

-----------------------------------------------------------------------------
(* Properties                                                              *)

(* A household always has an owner, whichever owners demote and remove     *)
(* each other at the same time.                                            *)
OwnerRemains == \A h \in households : Owners(h) # {}

(* In a household an address stands for one seat: one member has it, or    *)
(* one invitation offers it.  A member who is removed therefore has no     *)
(* invitation left to come back with, and nobody is invited twice.         *)
OneSeatPerAddress ==
  \A h \in HouseholdIds, a \in Addresses :
    /\ \A i, j \in Pending(h, a) : i = j
    /\ \A u, v \in Users : /\ IsMember(h, u) /\ AddressOf[u] = a
                          /\ IsMember(h, v) /\ AddressOf[v] = a
                          => u = v
    /\ Seated(h, a) => Pending(h, a) = {}

=============================================================================
