---------------------------- MODULE MCHouseholds ----------------------------
(***************************************************************************)
(* A small instance of Households for TLC: a household of two owners, a    *)
(* third user, who has the address of one of them and may found another    *)
(* household or be invited, and one Gmail inbox.                           *)
(***************************************************************************)
EXTENDS Households, TLC

CONSTANTS h1, h2, u1, u2, u3, a1, a2

MCAddressOf == [u \in Users |-> IF u = u1 THEN a1 ELSE a2]

MCFirstOwners == [h \in HouseholdIds |-> IF h = h1 THEN {u1, u2} ELSE {}]

MCProviderOf == [b \in Inboxes |-> "gmail"]

(* Rows not yet used are alike, and so are the calls of the callback route. *)
MCSymmetry ==
  Permutations(States) \cup Permutations(Callbacks) \cup Permutations(Invitations)

=============================================================================
