SPECIFICATION Spec
CONSTANTS
  h1 = h1
  h2 = h2
  u1 = u1
  u2 = u2
  u3 = u3
  a1 = a1
  a2 = a2
  HouseholdIds = {h1, h2}
  Users = {u1, u2, u3}
  Addresses = {a1, a2}
  AddressOf <- MCAddressOf
  Invitations = {i1, i2}
  FirstOwners <- MCFirstOwners
  Inboxes = {b1}
  ProviderOf <- MCProviderOf
  States = {s1, s2}
  Callbacks = {k1, k2}
  Uses = {x1}
  Faults = {"vault", "refused", "crash"}
  MaxFaults = 1
  MaxRequests = 3
  NoRequest = NoRequest
INVARIANTS
  TypeOK
  OwnerRemains
  OneSeatPerAddress
  OneKeeper
  ConnectedHasCredentials
  DisconnectForgets
SYMMETRY MCSymmetry
CHECK_DEADLOCK FALSE
