\* Two nodes of two organizations, two connection ids, two requests in flight.
SPECIFICATION SequenceSpec
CONSTANTS
  n1 = n1  n2 = n2  admin1 = admin1  admin2 = admin2  root1 = root1
  org1 = org1  org2 = org2  c1 = c1  c2 = c2
  k1 = k1  k2 = k2  k3 = k3  h1 = h1  h2 = h2  None = None
  Nodes <- TwoNodes
  InternalNodes <- Internal
  OrgOf <- Owner
  Users <- Everyone
  UserOrg <- OrgOfUser
  RoleOf <- RoleOfUser
  ConnIds <- TwoIds
  Creds <- ThreeCreds
  Requests <- TwoSlots
CHECK_DEADLOCK FALSE
SYMMETRY Symm
INVARIANTS TypeOK InFlight RowsBacked OnePerPair NoDangling TokenProvenance InsertFindsPairFreeInSequence
PROPERTIES NoRevival ImplementsLifecycle StrictLifecycleInSequence
