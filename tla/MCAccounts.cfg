\* A founder and a colleague, two tokens, two requests in flight.
CONSTANTS
  None = None
  ann = ann
  bob = bob
  Users = {ann, bob}
  Founder <- OneOrganization
  Tokens = {t1, t2}
  Slots = {s1, s2}
  Bodies <- BodiesOfRequests
SYMMETRY TokenSymmetry
CONSTRAINT OneRoleEach
CHECK_DEADLOCK FALSE
SPECIFICATION Spec
INVARIANTS TypeOK  SetupTokenOnceInSequence
PROPERTIES LastOnesKeptInSequence DisabledStaysInSequence
