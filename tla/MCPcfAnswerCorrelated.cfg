\* A request to an external partner that answers at once.
CONSTANTS
  None = None
  a = a b = b x = x ab = ab ba = ba ax = ax xa = xa
  s1 = s1 s2 = s2
  Nodes = {a, x}
  External = {x}
  ConnIds = {ax, xa}
  LinkOf <- PartnerLinks
  Events = {e1}
  Pfs = {p1}
  Slots = {s1, s2}
  Authors = {a}
  Aliases = {}
CHECK_DEADLOCK FALSE
SPECIFICATION Spec
INVARIANT AnswerCorrelated
