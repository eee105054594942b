\* A partner of another directory that bears the number of b there.
CONSTANTS
  None = None
  a = a b = b x = x ab = ab ba = ba ax = ax xa = xa
  s1 = s1 s2 = s2
  Nodes = {a, b, x}
  External = {x}
  ConnIds = {ax, xa}
  LinkOf <- PartnerLinks
  Events = {e1}
  Pfs = {p1}
  Slots = {s1}
  Authors = {a}
  Aliases = {b}
CHECK_DEADLOCK FALSE
SPECIFICATION Spec
INVARIANT OnlyTheAskerIsServed
