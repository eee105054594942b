\* Two internal nodes, one request between them, two handlers in flight.
CONSTANTS
  None = None
  a = a b = b x = x ab = ab ba = ba ax = ax xa = xa
  s1 = s1 s2 = s2
  Nodes = {a, b}
  External = {}
  ConnIds = {ab, ba}
  LinkOf <- LocalLinks
  Events = {e1}
  Pfs = {p1}
  Slots = {s1, s2}
  Authors = {b}
  Aliases = {}
SYMMETRY Symm
CHECK_DEADLOCK FALSE
SPECIFICATION SequenceSpec
INVARIANTS RowsMatchAsk OffersArrive
PROPERTIES ImplementsPcfLifecycle OneAnswerInSequence SourceKept
