\* Two internal nodes and an external partner, which may bear the number of one
\* of them in another directory; one handler and one callback in flight.
CONSTANTS
  None = None
  a = a b = b x = x ab = ab ba = ba ax = ax xa = xa
  s1 = s1 s2 = s2
  Nodes = {a, b, x}
  External = {x}
  ConnIds = {ab, ba, ax, xa}
  LinkOf <- MCLinkOf
  Events = {e1}
  Pfs = {p1}
  Slots = {s1}
  Authors = {a}
  Aliases = {b}
CHECK_DEADLOCK FALSE
SPECIFICATION FairSpec
INVARIANTS TypeOK RowsMatchAsk AnswerOnRecord
PROPERTIES ImplementsPcfLifecycle DecisionsFinish
