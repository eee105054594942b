\* Five rows, two of one name, on pages of two; a term that matches two rows; two loads under way.
CONSTANTS
  None = None
  all = all  a = a  s1 = s1  s2 = s2
  Rows = {1, 2, 3, 4, 5}
  Name <- MCName
  Orders <- MCOrders
  Enabled = {1}
  Deleted = {3, 4, 5}
  Terms <- TwoTerms
  NoTerm = all
  Match <- MCMatch
  PageSize = 2
  Sources = {"query"}
  Slots = {s1, s2}
CONSTRAINT OneLoadBesides
SYMMETRY Symm
CHECK_DEADLOCK FALSE
SPECIFICATION Spec
INVARIANTS TypeOK SelectionIsShown ShowsTheOutcome CountedPagesReachable SearchCatchesUp
