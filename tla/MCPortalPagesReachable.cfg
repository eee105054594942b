\* A listing that counts nothing, on pages of two.
CONSTANTS
  None = None
  all = all  a = a  s1 = s1  s2 = s2
  Rows = {1, 2, 3, 4, 5}
  Name <- MCName
  Orders <- MCOrders
  Enabled = {1}
  Deleted = {3, 4, 5}
  Terms <- TwoTerms
  NoTerm = all
  Match <- MCMatch
  PageSize = 2
  Sources = {"tests"}
  Slots = {s1, s2}
SYMMETRY Symm
CHECK_DEADLOCK FALSE
SPECIFICATION Spec
INVARIANT PagesReachable
