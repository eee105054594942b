\* Three rows of two kinds, pages of one or two rows.
CONSTANTS
  None = None
  r1 = r1  r2 = r2  r3 = r3  Active = Active  FR = FR  DE = DE
  DefaultLimit = 2
  ThreeYears = 3
  Rows = {r1, r2, r3}
  Data <- TwoKinds
  Filters <- TwoQueries
  Limits = {0, 1}
  Stamps = {1, 2, 3}
  Changes = 2
  Dates = {0, 1, 2, 3, 4, 5}
SYMMETRY Symm
SPECIFICATION Spec
INVARIANTS TypeOK InsertsOnlyRepeat QuietWalkIsExact LastHoldsTheEnd ValiditySplits
