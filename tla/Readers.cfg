SPECIFICATION ReadersSpec

CONSTANTS
  Limit = 3
  Budget = 5
  Length = {0, 1, 2, 4}
  MaxHistory = 6
  Row = {a, b, c, d}
  a = a
  b = b
  c = c
  d = d
  PageLimit = 2
  MaxMoves = 2

SYMMETRY RowSymmetry
INVARIANTS
  CurrentExcluded
  NewestThatFit
  PagingInv
  PageAsPromised
  MissedPaidFor
  RevocationHolds
