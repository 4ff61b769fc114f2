SPECIFICATION Spec
CONSTANTS
  r1 = r1
  r2 = r2
  u1 = u1
  u2 = u2
  t1 = t1
  t2 = t2
  Requests = {r1, r2}
  Ids = {u1, u2}
  Names = {"admin", "kim"}
  Admin = "admin"
  Tokens = {t1, t2}
  RowIds = {1, 2}
  MaxWrites = 1
  MaxOutside = 0
INVARIANTS RowsHaveOwners 
PROPERTIES DeletionSparesWork
CHECK_DEADLOCK FALSE
SYMMETRY RequestSymmetry
