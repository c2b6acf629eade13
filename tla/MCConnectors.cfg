SPECIFICATION Spec
CONSTANTS
  Requests = {r1, r2}
  Null = Null
  Window = 1
  Records = 2
  MaxCopies = 2
  MaxTime = 2
  Calls = {c1, c2}
  Names = {1, 2, 3, 4}
  Batch = 2
  MaxUploads = 1
SYMMETRY Symmetry
CHECK_DEADLOCK FALSE
INVARIANTS ExportsAreWhole ErasuresAreWhole
 
