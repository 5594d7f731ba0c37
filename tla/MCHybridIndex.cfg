SPECIFICATION Spec
CONSTANTS
  Threads = {t1, t2}
  Chunks = {1, 2, 3}
  PageSize = 1
  NoThread = NoThread
SYMMETRY ThreadSymmetry
INVARIANT SearchCoversOwed
PROPERTY SparseOnlyGrows
