\* Four elements, jobs in any order.
SPECIFICATION Spec
CONSTANTS
  e1 = e1  e2 = e2  e3 = e3  e4 = e4
  Element = {e1, e2, e3, e4}
  Null = Null
  Weight = {1, 2}
  MaxList = 2
  MaxBulk = 1
  MaxJobs = 3
  Initial <- MCInitial
  Batches <- MCBatches
SYMMETRY Symmetry
INVARIANTS HierarchySound ReplayAgrees
PROPERTIES InfoFollows StringFlagsFollow StringsKept
CHECK_DEADLOCK FALSE
