\* A child given another weight below a factor other than 1.
SPECIFICATION Spec
CONSTANTS
  e1 = e1  e2 = e2  e3 = e3  e4 = e4
  Element = {e1, e2, e3, e4}
  Null = Null
  Weight = {1, 2}
  MaxList = 2
  MaxBulk = 1
  MaxJobs = 3
  Initial <- MCInitial
  Batches <- MCBatches
SYMMETRY Symmetry
PROPERTIES AppendKeepsInfo
CHECK_DEADLOCK FALSE
