\* Three jobs, any mix of the element jobs on a dimension of two elements, or
\* the dimension is renamed while jobs move its elements, one by one or in bulk.
SPECIFICATION Spec
CONSTANTS
  alpha = alpha  beta = beta  gamma = gamma
  j1 = j1  j2 = j2  j3 = j3
  Job = {j1, j2, j3}
  NoJob = NoJob
  Name = {alpha, beta, gamma}
  LoadedName = alpha
  Loaded <- MCLoaded
  Assignments <- MCAll
  COMMIT_REPEATS = 2
  COMMIT_REPEATS_CELL_REPLACE = 2
SYMMETRY Symmetry
INVARIANTS InStepAtRest FreeSlotsAreFree
PROPERTIES OthersLeaveReaders ImplementsElementOrder
