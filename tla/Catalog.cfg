\* Three jobs, any mix of the jobs on dimensions and cubes.
SPECIFICATION Spec
CONSTANTS
  alpha = alpha  beta = beta  gamma = gamma
  j1 = j1  j2 = j2  j3 = j3
  Job = {j1, j2, j3}
  NoJob = NoJob
  Name = {alpha, beta, gamma}
  Loaded <- MCLoaded
  FirstId <- MCFirstId
  Assignments <- MCAll
  COMMIT_REPEATS = 2
SYMMETRY Symmetry
INVARIANTS
  NamesUnique SystemObjectsInStep CubesKeepDimensions
PROPERTIES ImplementsCatalogue
