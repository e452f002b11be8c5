SPECIFICATION FairSpec
CONSTANTS
  Dimension = {d1, d2}
  Storage = {n1}
  StructureJob = {s1}
  CellJob = {c1, c2}
  DestroyJob = {x1}
  NoJob = NoJob
  COMMIT_REPEATS = 5
  COMMIT_REPEATS_CELL_REPLACE = 2
  TokenModulus = 7
  StartTokens = {5}
INVARIANTS
  NoLostUpdate
  AtomicVersions
  RetryMeansProgress
  PessimisticCellSucceeds
  TokensIdentifyVersions
PROPERTIES
  NeverBack
  EveryJobEnds
  ImplementsAtomicServer
