\* Five requests of up to three users on a cube of two cells, in the nine
\* combinations of MCCubeLock.
SPECIFICATION Spec
CONSTANTS
  anne = anne  bert = bert  root = root
  c1 = c1  c2 = c2
  j1 = j1  j2 = j2  j3 = j3  j4 = j4  j5 = j5
  Job = {j1, j2, j3, j4, j5}
  User = {anne, bert, root}
  SysOp = {root}
  Cell = {c1, c2}
  Loaded = Loaded
  Assignments <- MCAll
  COMMIT_REPEATS = 2
  COMMIT_REPEATS_CELL_REPLACE = 2
CHECK_DEADLOCK FALSE
INVARIANTS LocksHeld UndoRestoresArea
