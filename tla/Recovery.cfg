SPECIFICATION Spec
CONSTANTS
    Name = {n1, n2}
    None = None
    MaxId = 1
    MaxValue = 2
    MaxCommits = 4
    MaxSaves = 2
    MaxCrashes = 2
SYMMETRY Symmetry
INVARIANTS
    RecoversCommitted
    LoadedIsOnDisk
CHECK_DEADLOCK FALSE
