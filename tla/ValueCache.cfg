SPECIFICATION Spec
CONSTANTS
    Cube <- MCCube
    Listed <- MCListed
    Source <- MCSource
    plan = plan
    rates = rates
    base = base
    None = None
    Area = {a1, a2}
    Reader = {r1, r2}
    Writer = {w1}
SYMMETRY Symmetry
INVARIANTS
    StaleOnlyByOverlap
    OwnPartOfVersion
CHECK_DEADLOCK FALSE
