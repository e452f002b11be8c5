\* The jobs end: the server stops when all have.
SPECIFICATION FairSpec
CONSTANTS
  NoJob = NoJob
  Job = {a, b}
  Supervised = {a, b}
  EventWrites = 2
  maxFailures = 2
  MaxCrashes = 3
  MaxLate = 1
INVARIANTS
  EventsAreWhole
  OwnContext
PROPERTIES
  EveryJobEnds
CHECK_DEADLOCK FALSE
