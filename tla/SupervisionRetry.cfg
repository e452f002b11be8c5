\* A write of another user makes the supervised write repeat.  No crashes.
SPECIFICATION Spec
CONSTANTS
  NoJob = NoJob
  Job = {a, p}
  Supervised = {a}
  EventWrites = 2
  maxFailures = 2
  MaxCrashes = 0
  MaxLate = 0
INVARIANTS
  CallerCommits
CHECK_DEADLOCK FALSE
