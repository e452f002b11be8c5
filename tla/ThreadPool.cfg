\* Two threads, of which one may wait for jobs, and two connections: enough
\* for requests that wait for writerslock to take every other thread.  A pool
\* that stops in any other way breaks EveryRequestServed or ShutdownEnds.
SPECIFICATION FairSpec
CONSTANTS
  Thread = {t1, t2}
  NoThread = NoThread
  processorCount = 1
  Connection = {c1, c2}
  Main = Main
  Operation = {"aggregate", "commit"}
  MaxJobs = 2
  MaxRequests = 3
  SizeModulus = 16
CHECK_DEADLOCK FALSE
INVARIANTS
  TaskForEveryWakeup
  ParentsWithinProcessors
  GroupOutlivesJobs
  OneRequestEach
PROPERTIES
  EveryRequestServed
  ShutdownEnds
