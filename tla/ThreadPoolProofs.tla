-------------------------- MODULE ThreadPoolProofs --------------------------
(***************************************************************************)
(* Theorems about the thread pool, for any number of threads, processors,  *)
(* connections and jobs.                                                   *)
(***************************************************************************)
EXTENDS ThreadPool, FiniteSetTheorems, SequenceTheorems, TLAPS

Busy(t) == pc[t] \notin Idling \union {"done"}

Serves(t, c) == Busy(t) /\ job[t].kind = "request" /\ job[t].connection = c

(* A request is either in the queue, where it has not begun an operation,  *)
(* or with one thread; until it is done its connection has no other.       *)
RequestsApart ==
  /\ \A i \in DOMAIN tasks : tasks[i].kind = "request" =>
       working[tasks[i].connection] /\ operation[tasks[i].connection] = "none"
  /\ \A i, j \in DOMAIN tasks :
       i # j /\ tasks[i].kind = "request" /\ tasks[j].kind = "request" =>
         tasks[i].connection # tasks[j].connection
  /\ \A i \in DOMAIN tasks, t \in Thread :
       tasks[i].kind = "request" => ~Serves(t, tasks[i].connection)
  /\ \A t, u \in Thread, c \in Connection :
       t # u => ~(Serves(t, c) /\ Serves(u, c))
  /\ \A t \in Thread, c \in Connection : Serves(t, c) => working[c]
  /\ \A c \in Connection : ~working[c] => operation[c] = "none"
  /\ \A t \in Thread : pc[t] \in Joining => job[t].kind = "request"

IInv ==
  /\ TypeOK
  /\ RequestsApart
  /\ FreeThreadsExact
  /\ ParentsWithinProcessors
-----------------------------------------------------------------------------
(* What the steps with writerslock leave alone: everything the counts of   *)
(* the pool depend on.                                                     *)
LEMMA WriterStepMoves ==
  ASSUME NEW S, pc \in [Thread -> S], NEW t \in Thread, WriterStep(t)
  PROVE  /\ UNCHANGED <<job, pool, groups, operation, offered, divided, working,
                        main, undefined>>
         /\ pc[t] \in {"working", "locking"} /\ pc'[t] \in {"working", "locking"}
         /\ \A u \in Thread \ {t} : pc'[u] = pc[u]
         /\ pc' = [pc EXCEPT ![t] = pc'[t]]
BY DEF WriterStep, AskForWriters, GetServerCopy, LockWriters, UnlockWriters, Goto,
       requests

Free == {t \in Thread : pc[t] \in Idling \ {"starting"}}

LEMMA FreeFinite ==
  /\ IsFiniteSet(Free) /\ Cardinality(Free) \in Nat
  /\ IsFiniteSet(Free') /\ Cardinality(Free') \in Nat
  /\ threads \in Nat
BY PoolAssumption, FS_Subset, FS_CardinalityType DEF Free, threads

(* freeThreads follows the threads that become free and that take a job.   *)
LEMMA FreeThreadsKept ==
  ASSUME TypeOK, FreeThreadsExact, [Next]_vars
  PROVE  FreeThreadsExact' /\ freeThreads' \in Nat
<1> USE DEF FreeThreadsExact
<1>1. freeThreads = Cardinality(Free)
  BY DEF Free
<1>2. ASSUME NEW t \in Thread, pc' = [pc EXCEPT ![t] = pc'[t]],
             pc'[t] \in Idling \ {"starting"}, pc[t] \notin Idling \ {"starting"},
             freeThreads' = freeThreads + 1
      PROVE  FreeThreadsExact' /\ freeThreads' \in Nat
  <2>1. Free' = Free \union {t} /\ t \notin Free
    BY <1>2 DEF Free, TypeOK
  <2> QED
    BY <1>1, <1>2, <2>1, FreeFinite, FS_AddElement DEF Free
<1>3. ASSUME NEW t \in Thread, pc' = [pc EXCEPT ![t] = pc'[t]],
             pc'[t] \notin Idling, pc[t] = "woken",
             freeThreads' = freeThreads - 1
      PROVE  FreeThreadsExact' /\ freeThreads' \in Nat
  <2>1. Free' = Free \ {t} /\ t \in Free
    BY <1>3 DEF Free, TypeOK, Idling
  <2>2. IsFiniteSet(Free) /\ Cardinality(Free) \in Nat /\ t \in Free
    BY <2>1, FreeFinite
  <2>3. Cardinality(Free \ {t}) = Cardinality(Free) - 1
    BY <2>2, FS_RemoveElement
  <2>4. Cardinality(Free \ {t}) \in Nat
    BY <2>2, FS_RemoveElement, FS_CardinalityType
  <2>5. Cardinality(Free') = Cardinality(Free) - 1
    BY <2>1, <2>3
  <2>6. FreeThreadsExact'
    BY <1>1, <1>3, <2>5 DEF Free
  <2> QED
    BY <1>1, <1>3, <2>3, <2>4, <2>6
<1>4. ASSUME NEW t \in Thread, pc' = [pc EXCEPT ![t] = pc'[t]],
             pc'[t] \in Idling \ {"starting"} <=> pc[t] \in Idling \ {"starting"},
             UNCHANGED freeThreads
      PROVE  FreeThreadsExact' /\ freeThreads' \in Nat
  <2>1. Free' = Free
    BY <1>4 DEF Free, TypeOK
  <2> QED
    BY <1>1, <1>4, <2>1, FreeFinite DEF Free
<1>5. ASSUME UNCHANGED <<pc, freeThreads>>
      PROVE  FreeThreadsExact' /\ freeThreads' \in Nat
  BY <1>1, <1>5, FreeFinite DEF Free
<1>6. ASSUME NEW t \in Thread, PoolStep(t)
      PROVE  FreeThreadsExact' /\ freeThreads' \in Nat
  <2>1. CASE Start(t) \/ Finish(t)
    <3>1. /\ pc' = [pc EXCEPT ![t] = "waiting"] /\ freeThreads' = freeThreads + 1
          /\ pc[t] \in {"starting", "done", "working"}
      BY <2>1 DEF Start, Finish, Goto
    <3> QED
      BY <1>2, <3>1 DEF TypeOK, Idling
  <2>2. CASE TakeJob(t)
    <3>1. PICK l \in {"done", "working"} : pc' = [pc EXCEPT ![t] = l]
      BY <2>2 DEF TakeJob, Goto
    <3>2. pc[t] = "woken" /\ freeThreads' = freeThreads - 1
      BY <2>2 DEF TakeJob
    <3> QED
      BY <1>3, <3>1, <3>2 DEF TypeOK, Idling
  <2>3. CASE Wake(t) \/ Leave(t) \/ Throw(t)
    <3>1. PICK l \in {"woken", "gone", "done"} :
            /\ pc' = [pc EXCEPT ![t] = l] /\ UNCHANGED freeThreads
            /\ l # "done" => pc[t] \in {"waiting", "woken"}
            /\ l = "done" => pc[t] = "working"
      BY <2>3 DEF Wake, Leave, Throw, Goto, pool
    <3> QED
      BY <1>4, <3>1 DEF TypeOK, Idling
  <2> QED
    BY <1>6, <2>1, <2>2, <2>3 DEF PoolStep
<1>7. ASSUME NEW t \in Thread, RequestStep(t)
      PROVE  FreeThreadsExact' /\ freeThreads' \in Nat
  <2>1. CASE CreateThreadGroup(t) \/ JoinAgain(t)
    BY <1>5, <2>1 DEF CreateThreadGroup, JoinAgain, pool
  <2>2. CASE ~(CreateThreadGroup(t) \/ JoinAgain(t))
    <3>1. PICK l \in {"working", "offering", "releasing", "joining", "asleep",
                      "caught", "done"} :
            pc' = [pc EXCEPT ![t] = l] /\ UNCHANGED freeThreads /\ pc[t] \notin Idling
      BY <1>7, <2>2
         DEF RequestStep, Offer, Divide, AddJob, Release, StartJoin, AwaitJobs,
             WakeJoin, EndJoin, NotWorking, Goto, pool, Idling
    <3> QED
      BY <1>4, <3>1 DEF TypeOK, Idling
  <2> QED
    BY <2>1, <2>2
<1>8. CASE Proceed \/ Request \/ UNCHANGED vars
  <2>1. UNCHANGED <<pc, freeThreads>>
    BY <1>8
       DEF Proceed, Request, ReleaseAccepted, AwaitRequests, Destroy, WakeAll,
           AwaitThreads, Shutdown, Accept, vars, pool
  <2> QED
    BY <1>5, <2>1
<1>9. ASSUME NEW t \in Thread, WriterStep(t)
      PROVE  FreeThreadsExact' /\ freeThreads' \in Nat
  <2>1. pc \in [Thread -> Idling \union Joining \union
               {"working", "offering", "releasing", "caught", "locking", "done"}]
    BY DEF TypeOK
  <2>2. /\ UNCHANGED freeThreads /\ pc' = [pc EXCEPT ![t] = pc'[t]]
        /\ pc[t] \in {"working", "locking"} /\ pc'[t] \in {"working", "locking"}
    BY <1>9, <2>1, WriterStepMoves DEF pool
  <2> QED
    BY <1>4, <2>2 DEF Idling
<1> QED
  BY <1>6, <1>7, <1>8, <1>9 DEF Next, ThreadStep, Idle

(* When a request sees a free core, the threads that are not free, its own *)
(* and those of all parents among them, are no more than the processors.   *)
LEMMA ParentsKept ==
  ASSUME TypeOK, FreeThreadsExact, RequestsApart, ParentsWithinProcessors,
         [Next]_vars
  PROVE  ParentsWithinProcessors'
<1> USE DEF TypeOK
<1>1. ASSUME Parents' \subseteq Parents PROVE ParentsWithinProcessors'
  <2>1. IsFiniteSet(Parents)
    BY PoolAssumption, FS_Subset DEF Parents
  <2>2. Cardinality(Parents') <= Cardinality(Parents)
    BY <1>1, <2>1, FS_Subset
  <2>3. Cardinality(Parents) \in Nat /\ Cardinality(Parents') \in Nat
    BY <1>1, <2>1, FS_Subset, FS_CardinalityType
  <2> QED
    BY <2>2, <2>3, PoolAssumption DEF ParentsWithinProcessors
<1>2. ASSUME NEW t \in Thread, Offer(t) PROVE ParentsWithinProcessors'
  <2>1. pc' = [pc EXCEPT ![t] = "offering"] /\ pc[t] = "working"
    BY <1>2 DEF Offer, Goto
  <2>2. Parents' \subseteq Thread \ Free
    BY <2>1 DEF Parents, Free, Idling
  <2>3. Cardinality(Thread \ Free) = threads - freeThreads
    <3>1. Thread \cap Free = Free
      BY DEF Free
    <3> QED
      BY <3>1, PoolAssumption, FS_Difference DEF threads, FreeThreadsExact, Free
  <2>4. freeThreads >= threads - processorCount
    BY <1>2 DEF Offer, HasFreeCore
  <2>5. IsFiniteSet(Thread \ Free) /\ Cardinality(Thread \ Free) \in Nat
    BY PoolAssumption, FS_Difference, FS_CardinalityType
  <2>6. Cardinality(Parents') <= Cardinality(Thread \ Free)
    BY <2>2, <2>5, FS_Subset
  <2>7. Cardinality(Parents') \in Nat
    BY <2>2, <2>5, FS_Subset, FS_CardinalityType
  <2> QED
    BY <2>3, <2>4, <2>5, <2>6, <2>7, PoolAssumption, FreeFinite
       DEF ParentsWithinProcessors
<1>3. ASSUME NEW t \in Thread, PoolStep(t) PROVE Parents' \subseteq Parents
  <2>1. CASE TakeJob(t)
    <3>1. /\ \A u \in Thread : u # t => pc'[u] = pc[u] /\ job'[u] = job[u]
          /\ UNCHANGED <<operation, offered>>
          /\ job'[t] = Head(tasks) /\ tasks # <<>>
      BY <2>1 DEF TakeJob, Goto, requests
    <3>2. 1 \in DOMAIN tasks /\ job'[t] = tasks[1]
      BY <3>1
    <3>3. t \notin Parents'
      BY <3>1, <3>2 DEF Parents, RequestsApart, UnderWay
    <3> QED
      BY <3>1, <3>3 DEF Parents
  <2>2. CASE Start(t) \/ Wake(t) \/ Leave(t) \/ Finish(t) \/ Throw(t)
    <3>1. /\ \A u \in Thread : u # t => pc'[u] = pc[u] /\ job'[u] = job[u]
          /\ UNCHANGED <<operation, offered>>
          /\ pc'[t] \in Idling \union {"done"}
      BY <2>2 DEF Start, Wake, Leave, Finish, Throw, Goto, requests, Idling
    <3> QED
      BY <3>1 DEF Parents
  <2> QED
    BY <1>3, <2>1, <2>2 DEF PoolStep
<1>4. ASSUME NEW t \in Thread, RequestStep(t), ~Offer(t)
      PROVE  Parents' \subseteq Parents
  <2>1. UNCHANGED job
    BY <1>4
       DEF RequestStep, CreateThreadGroup, Divide, AddJob, Release, StartJoin,
           AwaitJobs, WakeJoin, EndJoin, JoinAgain, NotWorking
  <2>2. /\ \A u \in Thread : u # t => pc'[u] = pc[u]
        /\ pc[t] \notin Idling \union {"done"}
    BY <1>4
       DEF RequestStep, CreateThreadGroup, Divide, AddJob, Release, StartJoin,
           AwaitJobs, WakeJoin, EndJoin, JoinAgain, NotWorking, Goto, Idling
  <2>3. CASE CreateThreadGroup(t)
    <3>1. /\ \A c \in Connection : c # job[t].connection =>
               operation'[c] = operation[c] /\ offered'[c] = offered[c]
          /\ job[t].connection \in Connection => offered'[job[t].connection] = 0
      BY <2>3 DEF CreateThreadGroup
    <3>2. \A u \in Thread : pc'[u] \notin Idling => job[u].connection \in Connection
      BY <2>2 DEF Job
    <3>3. ASSUME NEW u \in Parents' PROVE u \in Parents
      <4>1. /\ u \in Thread /\ pc[u] \notin Idling \union {"done"}
            /\ job[u].kind = "request"
            /\ job[u].connection \in Connection
            /\ operation'[job[u].connection] \in UnderWay
            /\ offered'[job[u].connection] > 0
        BY <2>1, <2>2, <3>2, <3>3 DEF Parents
      <4>2. job[u].connection # job[t].connection
        BY <3>1, <4>1
      <4> QED
        BY <3>1, <4>1, <4>2 DEF Parents
    <3> QED
      BY <3>3
  <2>4. CASE EndJoin(t) \/ NotWorking(t)
    <3>1. \A c \in Connection : operation'[c] \in UnderWay =>
            operation'[c] = operation[c] /\ offered'[c] = offered[c]
      BY <2>4 DEF EndJoin, NotWorking, UnderWay
    <3>2. \A u \in Thread : pc[u] \notin Idling => job[u].connection \in Connection
      BY DEF Job
    <3> QED
      BY <2>1, <2>2, <3>1, <3>2 DEF Parents
  <2>5. CASE ~(CreateThreadGroup(t) \/ EndJoin(t) \/ NotWorking(t))
    <3>1. UNCHANGED <<operation, offered>>
      BY <1>4, <2>5
         DEF RequestStep, Divide, AddJob, Release, StartJoin, AwaitJobs,
             WakeJoin, JoinAgain, requests
    <3> QED
      BY <2>1, <2>2, <3>1 DEF Parents
  <2> QED
    BY <2>3, <2>4, <2>5
<1>5. ASSUME Proceed \/ Request \/ UNCHANGED vars PROVE Parents' \subseteq Parents
  <2>1. UNCHANGED <<pc, job, operation, offered>>
    BY <1>5
       DEF Proceed, Request, ReleaseAccepted, AwaitRequests, Destroy, WakeAll,
           AwaitThreads, Shutdown, Accept, vars, requests
  <2> QED
    BY <2>1 DEF Parents
<1>6. ASSUME NEW t \in Thread, WriterStep(t) PROVE Parents' \subseteq Parents
  <2>1. /\ UNCHANGED <<job, operation, offered>>
        /\ pc[t] \in {"working", "locking"}
        /\ \A u \in Thread \ {t} : pc'[u] = pc[u]
    BY <1>6, WriterStepMoves
  <2> QED
    BY <2>1 DEF Parents, Idling
<1> QED
  BY <1>1, <1>2, <1>3, <1>4, <1>5, <1>6 DEF Next, ThreadStep, Idle

(* The jobs in the queue are jobs of connections.                          *)
LEMMA TasksType ==
  ASSUME TypeOK, NEW i \in DOMAIN tasks
  PROVE  tasks[i] \in Job /\ tasks[i].connection \in Connection
<1>1. tasks \in Seq(Job)
  BY DEF TypeOK
<1>2. tasks[i] \in Job
  BY <1>1
<1> QED
  BY <1>2 DEF Job

(* A request goes from the interface to the queue, from there to a thread, *)
(* and leaves it when its connection is free for the next.                 *)
LEMMA RequestsKept ==
  ASSUME TypeOK, RequestsApart, [Next]_vars
  PROVE  RequestsApart'
<1> USE DEF TypeOK, RequestsApart
<1>1. ASSUME NEW c \in Connection, Accept(c) PROVE RequestsApart'
  <2>1. /\ ~working[c] /\ working' = [working EXCEPT ![c] = TRUE]
        /\ tasks' = Append(tasks, [kind |-> "request", connection |-> c])
        /\ UNCHANGED <<pc, job, operation>>
    BY <1>1 DEF Accept, requests
  <2>2. \A t \in Thread, d \in Connection : Serves(t, d)' = Serves(t, d)
    BY <2>1 DEF Serves, Busy
  <2>3. DOMAIN tasks' = DOMAIN tasks \union {Len(tasks) + 1}
    BY <2>1
  <2>4. /\ \A i \in DOMAIN tasks : tasks'[i] = tasks[i] /\ tasks[i] \in Job
        /\ tasks'[Len(tasks) + 1].kind = "request"
        /\ tasks'[Len(tasks) + 1].connection = c
        /\ Len(tasks) + 1 \notin DOMAIN tasks
    BY <2>1
  <2>5. \A i \in DOMAIN tasks : tasks[i].connection \in Connection
    BY TasksType
  <2> QED
    BY <2>1, <2>2, <2>3, <2>4, <2>5, SMTT(30)
<1>2. ASSUME NEW t \in Thread, TakeJob(t) PROVE RequestsApart'
  <2>1. /\ tasks # <<>> /\ tasks' = Tail(tasks)
        /\ pc[t] = "woken" /\ job'[t] = tasks[1]
        /\ \A u \in Thread : u # t => pc'[u] = pc[u] /\ job'[u] = job[u]
        /\ UNCHANGED <<operation, working>>
    BY <1>2 DEF TakeJob, Goto, requests
  <2>2. /\ 1 \in DOMAIN tasks /\ tasks[1] \in Job
        /\ \A i \in DOMAIN tasks' : /\ i + 1 \in DOMAIN tasks /\ i + 1 # 1
                                    /\ tasks'[i] = tasks[i + 1]
        /\ \A i, j \in DOMAIN tasks' : i # j => i + 1 # j + 1
    BY <2>1
  <2>3. /\ \A u \in Thread, d \in Connection :
             u # t => Serves(u, d)' = Serves(u, d)
        /\ \A d \in Connection : Serves(t, d)' =>
             tasks[1].kind = "request" /\ tasks[1].connection = d
        /\ \A d \in Connection : ~Serves(t, d)
    BY <2>1 DEF Serves, Busy, Idling
  <2>4. \A i \in DOMAIN tasks : tasks[i].connection \in Connection
    BY TasksType
  <2>5. \A i, j \in DOMAIN tasks' :
          i # j /\ tasks'[i].kind = "request" /\ tasks'[j].kind = "request" =>
            tasks'[i].connection # tasks'[j].connection
    BY <2>2
  <2>6. ASSUME NEW i \in DOMAIN tasks', NEW u \in Thread, NEW d \in Connection,
               tasks'[i].kind = "request", tasks'[i].connection = d
        PROVE  ~Serves(u, d)'
    <3>1. /\ i + 1 \in DOMAIN tasks /\ tasks[i + 1].kind = "request"
          /\ tasks[i + 1].connection = d /\ i + 1 # 1
      BY <2>2, <2>6
    <3>2. ~Serves(u, d)
      BY <3>1
    <3>3. ~(tasks[1].kind = "request" /\ tasks[1].connection = d)
      BY <2>2, <3>1
    <3> QED
      BY <2>3, <3>2, <3>3
  <2>7. ASSUME NEW u \in Thread, NEW v \in Thread, NEW d \in Connection, u # v
        PROVE  ~(Serves(u, d)' /\ Serves(v, d)')
    <3>1. Serves(t, d)' => \A w \in Thread : ~Serves(w, d)
      <4>1. tasks[1].kind = "request" =>
              \A w \in Thread : ~Serves(w, tasks[1].connection)
        BY <2>2
      <4> QED
        BY <2>3, <4>1, Zenon
    <3>2. CASE u = t \/ v = t
      BY <2>3, <2>7, <3>1, <3>2
    <3>3. CASE u # t /\ v # t
      <4>1. ~(Serves(u, d) /\ Serves(v, d))
        BY <2>7
      <4> QED
        BY <2>3, <3>3, <4>1
    <3> QED
      BY <3>2, <3>3
  <2>8. ASSUME NEW u \in Thread, NEW d \in Connection, Serves(u, d)'
        PROVE  working'[d]
    <3>1. CASE u = t
      <4>1. tasks[1].kind = "request" /\ tasks[1].connection = d
        BY <2>3, <2>8, <3>1
      <4>2. working[tasks[1].connection]
        BY <2>2, <4>1
      <4> QED
        BY <2>1, <4>1, <4>2
    <3>2. CASE u # t
      <4>1. Serves(u, d)
        BY <2>3, <2>8, <3>2
      <4> QED
        BY <2>1, <4>1
    <3> QED
      BY <3>1, <3>2
  <2>9. \A u \in Thread : pc'[u] \in Joining => job'[u].kind = "request"
    BY <1>2, <2>1 DEF TakeJob, Goto, Joining
  <2> QED
    <3>1. \A i \in DOMAIN tasks' : tasks'[i].connection \in Connection
      BY <2>2, <2>4
    <3>2. \A i \in DOMAIN tasks' : tasks'[i].kind = "request" =>
            working'[tasks'[i].connection] /\ operation'[tasks'[i].connection] = "none"
      BY <2>1, <2>2
    <3>3. (\A i \in DOMAIN tasks, u \in Thread :
             tasks[i].kind = "request" => ~Serves(u, tasks[i].connection))'
      BY <2>6, <3>1 DEF Serves, Busy
    <3>4. \A d \in Connection : ~working'[d] => operation'[d] = "none"
      BY <2>1
    <3> HIDE DEF RequestsApart, TypeOK
    <3> QED
      BY <2>5, <2>7, <2>8, <2>9, <3>2, <3>3, <3>4 DEF RequestsApart
<1>3. ASSUME NEW t \in Thread, NotWorking(t) PROVE RequestsApart'
  <2> DEFINE c == job[t].connection
  <2>1. /\ pc[t] = "working" /\ job[t].kind = "request" /\ c \in Connection
        /\ working' = [working EXCEPT ![c] = FALSE]
        /\ operation' = [operation EXCEPT ![c] = "none"]
        /\ pc' = [pc EXCEPT ![t] = "done"] /\ UNCHANGED <<job, tasks>>
    BY <1>3 DEF NotWorking, Goto, pool, Job, NoJob, Idling
  <2>2. Serves(t, c)
    BY <2>1 DEF Serves, Busy, Idling
  <2>3. \A u \in Thread, d \in Connection : Serves(u, d)' => Serves(u, d) /\ u # t
    BY <2>1 DEF Serves, Busy, Idling
  <2>4. \A i \in DOMAIN tasks : tasks[i].connection \in Connection
    BY TasksType
  <2> HIDE DEF c
  <2> QED
    BY <2>1, <2>2, <2>3, <2>4
<1>4. ASSUME NEW t \in Thread, CreateThreadGroup(t) \/ EndJoin(t)
      PROVE  RequestsApart'
  <2> DEFINE c == job[t].connection
  <2>1. CASE CreateThreadGroup(t)
    <3>1. /\ pc[t] = "working" /\ job[t].kind = "request" /\ c \in Connection
          /\ \A d \in Connection : d # c => operation'[d] = operation[d]
          /\ UNCHANGED <<pc, job, tasks, working>>
      BY <2>1 DEF CreateThreadGroup, pool, Job, NoJob, Idling
    <3>2. Serves(t, c)
      BY <3>1 DEF Serves, Busy, Idling
    <3>3. \A u \in Thread, d \in Connection : Serves(u, d)' = Serves(u, d)
      BY <3>1 DEF Serves, Busy
    <3>4. \A i \in DOMAIN tasks : tasks[i].connection \in Connection
      BY TasksType
    <3> HIDE DEF c
    <3> QED
      BY <3>1, <3>2, <3>3, <3>4
  <2>2. CASE EndJoin(t)
    <3>1. PICK l \in {"caught", "working"} :
          /\ pc[t] = "joining" /\ job[t].kind = "request" /\ c \in Connection
          /\ operation' = [operation EXCEPT ![c] = "over"]
          /\ pc' = [pc EXCEPT ![t] = l] /\ UNCHANGED <<job, tasks, working>>
      BY <2>2 DEF EndJoin, Goto, pool, Job, NoJob, Idling, Joining
    <3>2. Serves(t, c)
      BY <3>1 DEF Serves, Busy, Idling
    <3>3. \A u \in Thread, d \in Connection : Serves(u, d)' = Serves(u, d)
      BY <3>1 DEF Serves, Busy, Idling
    <3>4. \A i \in DOMAIN tasks : tasks[i].connection \in Connection
      BY TasksType
    <3>5. \A u \in Thread : pc'[u] \in Joining => pc[u] \in Joining
      BY <3>1 DEF Joining
    <3> HIDE DEF c
    <3> QED
      BY <3>1, <3>2, <3>3, <3>4, <3>5
  <2> QED
    BY <1>4, <2>1, <2>2
<1>5. ASSUME NEW t \in Thread, AddJob(t) PROVE RequestsApart'
  <2>1. /\ tasks' = Append(tasks, [kind |-> "worker",
                                   connection |-> job[t].connection])
        /\ pc[t] = "offering" /\ pc' = [pc EXCEPT ![t] = "releasing"]
        /\ UNCHANGED <<job, operation, working>>
    BY <1>5 DEF AddJob, Goto, requests
  <2>2. \A u \in Thread, d \in Connection : Serves(u, d)' = Serves(u, d)
    BY <2>1 DEF Serves, Busy, Idling
  <2>3. \A u \in Thread : pc'[u] \in Joining => pc[u] \in Joining
    BY <2>1 DEF Joining
  <2>4. \A i \in DOMAIN tasks' : tasks'[i].kind = "request" =>
          i \in DOMAIN tasks /\ tasks'[i] = tasks[i]
    BY <2>1
  <2>5. \A i \in DOMAIN tasks : tasks[i].connection \in Connection
    BY TasksType
  <2> QED
    BY <2>1, <2>2, <2>3, <2>4, <2>5
<1>6. ASSUME UNCHANGED <<tasks, operation, working>>,
             \A u \in Thread, d \in Connection : Serves(u, d)' => Serves(u, d),
             \A u \in Thread : pc'[u] \in Joining => job'[u].kind = "request"
      PROVE  RequestsApart'
  <2>1. \A i \in DOMAIN tasks : tasks[i].connection \in Connection
    BY TasksType
  <2> QED
    BY <1>6, <2>1
<1>7. ASSUME NEW t \in Thread, PoolStep(t), ~TakeJob(t) PROVE RequestsApart'
  <2>1. PICK l \in {"waiting", "woken", "gone", "done"} :
          /\ pc' = [pc EXCEPT ![t] = l]
          /\ UNCHANGED <<tasks, operation, working>>
          /\ \A u \in Thread : u # t => job'[u] = job[u]
    BY <1>7 DEF PoolStep, Start, Wake, Leave, Finish, Throw, Goto, pool, requests
  <2>2. \A u \in Thread, d \in Connection : Serves(u, d)' => Serves(u, d)
    BY <2>1 DEF Serves, Busy, Idling
  <2>3. \A u \in Thread : pc'[u] \in Joining => pc[u] \in Joining /\ u # t
    BY <2>1 DEF Joining
  <2> QED
    BY <1>6, <2>1, <2>2, <2>3
<1>8. ASSUME NEW t \in Thread,
             \/ Offer(t) \/ Divide(t) \/ Release(t) \/ StartJoin(t)
             \/ AwaitJobs(t) \/ WakeJoin(t) \/ JoinAgain(t)
      PROVE  RequestsApart'
  <2>1. PICK l \in {"working", "offering", "joining", "asleep", "caught"} :
          /\ pc' = [pc EXCEPT ![t] = l] /\ pc[t] \notin Idling \union {"done"}
          /\ UNCHANGED <<job, tasks, operation, working>>
          /\ l \in Joining => job[t].kind = "request"
    BY <1>8 DEF Offer, Divide, Release, StartJoin, AwaitJobs, WakeJoin, JoinAgain,
                Goto, pool, requests, Idling, Joining
  <2>2. \A u \in Thread, d \in Connection : Serves(u, d)' => Serves(u, d)
    BY <2>1 DEF Serves, Busy
  <2> QED
    BY <1>6, <2>1, <2>2
<1>9. ASSUME Proceed \/ Shutdown \/ UNCHANGED vars PROVE RequestsApart'
  <2>1. UNCHANGED <<pc, job, tasks, operation, working>>
    BY <1>9
       DEF Proceed, ReleaseAccepted, AwaitRequests, Destroy, WakeAll,
           AwaitThreads, Shutdown, vars, pool, requests
  <2>2. \A u \in Thread, d \in Connection : Serves(u, d)' => Serves(u, d)
    BY <2>1 DEF Serves, Busy
  <2> QED
    BY <1>6, <2>1, <2>2
<1>10. ASSUME NEW t \in Thread, WriterStep(t) PROVE RequestsApart'
  <2>1. /\ UNCHANGED <<job, tasks, operation, working>>
        /\ pc[t] \in {"working", "locking"} /\ pc'[t] \in {"working", "locking"}
        /\ \A u \in Thread \ {t} : pc'[u] = pc[u]
    BY <1>10, WriterStepMoves DEF pool
  <2>2. \A u \in Thread, d \in Connection : Serves(u, d)' => Serves(u, d)
    BY <2>1 DEF Serves, Busy, Idling
  <2>3. \A u \in Thread : pc'[u] \in Joining => pc[u] \in Joining
    BY <2>1 DEF Joining
  <2> QED
    BY <1>6, <2>1, <2>2, <2>3
<1> QED
  BY <1>1, <1>2, <1>3, <1>4, <1>5, <1>7, <1>8, <1>9, <1>10
     DEF Next, ThreadStep, RequestStep, Request, Idle
-----------------------------------------------------------------------------
(* TypeOK in two parts: the threads, and the rest.                         *)
PC == Idling \union Joining \union
        {"working", "offering", "releasing", "caught", "locking", "done"}

ThreadsType ==
  /\ pc \in [Thread -> PC]
  /\ job \in [Thread -> Job \union {NoJob}]
  /\ \A t \in Thread : pc[t] \notin Idling <=> job[t] # NoJob

PoolType ==
  /\ tasks \in Seq(Job)
  /\ wakeup \in Nat /\ freeThreads \in Nat /\ stopped \in Nat
  /\ stop \in BOOLEAN

GroupsType ==
  /\ count \in [Group -> Int] /\ sem \in [Group -> Nat]
  /\ errors \in [Group -> BOOLEAN]

RequestsType ==
  /\ operation \in [Connection -> {"none", "over"} \union UnderWay]
  /\ offered \in [Connection -> 0 .. MaxJobs]
  /\ divided \in [Connection -> 0 .. MaxJobs]
  /\ copy \in [Connection -> {"none", "made", "merged"}]
  /\ writerslock \in Thread \union {NoThread}
  /\ working \in [Connection -> BOOLEAN]
  /\ main \in {"accepting", "releasing", "joining", "asleep", "destroying",
               "destroyed", "ended"}
  /\ undefined \in BOOLEAN

OthersType == PoolType /\ GroupsType /\ RequestsType

LEMMA TypeParts ==
  /\ TypeOK <=> ThreadsType /\ OthersType
  /\ TypeOK' <=> ThreadsType' /\ OthersType'
BY DEF TypeOK, ThreadsType, OthersType, PoolType, GroupsType, RequestsType, PC

(* A thread that has a job serves a connection.                            *)
LEMMA JobType ==
  ASSUME ThreadsType, NEW t \in Thread, pc[t] \notin Idling
  PROVE  /\ job[t] \in Job /\ job[t] # NoJob /\ job[t].connection \in Connection
         /\ GroupOf(job[t]) \in Group /\ job[t].connection \in Group
<1>1. job[t] \in Job /\ job[t] # NoJob
  BY DEF ThreadsType
<1> QED
  BY <1>1 DEF Job, GroupOf, Group

LEMMA ThreadsTypeKept ==
  ASSUME ThreadsType, OthersType, [Next]_vars
  PROVE  ThreadsType'
<1> USE DEF ThreadsType
<1>1. ASSUME UNCHANGED <<pc, job>> PROVE ThreadsType'
  BY <1>1
<1>2. ASSUME NEW t \in Thread, NEW l \in PC, pc' = [pc EXCEPT ![t] = l],
             UNCHANGED job, l \in Idling <=> pc[t] \in Idling
      PROVE  ThreadsType'
  BY <1>2
<1>3. ASSUME NEW t \in Thread, PoolStep(t) PROVE ThreadsType'
  <2>1. CASE Start(t) \/ Wake(t) \/ Leave(t) \/ Throw(t)
    <3>1. PICK l \in {"waiting", "woken", "gone", "done"} :
            /\ pc' = [pc EXCEPT ![t] = l] /\ UNCHANGED job
            /\ l \in Idling <=> pc[t] \in Idling
      BY <2>1 DEF Start, Wake, Leave, Throw, Goto, Idling
    <3>2. l \in PC
      BY DEF PC, Idling
    <3> QED
      BY <1>2, <3>1, <3>2
  <2>2. CASE TakeJob(t)
    <3>1. Head(tasks) \in Job /\ Head(tasks) # NoJob
      <4>1. Head(tasks) \in Job
        BY <2>2 DEF TakeJob, OthersType, PoolType
      <4> QED
        BY <4>1 DEF Job, NoJob, Kind
    <3>2. PICK l \in {"done", "working"} : pc' = [pc EXCEPT ![t] = l]
      BY <2>2 DEF TakeJob, Goto
    <3>3. job' = [job EXCEPT ![t] = Head(tasks)]
      BY <2>2 DEF TakeJob
    <3>4. l \in PC /\ l \notin Idling
      BY DEF PC, Idling
    <3> QED
      BY <3>1, <3>2, <3>3, <3>4
  <2>3. CASE Finish(t)
    <3>1. pc' = [pc EXCEPT ![t] = "waiting"] /\ job' = [job EXCEPT ![t] = NoJob]
      BY <2>3 DEF Finish, Goto
    <3>2. "waiting" \in PC /\ "waiting" \in Idling
      BY DEF PC, Idling
    <3> QED
      BY <3>1, <3>2
  <2> QED
    BY <1>3, <2>1, <2>2, <2>3 DEF PoolStep
<1>4. ASSUME NEW t \in Thread, RequestStep(t) PROVE ThreadsType'
  <2>1. CASE CreateThreadGroup(t) \/ JoinAgain(t)
    BY <1>1, <2>1 DEF CreateThreadGroup, JoinAgain
  <2>2. CASE ~(CreateThreadGroup(t) \/ JoinAgain(t))
    <3>1. PICK l \in {"working", "offering", "releasing", "joining", "asleep",
                      "caught", "done"} :
            pc' = [pc EXCEPT ![t] = l] /\ UNCHANGED job /\ pc[t] \notin Idling
      BY <1>4, <2>2
         DEF RequestStep, Offer, Divide, AddJob, Release, StartJoin, AwaitJobs,
             WakeJoin, EndJoin, NotWorking, Goto, Idling
    <3>2. l \in PC /\ l \notin Idling
      BY DEF PC, Idling, Joining
    <3> QED
      BY <1>2, <3>1, <3>2
  <2> QED
    BY <2>1, <2>2
<1>5. CASE Proceed \/ Request \/ UNCHANGED vars
  <2>1. UNCHANGED <<pc, job>>
    BY <1>5
       DEF Proceed, Request, ReleaseAccepted, AwaitRequests, Destroy, WakeAll,
           AwaitThreads, Shutdown, Accept, vars
  <2> QED
    BY <1>1, <2>1
<1>6. ASSUME NEW t \in Thread, WriterStep(t) PROVE ThreadsType'
  <2>1. /\ UNCHANGED job /\ pc' = [pc EXCEPT ![t] = pc'[t]]
        /\ pc[t] \in {"working", "locking"} /\ pc'[t] \in {"working", "locking"}
    BY <1>6, WriterStepMoves
  <2>2. pc'[t] \in PC
    BY <2>1 DEF PC
  <2> QED
    BY <1>2, <2>1, <2>2 DEF Idling
<1> QED
  BY <1>3, <1>4, <1>5, <1>6 DEF Next, ThreadStep, Idle

LEMMA PoolTypeKept ==
  ASSUME ThreadsType, OthersType, freeThreads' \in Nat, [Next]_vars
  PROVE  PoolType'
<1> USE DEF OthersType, PoolType
<1>1. ASSUME NEW t \in Thread, PoolStep(t) PROVE PoolType'
  <2>1. CASE TakeJob(t)
    <3>1. Tail(tasks) \in Seq(Job)
      BY <2>1 DEF TakeJob
    <3> QED
      BY <2>1, <3>1 DEF TakeJob
  <2>2. CASE ~TakeJob(t)
    BY <1>1, <2>2 DEF PoolStep, Start, Wake, Leave, Finish, Throw, pool
  <2> QED
    BY <2>1, <2>2
<1>2. ASSUME NEW t \in Thread, AddJob(t) PROVE PoolType'
  <2>1. job[t].connection \in Connection
    BY <1>2, JobType DEF AddJob, Idling
  <2>2. [kind |-> "worker", connection |-> job[t].connection] \in Job
    BY <2>1 DEF Job, Kind
  <2> QED
    BY <1>2, <2>2 DEF AddJob
<1>3. ASSUME NEW t \in Thread, RequestStep(t), ~AddJob(t) PROVE PoolType'
  <2>1. wakeup' \in {wakeup, wakeup + 1} /\ UNCHANGED <<tasks, stopped, stop>>
    BY <1>3
       DEF RequestStep, CreateThreadGroup, Offer, Divide, Release, StartJoin,
           AwaitJobs, WakeJoin, EndJoin, JoinAgain, NotWorking, pool
  <2> QED
    BY <2>1
<1>4. ASSUME NEW c \in Connection, Accept(c) PROVE PoolType'
  <2>1. [kind |-> "request", connection |-> c] \in Job
    BY DEF Job, Kind
  <2> QED
    BY <1>4, <2>1 DEF Accept
<1>5. CASE Shutdown \/ ReleaseAccepted \/ AwaitRequests \/ UNCHANGED vars
  BY <1>5 DEF Shutdown, ReleaseAccepted, AwaitRequests, pool, vars
<1>6. CASE Destroy \/ WakeAll \/ AwaitThreads
  <2>1. /\ wakeup' \in {wakeup, wakeup + threads} /\ stop' \in {stop, TRUE}
        /\ stopped' \in {stopped, stopped - threads}
        /\ stopped' # stopped => stopped >= threads
        /\ tasks' = tasks
    BY <1>6 DEF Destroy, WakeAll, AwaitThreads
  <2>2. wakeup' \in Nat
    BY <2>1, FreeFinite
  <2>3. stopped' \in Nat
    BY <2>1, FreeFinite
  <2> QED
    BY <2>1, <2>2, <2>3
<1>7. ASSUME NEW t \in Thread, WriterStep(t) PROVE PoolType'
  BY <1>7, WriterStepMoves DEF pool, ThreadsType
<1> QED
  BY <1>1, <1>2, <1>3, <1>4, <1>5, <1>6, <1>7
     DEF Next, ThreadStep, Proceed, Request, Idle

LEMMA GroupsTypeKept ==
  ASSUME ThreadsType, OthersType, [Next]_vars
  PROVE  GroupsType'
<1> USE DEF OthersType, GroupsType
<1>1. ASSUME NEW g \in Group, NEW n \in Int, NEW k \in Nat, NEW e \in BOOLEAN,
             count' \in {count, [count EXCEPT ![g] = n]},
             sem' \in {sem, [sem EXCEPT ![g] = k]},
             errors' \in {errors, [errors EXCEPT ![g] = e]}
      PROVE  GroupsType'
  BY <1>1
<1>2. \A g \in Group : count[g] + 1 \in Int /\ count[g] - 1 \in Int
                       /\ sem[g] + 1 \in Nat /\ (sem[g] > 0 => sem[g] - 1 \in Nat)
  BY DEF GroupsType
<1>3. ASSUME NEW t \in Thread, PoolStep(t) PROVE GroupsType'
  <2>1. CASE Finish(t) \/ Throw(t)
    <3>1. GroupOf(job[t]) \in Group
      BY <2>1, JobType DEF Finish, Throw, Idling
    <3>2. CASE Finish(t)
      BY <1>1, <1>2, <3>1, <3>2 DEF Finish
    <3>3. CASE Throw(t)
      BY <1>1, <3>1, <3>3 DEF Throw
    <3> QED
      BY <2>1, <3>2, <3>3
  <2>2. CASE ~(Finish(t) \/ Throw(t))
    BY <1>3, <2>2 DEF PoolStep, Start, Wake, Leave, TakeJob, groups
  <2> QED
    BY <2>1, <2>2
<1>4. ASSUME NEW t \in Thread, RequestStep(t) PROVE GroupsType'
  <2> DEFINE c == job[t].connection
  <2>1. c \in Group
    <3>1. pc[t] \notin Idling
      BY <1>4
         DEF RequestStep, CreateThreadGroup, Offer, Divide, AddJob, Release,
             StartJoin, AwaitJobs, WakeJoin, EndJoin, JoinAgain, NotWorking, Idling
    <3> QED
      BY <3>1, JobType
  <2>2. CASE CreateThreadGroup(t)
    BY <1>1, <2>1, <2>2 DEF CreateThreadGroup
  <2>3. CASE AddJob(t)
    BY <1>1, <1>2, <2>1, <2>3 DEF AddJob
  <2>4. CASE StartJoin(t)
    BY <1>1, <2>1, <2>4 DEF StartJoin
  <2>5. CASE WakeJoin(t)
    BY <1>1, <1>2, <2>1, <2>5 DEF WakeJoin
  <2>6. CASE EndJoin(t)
    BY <1>1, <2>1, <2>6 DEF EndJoin
  <2>7. CASE Offer(t) \/ Divide(t) \/ Release(t) \/ AwaitJobs(t) \/ JoinAgain(t)
             \/ NotWorking(t)
    BY <2>7 DEF Offer, Divide, Release, AwaitJobs, JoinAgain, NotWorking, groups
  <2> QED
    BY <1>4, <2>2, <2>3, <2>4, <2>5, <2>6, <2>7 DEF RequestStep
<1>5. Main \in Group
  BY DEF Group
<1>6. ASSUME NEW c \in Connection, Accept(c) PROVE GroupsType'
  BY <1>1, <1>2, <1>5, <1>6 DEF Accept
<1>7. CASE Shutdown \/ AwaitRequests
  BY <1>1, <1>2, <1>5, <1>7 DEF Shutdown, AwaitRequests
<1>8. CASE ReleaseAccepted \/ Destroy \/ WakeAll \/ AwaitThreads \/ UNCHANGED vars
  BY <1>8 DEF ReleaseAccepted, Destroy, WakeAll, AwaitThreads, groups, vars
<1>9. ASSUME NEW t \in Thread, WriterStep(t) PROVE GroupsType'
  BY <1>9, WriterStepMoves DEF groups, ThreadsType
<1> QED
  BY <1>3, <1>4, <1>6, <1>7, <1>8, <1>9 DEF Next, ThreadStep, Proceed, Request, Idle

LEMMA RequestsTypeKept ==
  ASSUME ThreadsType, OthersType, [Next]_vars
  PROVE  RequestsType'
<1> USE DEF OthersType, RequestsType
<1>1. ASSUME NEW t \in Thread, PoolStep(t) PROVE RequestsType'
  BY <1>1 DEF PoolStep, Start, Wake, Leave, TakeJob, Finish, Throw, requests
<1>2. ASSUME NEW t \in Thread, RequestStep(t) PROVE RequestsType'
  <2> DEFINE c == job[t].connection
  <2>1. c \in Connection
    <3>1. pc[t] \notin Idling
      BY <1>2
         DEF RequestStep, CreateThreadGroup, Offer, Divide, AddJob, Release,
             StartJoin, AwaitJobs, WakeJoin, EndJoin, JoinAgain, NotWorking, Idling
    <3> QED
      BY <3>1, JobType
  <2>2. CASE CreateThreadGroup(t)
    <3>1. /\ \E op \in UnderWay : operation' = [operation EXCEPT ![c] = op]
          /\ offered' = [offered EXCEPT ![c] = 0]
          /\ divided' = [divided EXCEPT ![c] = 0]
          /\ UNCHANGED <<copy, writerslock, working, main, undefined>>
      BY <2>2, JobAssumption DEF CreateThreadGroup, UnderWay
    <3>2. 0 \in 0 .. MaxJobs
      BY JobAssumption
    <3> QED
      BY <2>1, <3>1, <3>2
  <2>3. CASE Offer(t) \/ Divide(t)
    <3>1. offered[c] + 1 \in 0 .. MaxJobs /\ divided[c] + 1 \in 0 .. MaxJobs
      <4>1. offered[c] \in 0 .. MaxJobs /\ divided[c] \in 0 .. MaxJobs
        BY <2>1
      <4>2. offered[c] + divided[c] < MaxJobs
        BY <2>3 DEF Offer, Divide
      <4> QED
        BY <4>1, <4>2, JobAssumption
    <3> QED
      BY <2>1, <2>3, <3>1 DEF Offer, Divide
  <2>4. CASE EndJoin(t) \/ NotWorking(t)
    <3>1. /\ \E o \in {"none", "over"} : operation' = [operation EXCEPT ![c] = o]
          /\ UNCHANGED <<writerslock, main, undefined>>
      BY <2>4 DEF EndJoin, NotWorking
    <3>2. 0 \in 0 .. MaxJobs
      BY JobAssumption
    <3>3. /\ offered' \in {offered, [offered EXCEPT ![c] = 0]}
          /\ divided' \in {divided, [divided EXCEPT ![c] = 0]}
      BY <2>4 DEF EndJoin, NotWorking
    <3>4. /\ copy' \in {copy, [copy EXCEPT ![c] = "none"]}
          /\ working' \in {working, [working EXCEPT ![c] = FALSE]}
      BY <2>4 DEF EndJoin, NotWorking
    <3> HIDE DEF c
    <3>5. /\ offered' \in [Connection -> 0 .. MaxJobs]
          /\ divided' \in [Connection -> 0 .. MaxJobs]
      BY <2>1, <3>2, <3>3
    <3>6. /\ operation' \in [Connection -> {"none", "over"} \union UnderWay]
          /\ copy' \in [Connection -> {"none", "made", "merged"}]
          /\ working' \in [Connection -> BOOLEAN]
      BY <2>1, <3>1, <3>4
    <3> QED
      BY <3>1, <3>5, <3>6
  <2>5. CASE AddJob(t) \/ Release(t) \/ StartJoin(t) \/ AwaitJobs(t)
             \/ WakeJoin(t) \/ JoinAgain(t)
    BY <2>5 DEF AddJob, Release, StartJoin, AwaitJobs, WakeJoin, JoinAgain, requests
  <2> QED
    BY <1>2, <2>2, <2>3, <2>4, <2>5 DEF RequestStep
<1>3. CASE Proceed \/ Request \/ UNCHANGED vars
  BY <1>3
     DEF Proceed, Request, ReleaseAccepted, AwaitRequests, Destroy, WakeAll,
         AwaitThreads, Shutdown, Accept, vars, requests
<1>4. ASSUME NEW t \in Thread, WriterStep(t) PROVE RequestsType'
  <2>1. UNCHANGED <<operation, offered, divided, working, main, undefined>>
    BY <1>4, WriterStepMoves DEF ThreadsType
  <2>2. /\ copy' \in [Connection -> {"none", "made", "merged"}]
        /\ writerslock' \in Thread \union {NoThread}
    BY <1>4 DEF WriterStep, AskForWriters, GetServerCopy, LockWriters,
                UnlockWriters, requests
  <2> QED
    BY <2>1, <2>2
<1> QED
  BY <1>1, <1>2, <1>3, <1>4 DEF Next, ThreadStep, Idle

(* So the steps keep the state well formed.                                *)
LEMMA TypeKept ==
  ASSUME TypeOK, FreeThreadsExact, [Next]_vars
  PROVE  TypeOK'
BY TypeParts, FreeThreadsKept, ThreadsTypeKept, PoolTypeKept, GroupsTypeKept,
   RequestsTypeKept
   DEF OthersType

(* The strengthening holds throughout.                                     *)
THEOREM Invariance == Spec => []IInv
<1>1. Init => IInv
  <2> SUFFICES ASSUME Init PROVE IInv
    OBVIOUS
  <2>1. TypeOK
    <3>1. "starting" \in PC /\ "starting" \in Idling
      BY DEF PC, Idling
    <3>2. ThreadsType
      BY <3>1 DEF Init, ThreadsType
    <3>3. OthersType
      <4>1. 0 \in 0 .. MaxJobs
        BY JobAssumption
      <4>2. PoolType
        <5>1. tasks \in Seq(Job)
          BY EmptySeq DEF Init
        <5>2. wakeup = 0 /\ freeThreads = 0 /\ stopped = 0 /\ stop = FALSE
          BY DEF Init
        <5> QED
          BY <5>1, <5>2 DEF PoolType
      <4>3. GroupsType
        BY DEF Init, GroupsType
      <4>4. RequestsType
        BY <4>1 DEF Init, RequestsType
      <4> QED
        BY <4>2, <4>3, <4>4 DEF OthersType
    <3> QED
      BY <3>2, <3>3, TypeParts
  <2>2. RequestsApart
    BY DEF Init, RequestsApart, Serves, Busy, Idling, Joining
  <2>3. Parents = {} /\ {t \in Thread : pc[t] \in Idling \ {"starting"}} = {}
    BY DEF Init, Parents, Idling
  <2>4. FreeThreadsExact /\ ParentsWithinProcessors
    <3>1. freeThreads = 0
      BY DEF Init
    <3> QED
      BY <2>3, <3>1, FS_EmptySet, PoolAssumption
         DEF FreeThreadsExact, ParentsWithinProcessors
  <2> QED
    BY <2>1, <2>2, <2>4 DEF IInv
<1>2. IInv /\ [Next]_vars => IInv'
  BY TypeKept, RequestsKept, FreeThreadsKept, ParentsKept DEF IInv
<1> QED
  BY <1>1, <1>2, PTL DEF Spec

(* However many requests split their work at a time, whatever the order of *)
(* their unlocked reads of freeThreads: no more than processorCount        *)
(* threads, which are less than there are, wait for jobs they added.       *)
THEOREM ParentsWithinProcessorsCorrect == Spec => []ParentsWithinProcessors
BY Invariance, PTL DEF IInv

(* hasFreeCore and getUsage read the number of threads that do nothing.    *)
THEOREM FreeThreadsExactCorrect == Spec => []FreeThreadsExact
BY Invariance, PTL DEF IInv

(* Two threads never serve the same connection.                            *)
THEOREM OneRequestEachCorrect == Spec => []OneRequestEach
<1>1. IInv => OneRequestEach
  <2> SUFFICES ASSUME IInv PROVE OneRequestEach
    OBVIOUS
  <2>1. \A t \in Thread : Busy(t) => job[t].connection \in Connection
    <3>1. \A t \in Thread : Busy(t) => job[t] \in Job
      BY DEF IInv, TypeOK, Busy
    <3> QED
      BY <3>1 DEF Job
  <2> QED
    BY <2>1 DEF IInv, RequestsApart, OneRequestEach, Serves, Busy
<1> QED
  BY <1>1, Invariance, PTL

(* The state is well formed throughout.                                    *)
THEOREM TypeCorrect == Spec => []TypeOK
BY Invariance, PTL DEF IInv

-----------------------------------------------------------------------------
(* What is counted: the permits of the semaphore against the jobs of the   *)
(* queue, and the jobs of a group.                                         *)

(* A job of the queue has a permit, or a thread that took one or is going  *)
(* to give one, or the interface is going to give it.                      *)
Claims == {t \in Thread : pc[t] \in {"woken", "releasing"}}

WakeupsExact ==
  /\ ~stop => Len(tasks) = wakeup + Cardinality(Claims) +
                           (IF main = "releasing" THEN 1 ELSE 0)
  /\ main \in {"destroying", "destroyed", "ended"} => stop

(* The jobs of a group that threads have.                                  *)
Taken(g) == {t \in Running(g) : g = Main \/ job[t].kind = "worker"}

(* A request that is going to add a job has not ended its operation.       *)
OffersUnderWay ==
  \A t \in Thread : pc[t] = "offering" /\ job[t].kind = "request" =>
    operation[job[t].connection] \in UnderWay

(* A set of threads, and the same set but for one thread.                  *)
LEMMA SetMoves ==
  ASSUME NEW S \in SUBSET Thread, NEW T \in SUBSET Thread, NEW t \in Thread,
         \A u \in Thread \ {t} : u \in T <=> u \in S
  PROVE  /\ Cardinality(S) \in Nat /\ Cardinality(T) \in Nat
         /\ (t \in S <=> t \in T) => Cardinality(T) = Cardinality(S)
         /\ t \notin S /\ t \in T => Cardinality(T) = Cardinality(S) + 1
         /\ t \in S /\ t \notin T => Cardinality(T) = Cardinality(S) - 1
<1>1. IsFiniteSet(S) /\ IsFiniteSet(T)
  BY PoolAssumption, FS_Subset
<1>2. Cardinality(S) \in Nat /\ Cardinality(T) \in Nat
  BY <1>1, FS_CardinalityType
<1>3. (t \in S <=> t \in T) => S = T
  OBVIOUS
<1>4. t \notin S /\ t \in T => T = S \union {t}
  OBVIOUS
<1>5. t \in S /\ t \notin T => T = S \ {t}
  OBVIOUS
<1> QED
  BY <1>1, <1>2, <1>3, <1>4, <1>5, FS_AddElement, FS_RemoveElement

LEMMA SetStays ==
  ASSUME NEW S \in SUBSET Thread
  PROVE  IsFiniteSet(S) /\ Cardinality(S) \in Nat
BY PoolAssumption, FS_Subset, FS_CardinalityType

LEMMA WakeupsKept ==
  ASSUME TypeOK, WakeupsExact, [Next]_vars
  PROVE  WakeupsExact'
<1> DEFINE m == IF main = "releasing" THEN 1 ELSE 0
<1>1. tasks \in Seq(Job) /\ wakeup \in Nat /\ Len(tasks) \in Nat /\ pc \in [Thread -> PC]
  <2>1. tasks \in Seq(Job) /\ wakeup \in Nat
    BY DEF TypeOK
  <2>2. pc \in [Thread -> PC]
    BY DEF TypeOK, PC
  <2> QED
    BY <2>1, <2>2
<1>2. Claims \in SUBSET Thread /\ Claims' \in SUBSET Thread
      /\ Cardinality(Claims) \in Nat /\ Cardinality(Claims') \in Nat
  BY SetStays DEF Claims
\* A thread that neither takes a job nor gives or takes a permit.
<1>3. ASSUME UNCHANGED <<tasks, wakeup, stop, main>>,
             Claims' = Claims
      PROVE  WakeupsExact'
  BY <1>3 DEF WakeupsExact
<1>4. ASSUME NEW t \in Thread, PoolStep(t) PROVE WakeupsExact'
  <2>1. CASE Start(t) \/ Finish(t) \/ Throw(t)
    <3>1. /\ pc[t] \notin {"woken", "releasing"}
          /\ pc' = [pc EXCEPT ![t] = IF Throw(t) THEN "done" ELSE "waiting"]
          /\ UNCHANGED <<tasks, wakeup, stop, main>>
      BY <2>1 DEF Start, Finish, Throw, Goto, pool
    <3>2. Claims' = Claims
      BY <1>1, <3>1 DEF Claims
    <3> QED
      BY <1>3, <3>1, <3>2
  <2>2. CASE Wake(t)
    <3>1. /\ pc[t] = "waiting" /\ pc' = [pc EXCEPT ![t] = "woken"]
          /\ wakeup > 0 /\ wakeup' = wakeup - 1
          /\ UNCHANGED <<tasks, stop, main>>
      BY <2>2 DEF Wake, Goto
    <3>2. /\ t \notin Claims /\ t \in Claims'
          /\ \A u \in Thread \ {t} : u \in Claims' <=> u \in Claims
      BY <1>1, <3>1 DEF Claims
    <3>3. Cardinality(Claims') = Cardinality(Claims) + 1
      BY <1>2, <3>2, SetMoves
    <3> QED
      BY <1>1, <1>2, <3>1, <3>3 DEF WakeupsExact
  <2>3. CASE TakeJob(t)
    <3>1. PICK l \in {"done", "working"} : pc' = [pc EXCEPT ![t] = l]
      BY <2>3 DEF TakeJob, Goto
    <3>2. /\ pc[t] = "woken" /\ tasks # <<>> /\ tasks' = Tail(tasks)
          /\ UNCHANGED <<wakeup, stop, main>>
      BY <2>3 DEF TakeJob
    <3>3. /\ t \in Claims /\ t \notin Claims'
          /\ \A u \in Thread \ {t} : u \in Claims' <=> u \in Claims
      BY <1>1, <3>1, <3>2 DEF Claims
    <3>4. Cardinality(Claims') = Cardinality(Claims) - 1
      BY <1>2, <3>3, SetMoves
    <3>5. Len(tasks') = Len(tasks) - 1
      BY <1>1, <3>2
    <3> QED
      BY <1>1, <1>2, <3>2, <3>4, <3>5 DEF WakeupsExact
  <2>4. CASE Leave(t)
    BY <2>4 DEF Leave, WakeupsExact
  <2> QED
    BY <1>4, <2>1, <2>2, <2>3, <2>4 DEF PoolStep
<1>5. ASSUME NEW t \in Thread, RequestStep(t) PROVE WakeupsExact'
  <2>1. CASE AddJob(t)
    <3>1. /\ pc[t] = "offering" /\ pc' = [pc EXCEPT ![t] = "releasing"]
          /\ tasks' = Append(tasks, [kind |-> "worker", connection |-> job[t].connection])
          /\ UNCHANGED <<wakeup, stop, main>>
      BY <2>1 DEF AddJob, Goto
    <3>2. /\ t \notin Claims /\ t \in Claims'
          /\ \A u \in Thread \ {t} : u \in Claims' <=> u \in Claims
      BY <1>1, <3>1 DEF Claims
    <3>3. Cardinality(Claims') = Cardinality(Claims) + 1
      BY <1>2, <3>2, SetMoves
    <3>4. Len(tasks') = Len(tasks) + 1
      BY <1>1, <3>1
    <3> QED
      BY <1>1, <1>2, <3>1, <3>3, <3>4 DEF WakeupsExact
  <2>2. CASE Release(t)
    <3>1. /\ pc[t] = "releasing" /\ pc' = [pc EXCEPT ![t] = "working"]
          /\ wakeup' = wakeup + 1
          /\ UNCHANGED <<tasks, stop, main>>
      BY <2>2 DEF Release, Goto
    <3>2. /\ t \in Claims /\ t \notin Claims'
          /\ \A u \in Thread \ {t} : u \in Claims' <=> u \in Claims
      BY <1>1, <3>1 DEF Claims
    <3>3. Cardinality(Claims') = Cardinality(Claims) - 1
      BY <1>2, <3>2, SetMoves
    <3> QED
      BY <1>1, <1>2, <3>1, <3>3 DEF WakeupsExact
  <2>3. CASE CreateThreadGroup(t) \/ JoinAgain(t)
    <3>1. UNCHANGED <<pc, tasks, wakeup, stop, main>>
      BY <2>3 DEF CreateThreadGroup, JoinAgain, pool
    <3> QED
      BY <1>3, <3>1 DEF Claims
  <2>4. CASE Offer(t) \/ Divide(t) \/ StartJoin(t) \/ AwaitJobs(t) \/ WakeJoin(t)
             \/ EndJoin(t) \/ NotWorking(t)
    <3>1. PICK l \in {"working", "offering", "joining", "asleep", "caught", "done"} :
            /\ pc' = [pc EXCEPT ![t] = l]
            /\ pc[t] \notin {"woken", "releasing"}
            /\ UNCHANGED <<tasks, wakeup, stop, main>>
      BY <2>4 DEF Offer, Divide, StartJoin, AwaitJobs, WakeJoin, EndJoin, NotWorking,
                  Goto, pool
    <3>2. Claims' = Claims
      BY <1>1, <3>1 DEF Claims
    <3> QED
      BY <1>3, <3>1, <3>2
  <2> QED
    BY <1>5, <2>1, <2>2, <2>3, <2>4 DEF RequestStep
<1>6. ASSUME NEW c \in Connection, Accept(c) PROVE WakeupsExact'
  <2>1. /\ tasks' = Append(tasks, [kind |-> "request", connection |-> c])
        /\ main = "accepting" /\ main' = "releasing"
        /\ UNCHANGED <<pc, wakeup, stop>>
    BY <1>6 DEF Accept
  <2>2. Len(tasks') = Len(tasks) + 1 /\ Claims' = Claims
    BY <1>1, <2>1 DEF Claims
  <2> QED
    BY <1>1, <1>2, <2>1, <2>2 DEF WakeupsExact
<1>7. ASSUME ReleaseAccepted PROVE WakeupsExact'
  <2>1. /\ main = "releasing" /\ main' = "accepting" /\ wakeup' = wakeup + 1
        /\ UNCHANGED <<pc, tasks, stop>>
    BY <1>7 DEF ReleaseAccepted
  <2>2. Claims' = Claims
    BY <2>1 DEF Claims
  <2> QED
    BY <1>1, <1>2, <2>1, <2>2 DEF WakeupsExact
<1>8. CASE Shutdown \/ AwaitRequests \/ UNCHANGED vars
  <2>1. /\ UNCHANGED <<pc, tasks, wakeup, stop>>
        /\ main' = main \/ {main, main'} \subseteq {"accepting", "joining", "asleep"}
    BY <1>8 DEF Shutdown, AwaitRequests, vars, pool
  <2>2. Claims' = Claims
    BY <2>1 DEF Claims
  <2> QED
    BY <1>1, <1>2, <2>1, <2>2 DEF WakeupsExact
<1>9. CASE Destroy \/ WakeAll \/ AwaitThreads
  <2>1. stop'
    BY <1>9 DEF Destroy, WakeAll, AwaitThreads, WakeupsExact
  <2> QED
    BY <2>1 DEF WakeupsExact
<1>10. ASSUME NEW t \in Thread, WriterStep(t) PROVE WakeupsExact'
  <2>1. /\ UNCHANGED <<tasks, wakeup, stop, main>>
        /\ pc[t] \in {"working", "locking"} /\ pc'[t] \in {"working", "locking"}
        /\ \A u \in Thread \ {t} : pc'[u] = pc[u]
    BY <1>1, <1>10, WriterStepMoves DEF pool
  <2>2. Claims' = Claims
    BY <2>1 DEF Claims
  <2> QED
    BY <1>3, <2>1, <2>2
<1> QED
  BY <1>4, <1>5, <1>6, <1>7, <1>8, <1>9, <1>10 DEF Next, ThreadStep, Proceed, Request, Idle

(* A thread that was woken finds a job: operator() calls tasks.front()     *)
(* without a look at the queue.                                            *)
THEOREM TaskForEveryWakeupCorrect == Spec => []TaskForEveryWakeup
<1>1. Init => WakeupsExact
  <2> SUFFICES ASSUME Init PROVE WakeupsExact
    OBVIOUS
  <2>1. Claims = {} /\ tasks = <<>> /\ wakeup = 0 /\ main = "accepting"
    BY DEF Init, Claims
  <2> QED
    BY <2>1, FS_EmptySet DEF WakeupsExact
<1>2. TypeOK /\ WakeupsExact /\ [Next]_vars => WakeupsExact'
  BY WakeupsKept
<1>3. TypeOK /\ WakeupsExact => TaskForEveryWakeup
  <2> SUFFICES ASSUME TypeOK, WakeupsExact, ~stop, NEW t \in Thread, pc[t] = "woken"
               PROVE  tasks # <<>>
    BY DEF TaskForEveryWakeup
  <2>1. IsFiniteSet(Claims) /\ Cardinality(Claims) \in Nat
    BY SetStays DEF Claims
  <2>2. Claims # {}
    BY DEF Claims
  <2>3. Cardinality(Claims) # 0
    BY <2>1, <2>2, FS_EmptySet
  <2>4. wakeup \in Nat
    BY DEF TypeOK
  <2> QED
    BY <2>1, <2>3, <2>4 DEF WakeupsExact
<1> QED
  BY <1>1, <1>2, <1>3, TypeCorrect, PTL DEF Spec

(* The jobs of a group in the queue, after one is added and after one is   *)
(* taken.                                                                  *)
LEMMA QueuedFinite ==
  ASSUME tasks \in Seq(Job), NEW g
  PROVE  IsFiniteSet(Queued(g)) /\ Cardinality(Queued(g)) \in Nat
<1>1. IsFiniteSet(1 .. Len(tasks))
  BY FS_Interval
<1>2. Queued(g) \in SUBSET (1 .. Len(tasks))
  BY DEF Queued
<1> QED
  BY <1>1, <1>2, FS_Subset, FS_CardinalityType

LEMMA QueueAppend ==
  ASSUME tasks \in Seq(Job), NEW j \in Job, tasks' = Append(tasks, j), NEW g
  PROVE  Cardinality(Queued(g)') =
           Cardinality(Queued(g)) + IF GroupOf(j) = g THEN 1 ELSE 0
<1> DEFINE n == Len(tasks) + 1
<1>1. /\ n \in Nat /\ n \notin Queued(g)
      /\ DOMAIN tasks' = DOMAIN tasks \union {n} /\ tasks'[n] = j
      /\ \A i \in DOMAIN tasks : tasks'[i] = tasks[i]
  BY DEF Queued
<1>2. Queued(g)' = IF GroupOf(j) = g THEN Queued(g) \union {n} ELSE Queued(g)
  BY <1>1 DEF Queued
<1> DEFINE q == Queued(g)
<1> HIDE DEF n, q
<1>3. IsFiniteSet(q) /\ Cardinality(q) \in Nat /\ n \notin q
  BY <1>1, QueuedFinite DEF q
<1>4. Cardinality(q \union {n}) = Cardinality(q) + 1
  BY <1>3, FS_AddElement
<1>5. Queued(g)' = IF GroupOf(j) = g THEN q \union {n} ELSE q
  BY <1>2 DEF q
<1> QED
  BY <1>3, <1>4, <1>5 DEF q

LEMMA QueueTail ==
  ASSUME tasks \in Seq(Job), tasks # <<>>, tasks' = Tail(tasks), NEW g
  PROVE  Cardinality(Queued(g)) =
           Cardinality(Queued(g)') + IF GroupOf(Head(tasks)) = g THEN 1 ELSE 0
<1> DEFINE later == Queued(g) \ {1}
           before == [i \in later |-> i - 1]
           q == Queued(g)'
<1>1. /\ 1 \in DOMAIN tasks /\ tasks[1] = Head(tasks)
      /\ \A i \in DOMAIN tasks' : i + 1 \in DOMAIN tasks /\ tasks'[i] = tasks[i + 1]
      /\ \A i \in DOMAIN tasks : i # 1 => i - 1 \in DOMAIN tasks' /\ tasks'[i - 1] = tasks[i]
      /\ DOMAIN tasks \subseteq Nat \ {0} /\ DOMAIN tasks' \subseteq Nat \ {0}
  OBVIOUS
<1>2. /\ \A i \in q : i \in Nat \ {0} /\ i + 1 \in later /\ (i + 1) - 1 = i
      /\ \A i \in later : i \in Nat \ {0} /\ i - 1 \in q
  BY <1>1 DEF Queued
<1>3. 1 \in Queued(g) <=> GroupOf(Head(tasks)) = g
  BY <1>1 DEF Queued
<1> HIDE DEF later, q
<1>4. before \in [later -> q]
  BY <1>2
<1>5. \A a, b \in later : before[a] = before[b] => a = b
  BY <1>2
<1>6. \A i \in q : \E a \in later : before[a] = i
  <2> SUFFICES ASSUME NEW i \in q PROVE before[i + 1] = i /\ i + 1 \in later
    OBVIOUS
  <2> QED
    BY <1>2
<1> HIDE DEF before
<1>7. ExistsBijection(later, q)
  BY <1>4, <1>5, <1>6 DEF ExistsBijection, Bijection, Injection, Surjection, IsInjective
<1>8. IsFiniteSet(Queued(g)) /\ Cardinality(Queued(g)) \in Nat
  BY QueuedFinite
<1>9. /\ IsFiniteSet(later)
      /\ Cardinality(later) = IF 1 \in Queued(g) THEN Cardinality(Queued(g)) - 1
                                                 ELSE Cardinality(Queued(g))
  BY <1>8, FS_RemoveElement DEF later
<1>10. Cardinality(q) = Cardinality(later)
  BY <1>7, <1>9, FS_Bijection
<1> QED
  BY <1>3, <1>8, <1>9, <1>10 DEF q

(* A group counts its jobs in the queue and on the threads.                *)
CountsExact ==
  \A g \in Group : count[g] = Cardinality(Queued(g)) + Cardinality(Taken(g))

ErasedAreEmpty ==
  \A c \in Connection : operation[c] \notin UnderWay => count[c] = 0

GroupsExact == CountsExact /\ ErasedAreEmpty /\ OffersUnderWay

(* A thread that has a job is counted for the group of the job only.       *)
LEMMA TakenOnce ==
  ASSUME TypeOK, NEW t \in Thread, NEW g \in Group
  PROVE  t \in Taken(g) <=> pc[t] \notin Idling /\ GroupOf(job[t]) = g
<1>1. pc[t] \notin Idling => job[t] \in Job
  BY DEF TypeOK
<1> QED
  BY <1>1, JobAssumption DEF Taken, Running, GroupOf, Job, Kind, Group

LEMMA TakenSets ==
  ASSUME NEW g
  PROVE  Taken(g) \in SUBSET Thread /\ Taken(g)' \in SUBSET Thread
BY DEF Taken, Running

(* The step of one thread: what its job counts before and after it.        *)
LEMMA CountsMove ==
  ASSUME TypeOK, TypeOK', CountsExact, NEW t \in Thread,
         \A u \in Thread \ {t} : pc'[u] = pc[u] /\ job'[u] = job[u],
         NEW g \in Group
  PROVE  /\ Cardinality(Taken(g)) \in Nat /\ Cardinality(Taken(g)') \in Nat
         /\ (t \in Taken(g) <=> t \in Taken(g)') =>
               Cardinality(Taken(g)') = Cardinality(Taken(g))
         /\ t \notin Taken(g) /\ t \in Taken(g)' =>
               Cardinality(Taken(g)') = Cardinality(Taken(g)) + 1
         /\ t \in Taken(g) /\ t \notin Taken(g)' =>
               Cardinality(Taken(g)') = Cardinality(Taken(g)) - 1
<1> DEFINE S == Taken(g)
           T == Taken(g)'
<1>1. S \in SUBSET Thread /\ T \in SUBSET Thread
  BY TakenSets
<1>2. \A u \in Thread \ {t} : u \in T <=> u \in S
  BY DEF Taken, Running
<1> HIDE DEF S, T
<1>3. /\ Cardinality(S) \in Nat /\ Cardinality(T) \in Nat
      /\ (t \in S <=> t \in T) => Cardinality(T) = Cardinality(S)
      /\ t \notin S /\ t \in T => Cardinality(T) = Cardinality(S) + 1
      /\ t \in S /\ t \notin T => Cardinality(T) = Cardinality(S) - 1
  BY <1>1, <1>2, SetMoves
<1> QED
  BY <1>3 DEF S, T

(* A step that neither adds, takes nor ends a job.                         *)
LEMMA CountsStay ==
  ASSUME TypeOK, TypeOK', CountsExact, NEW t \in Thread,
         \A u \in Thread \ {t} : pc'[u] = pc[u],
         pc[t] \in Idling <=> pc'[t] \in Idling,
         UNCHANGED <<job, tasks, count>>
  PROVE  CountsExact'
<1> SUFFICES ASSUME NEW g \in Group
             PROVE  count'[g] = Cardinality(Queued(g)') + Cardinality(Taken(g)')
  BY DEF CountsExact
<1>1. t \in Taken(g) <=> t \in Taken(g)'
  BY DEF Taken, Running
<1>2. Cardinality(Taken(g)') = Cardinality(Taken(g))
  BY <1>1, CountsMove
<1>3. Queued(g)' = Queued(g)
  BY DEF Queued
<1> QED
  BY <1>2, <1>3 DEF CountsExact

LEMMA TakeJobCounts ==
  ASSUME TypeOK, TypeOK', CountsExact, NEW t \in Thread, TakeJob(t)
  PROVE  CountsExact'
<1> SUFFICES ASSUME NEW g \in Group
             PROVE  count'[g] = Cardinality(Queued(g)') + Cardinality(Taken(g)')
  BY DEF CountsExact
<1>1. PICK l \in {"done", "working"} : pc' = [pc EXCEPT ![t] = l]
  BY DEF TakeJob, Goto
<1>2. /\ tasks \in Seq(Job) /\ tasks # <<>> /\ tasks' = Tail(tasks) /\ pc[t] = "woken"
      /\ job' = [job EXCEPT ![t] = Head(tasks)] /\ count' = count
  BY DEF TakeJob, TypeOK, groups
<1>3. \A u \in Thread \ {t} : pc'[u] = pc[u] /\ job'[u] = job[u]
  BY <1>1, <1>2
<1>4. pc'[t] \notin Idling /\ job'[t] = Head(tasks) /\ pc[t] \in Idling
  BY <1>1, <1>2 DEF TypeOK, Idling
<1>5. t \notin Taken(g)
  BY <1>4, TakenOnce
<1>6. t \in Taken(g)' <=> GroupOf(Head(tasks)) = g
  <2>1. Head(tasks) \in Job
    BY <1>2
  <2> QED
    BY <1>4, <2>1, JobAssumption DEF Taken, Running, GroupOf, Job, Kind, Group
<1>7. Cardinality(Taken(g)) \in Nat
      /\ Cardinality(Taken(g)') = Cardinality(Taken(g)) + IF GroupOf(Head(tasks)) = g THEN 1 ELSE 0
  BY <1>3, <1>5, <1>6, CountsMove
<1>8. Cardinality(Queued(g)) = Cardinality(Queued(g)') + IF GroupOf(Head(tasks)) = g THEN 1 ELSE 0
  BY <1>2, QueueTail
<1>9. Cardinality(Queued(g)) \in Nat /\ Cardinality(Queued(g)') \in Nat
  <2>1. Cardinality(Queued(g)) \in Nat
    BY <1>2, QueuedFinite
  <2>2. IsFiniteSet(1 .. Len(tasks'))
    BY FS_Interval
  <2>3. Queued(g)' \in SUBSET (1 .. Len(tasks'))
    BY DEF Queued, TypeOK
  <2> QED
    BY <2>1, <2>2, <2>3, FS_Subset, FS_CardinalityType
<1>10. count[g] = Cardinality(Queued(g)) + Cardinality(Taken(g))
  BY DEF CountsExact
<1> QED
  BY <1>2, <1>7, <1>8, <1>9, <1>10

LEMMA FinishCounts ==
  ASSUME TypeOK, TypeOK', CountsExact, NEW t \in Thread, Finish(t)
  PROVE  CountsExact'
<1> SUFFICES ASSUME NEW g \in Group
             PROVE  count'[g] = Cardinality(Queued(g)') + Cardinality(Taken(g)')
  BY DEF CountsExact
<1> DEFINE h == GroupOf(job[t])
<1>1. /\ pc' = [pc EXCEPT ![t] = "waiting"] /\ job' = [job EXCEPT ![t] = NoJob]
      /\ count' = [count EXCEPT ![h] = @ - 1] /\ UNCHANGED tasks
      /\ pc[t] \in {"done", "working"}
  BY DEF Finish, Goto
<1>2. \A u \in Thread \ {t} : pc'[u] = pc[u] /\ job'[u] = job[u]
  BY <1>1
<1>3. pc'[t] \in Idling /\ pc[t] \notin Idling
  BY <1>1 DEF TypeOK, Idling
<1>4. t \notin Taken(g)' /\ (t \in Taken(g) <=> h = g)
  BY <1>3, TakenOnce DEF Taken, Running
<1>5. Cardinality(Taken(g)) \in Nat
      /\ Cardinality(Taken(g)') = Cardinality(Taken(g)) - IF h = g THEN 1 ELSE 0
  BY <1>2, <1>4, CountsMove
<1>6. count \in [Group -> Int] /\ count'[g] = count[g] - IF h = g THEN 1 ELSE 0
  BY <1>1, SMTT(30) DEF TypeOK
<1>7. Queued(g)' = Queued(g) /\ Cardinality(Queued(g)) \in Nat
  <2>1. tasks \in Seq(Job)
    BY DEF TypeOK
  <2>2. Cardinality(Queued(g)) \in Nat
    BY <2>1, QueuedFinite
  <2> QED
    BY <1>1, <2>2 DEF Queued
<1>8. count[g] = Cardinality(Queued(g)) + Cardinality(Taken(g))
  BY DEF CountsExact
<1> HIDE DEF h
<1> QED
  BY <1>5, <1>6, <1>7, <1>8

(* A job that is added to the queue of a group that counts it.             *)
LEMMA AddCounts ==
  ASSUME TypeOK, CountsExact, NEW j \in Job, tasks' = Append(tasks, j),
         GroupOf(j) \in Group, count' = [count EXCEPT ![GroupOf(j)] = @ + 1],
         \A g \in Group : Taken(g)' = Taken(g)
  PROVE  CountsExact'
<1> SUFFICES ASSUME NEW g \in Group
             PROVE  count'[g] = Cardinality(Queued(g)') + Cardinality(Taken(g)')
  BY DEF CountsExact
<1>1. tasks \in Seq(Job) /\ count \in [Group -> Int]
  BY DEF TypeOK
<1>2. Cardinality(Queued(g)') = Cardinality(Queued(g)) + IF GroupOf(j) = g THEN 1 ELSE 0
  BY <1>1, QueueAppend
<1>3. count'[g] = count[g] + IF GroupOf(j) = g THEN 1 ELSE 0
  BY <1>1
<1>4. Cardinality(Queued(g)) \in Nat /\ Cardinality(Taken(g)) \in Nat
  BY <1>1, QueuedFinite, SetStays, TakenSets
<1>5. count[g] = Cardinality(Queued(g)) + Cardinality(Taken(g))
  BY DEF CountsExact
<1> QED
  BY <1>2, <1>3, <1>4, <1>5

LEMMA CountsKept ==
  ASSUME TypeOK, TypeOK', RequestsApart, GroupsExact, [Next]_vars
  PROVE  CountsExact' /\ ErasedAreEmpty'
<1> USE DEF GroupsExact
<1>1. \A t \in Thread : pc[t] \notin Idling =>
        job[t] \in Job /\ job[t].connection \in Connection /\ job[t].connection \in Group
  BY DEF TypeOK, Job, Group
<1>2. count \in [Group -> Int] /\ operation \in [Connection -> {"none", "over"} \union UnderWay]
      /\ pc \in [Thread -> PC] /\ Main \notin Connection
  BY JobAssumption DEF TypeOK, PC
<1>3. ASSUME UNCHANGED <<count, operation>> PROVE ErasedAreEmpty'
  BY <1>3 DEF ErasedAreEmpty
<1>4. ASSUME NEW t \in Thread, PoolStep(t) PROVE CountsExact' /\ ErasedAreEmpty'
  <2>1. UNCHANGED operation
    BY <1>4 DEF PoolStep, Start, Wake, TakeJob, Leave, Finish, Throw, requests
  <2>2. CASE TakeJob(t)
    BY <1>3, <2>1, <2>2, TakeJobCounts DEF TakeJob, groups
  <2>3. CASE Finish(t)
    <3>1. CountsExact'
      BY <2>3, FinishCounts
    <3>2. ASSUME NEW c \in Connection, operation'[c] \notin UnderWay PROVE count'[c] = 0
      <4>1. count[c] = 0 /\ c \in Group
        BY <2>1, <3>2 DEF ErasedAreEmpty, Group
      <4>2. GroupOf(job[t]) # c
        <5>1. t \notin Taken(c)
          <6>1. Cardinality(Queued(c)) \in Nat
            BY QueuedFinite DEF TypeOK
          <6>2. IsFiniteSet(Taken(c)) /\ Cardinality(Taken(c)) \in Nat
            BY SetStays, TakenSets
          <6>3. count[c] = Cardinality(Queued(c)) + Cardinality(Taken(c))
            BY <4>1 DEF CountsExact
          <6>4. Cardinality(Taken(c)) = 0
            BY <4>1, <6>1, <6>2, <6>3
          <6> QED
            BY <6>2, <6>4, FS_EmptySet
        <5>2. pc[t] \notin Idling
          BY <2>3 DEF Finish, Idling
        <5> QED
          BY <4>1, <5>1, <5>2, TakenOnce
      <4>3. count' = [count EXCEPT ![GroupOf(job[t])] = @ - 1]
        BY <2>3 DEF Finish
      <4> QED
        BY <1>2, <4>1, <4>2, <4>3
    <3> QED
      BY <3>1, <3>2 DEF ErasedAreEmpty
  <2>4. CASE Start(t) \/ Wake(t) \/ Leave(t) \/ Throw(t)
    <3>1. PICK l \in {"waiting", "woken", "gone", "done"} :
            /\ pc' = [pc EXCEPT ![t] = l] /\ UNCHANGED <<job, tasks, count>>
            /\ l \in Idling <=> pc[t] \in Idling
      BY <2>4 DEF Start, Wake, Leave, Throw, Goto, pool, groups, Idling
    <3>2. pc'[t] = l /\ \A u \in Thread \ {t} : pc'[u] = pc[u]
      BY <1>2, <3>1
    <3>3. CountsExact'
      BY <3>1, <3>2, CountsStay
    <3> QED
      BY <1>3, <2>1, <3>1, <3>3
  <2> QED
    BY <1>4, <2>2, <2>3, <2>4 DEF PoolStep
<1>5. ASSUME NEW t \in Thread, RequestStep(t) PROVE CountsExact' /\ ErasedAreEmpty'
  <2> DEFINE c == job[t].connection
  <2>1. pc[t] \notin Idling /\ c \in Connection /\ c \in Group /\ UNCHANGED job
    <3>1. pc[t] \notin Idling /\ UNCHANGED job
      BY <1>5
         DEF RequestStep, CreateThreadGroup, Offer, Divide, AddJob, Release,
             StartJoin, AwaitJobs, WakeJoin, EndJoin, JoinAgain, NotWorking, Idling
    <3> QED
      BY <1>1, <3>1
  <2>2. PICK l \in {"working", "offering", "releasing", "joining", "asleep", "caught", "done"} :
          pc' = [pc EXCEPT ![t] = l] \/ pc' = pc
    BY <1>5
       DEF RequestStep, CreateThreadGroup, Offer, Divide, AddJob, Release,
           StartJoin, AwaitJobs, WakeJoin, EndJoin, JoinAgain, NotWorking, Goto
  <2>3. /\ \A u \in Thread \ {t} : pc'[u] = pc[u]
        /\ pc[t] \in Idling <=> pc'[t] \in Idling
    <3>1. l \notin Idling
      BY DEF Idling
    <3> QED
      BY <1>2, <2>1, <2>2, <3>1
  <2>4. CASE AddJob(t)
    <3>1. operation[c] \in UnderWay
      <4>1. CASE job[t].kind = "request"
        BY <2>4, <4>1 DEF AddJob, OffersUnderWay
      <4>2. CASE job[t].kind # "request"
        <5>1. GroupOf(job[t]) = c
          BY <4>2 DEF GroupOf
        <5>2. t \in Taken(c)
          BY <2>1, <5>1, TakenOnce
        <5>3. IsFiniteSet(Taken(c)) /\ Cardinality(Taken(c)) \in Nat
          BY SetStays, TakenSets
        <5>4. Cardinality(Taken(c)) # 0
          BY <5>2, <5>3, FS_EmptySet
        <5>5. Cardinality(Queued(c)) \in Nat
          BY QueuedFinite DEF TypeOK
        <5>6. count[c] = Cardinality(Queued(c)) + Cardinality(Taken(c))
          BY <2>1 DEF CountsExact
        <5>7. count[c] # 0
          BY <5>3, <5>4, <5>5, <5>6
        <5> QED
          BY <2>1, <5>7 DEF ErasedAreEmpty
      <4> QED
        BY <4>1, <4>2
    <3> DEFINE j == [kind |-> "worker", connection |-> c]
    <3>2. j \in Job /\ GroupOf(j) = c
      BY <2>1 DEF Job, Kind, GroupOf
    <3>3. /\ tasks' = Append(tasks, j) /\ count' = [count EXCEPT ![c] = @ + 1]
          /\ UNCHANGED operation
      BY <2>4 DEF AddJob, requests
    <3>4. \A g \in Group : Taken(g)' = Taken(g)
      BY <2>1, <2>3 DEF Taken, Running
    <3>5. CountsExact'
      <4> HIDE DEF j, c
      <4> QED
        BY <2>1, <3>2, <3>3, <3>4, AddCounts
    <3>6. \A d \in Connection : d # c => count'[d] = count[d]
      BY <1>2, <3>3 DEF Group
    <3> HIDE DEF c, j
    <3>7. ErasedAreEmpty'
      BY <3>1, <3>3, <3>6 DEF ErasedAreEmpty
    <3> QED
      BY <3>5, <3>7
  <2>5. CASE CreateThreadGroup(t)
    <3>1. /\ count[c] = 0 /\ count' = [count EXCEPT ![c] = 0]
          /\ \E op \in UnderWay : operation' = [operation EXCEPT ![c] = op]
          /\ UNCHANGED tasks
      BY <2>1, <2>5, JobAssumption DEF CreateThreadGroup, ErasedAreEmpty, UnderWay, pool
    <3>2. count' = count
      BY <1>2, <2>1, <3>1
    <3>3. CountsExact'
      BY <2>1, <2>3, <3>1, <3>2, CountsStay
    <3>4. ErasedAreEmpty'
      BY <1>2, <2>1, <3>1, <3>2 DEF ErasedAreEmpty
    <3> QED
      BY <3>3, <3>4
  <2>6. CASE ~(AddJob(t) \/ CreateThreadGroup(t))
    <3>1. /\ UNCHANGED <<tasks, count>>
          /\ \/ operation' = operation
             \/ operation' = [operation EXCEPT ![c] = "over"] /\ count[c] = 0
             \/ operation' = [operation EXCEPT ![c] = "none"] /\ operation[c] \notin UnderWay
      BY <1>5, <2>6
         DEF RequestStep, Offer, Divide, Release, StartJoin, AwaitJobs, WakeJoin,
             EndJoin, JoinAgain, NotWorking, pool, groups, requests
    <3>2. CountsExact'
      BY <2>1, <2>3, <3>1, CountsStay
    <3>3. ErasedAreEmpty'
      BY <1>2, <2>1, <3>1 DEF ErasedAreEmpty
    <3> QED
      BY <3>2, <3>3
  <2> QED
    BY <2>4, <2>5, <2>6
<1>6. ASSUME NEW c \in Connection, Accept(c) PROVE CountsExact' /\ ErasedAreEmpty'
  <2> DEFINE j == [kind |-> "request", connection |-> c]
  <2>1. j \in Job /\ GroupOf(j) = Main /\ Main \in Group
    BY DEF Job, Kind, GroupOf, Group
  <2>2. /\ tasks' = Append(tasks, j) /\ count' = [count EXCEPT ![Main] = @ + 1]
        /\ UNCHANGED <<pc, job, operation>>
    BY <1>6 DEF Accept, requests
  <2>3. \A g \in Group : Taken(g)' = Taken(g)
    BY <2>2 DEF Taken, Running
  <2>4. \A d \in Connection : count'[d] = count[d]
    BY <1>2, <2>2 DEF Group
  <2> HIDE DEF j
  <2> QED
    BY <2>1, <2>2, <2>3, <2>4, AddCounts DEF ErasedAreEmpty
<1>7. CASE Proceed \/ Shutdown \/ UNCHANGED vars
  <2>1. UNCHANGED <<pc, job, tasks, count, operation>>
    BY <1>7
       DEF Proceed, ReleaseAccepted, AwaitRequests, Destroy, WakeAll,
           AwaitThreads, Shutdown, vars, pool, groups, requests
  <2> QED
    BY <1>3, <2>1 DEF CountsExact, Queued, Taken, Running
<1>8. ASSUME NEW t \in Thread, WriterStep(t) PROVE CountsExact' /\ ErasedAreEmpty'
  <2>1. /\ UNCHANGED <<job, tasks, count, operation>>
        /\ pc[t] \in {"working", "locking"} /\ pc'[t] \in {"working", "locking"}
        /\ \A u \in Thread \ {t} : pc'[u] = pc[u]
    BY <1>2, <1>8, WriterStepMoves DEF pool, groups
  <2>2. pc[t] \in Idling <=> pc'[t] \in Idling
    BY <2>1 DEF Idling
  <2>3. CountsExact'
    BY <2>1, <2>2, CountsStay
  <2> QED
    BY <1>3, <2>1, <2>3
<1> QED
  BY <1>4, <1>5, <1>6, <1>7, <1>8 DEF Next, ThreadStep, Request, Idle

LEMMA OffersKept ==
  ASSUME TypeOK, RequestsApart, OffersUnderWay, [Next]_vars
  PROVE  OffersUnderWay'
<1>1. \A t \in Thread : pc[t] \notin Idling => job[t].connection \in Connection
  BY DEF TypeOK, Job
<1>2. operation \in [Connection -> {"none", "over"} \union UnderWay] /\ pc \in [Thread -> PC]
  BY DEF TypeOK, PC
<1>3. ASSUME UNCHANGED operation,
             \A u \in Thread : pc'[u] = "offering" /\ job'[u].kind = "request" =>
               pc[u] = "offering" /\ job'[u] = job[u]
      PROVE  OffersUnderWay'
  BY <1>3 DEF OffersUnderWay
<1>4. ASSUME NEW t \in Thread, PoolStep(t) PROVE OffersUnderWay'
  <2>1. /\ UNCHANGED operation
        /\ \A u \in Thread \ {t} : pc'[u] = pc[u] /\ job'[u] = job[u]
        /\ pc'[t] # "offering"
    <3>1. PICK l \in {"waiting", "woken", "working", "done", "gone"} :
            pc' = [pc EXCEPT ![t] = l]
      BY <1>4 DEF PoolStep, Start, Wake, TakeJob, Leave, Finish, Throw, Goto
    <3>2. /\ UNCHANGED operation
          /\ \A u \in Thread \ {t} : job'[u] = job[u]
      BY <1>4 DEF PoolStep, Start, Wake, TakeJob, Leave, Finish, Throw, requests, TypeOK
    <3> QED
      BY <1>2, <3>1, <3>2
  <2> QED
    BY <1>3, <2>1
<1>5. ASSUME NEW t \in Thread, RequestStep(t) PROVE OffersUnderWay'
  <2> DEFINE c == job[t].connection
  <2>1. pc[t] \notin Idling \union {"done"} /\ c \in Connection /\ UNCHANGED job
    <3>1. pc[t] \notin Idling \union {"done"} /\ UNCHANGED job
      BY <1>5
         DEF RequestStep, CreateThreadGroup, Offer, Divide, AddJob, Release,
             StartJoin, AwaitJobs, WakeJoin, EndJoin, JoinAgain, NotWorking, Idling
    <3> QED
      BY <1>1, <3>1
  <2>2. \A u \in Thread \ {t} : pc'[u] = pc[u]
    <3>1. PICK l : pc' = [pc EXCEPT ![t] = l] \/ pc' = pc
      BY <1>5
         DEF RequestStep, CreateThreadGroup, Offer, Divide, AddJob, Release,
             StartJoin, AwaitJobs, WakeJoin, EndJoin, JoinAgain, NotWorking, Goto
    <3> QED
      BY <1>2, <3>1
  <2>3. CASE Offer(t)
    <3>1. operation[c] \in UnderWay /\ UNCHANGED operation
      BY <2>3 DEF Offer
    <3> QED
      BY <2>1, <2>2, <3>1 DEF OffersUnderWay
  <2>4. CASE Divide(t)
    <3>1. job[t].kind # "request" /\ UNCHANGED operation
      BY <2>4 DEF Divide
    <3> QED
      BY <2>1, <2>2, <3>1 DEF OffersUnderWay
  <2>5. CASE CreateThreadGroup(t)
    <3>1. PICK op \in UnderWay : operation' = [operation EXCEPT ![c] = op] /\ pc' = pc
      BY <2>5, JobAssumption DEF CreateThreadGroup, UnderWay
    <3>2. \A d \in Connection : operation[d] \in UnderWay => operation'[d] \in UnderWay
      BY <1>2, <3>1
    <3>3. \A u \in Thread : pc[u] = "offering" => job[u].connection \in Connection
      BY <1>1 DEF Idling
    <3> QED
      BY <2>1, <3>1, <3>2, <3>3 DEF OffersUnderWay
  <2>6. CASE EndJoin(t) \/ NotWorking(t)
    <3>1. /\ job[t].kind = "request" /\ pc'[t] # "offering"
          /\ \A d \in Connection \ {c} : operation'[d] = operation[d]
      BY <1>2, <2>6 DEF EndJoin, NotWorking, Goto, RequestsApart, Joining
    <3>2. ASSUME NEW u \in Thread, pc'[u] = "offering", job'[u].kind = "request"
          PROVE  operation'[job'[u].connection] \in UnderWay
      <4>1. u # t /\ pc[u] = "offering" /\ job'[u] = job[u] /\ job[u].kind = "request"
        BY <2>1, <2>2, <3>1, <3>2
      <4>2. job[u].connection \in Connection
        BY <1>1, <4>1 DEF Idling
      <4>3. Serves(t, c) /\ Serves(u, job[u].connection)
        BY <2>1, <3>1, <4>1 DEF Serves, Busy, Idling
      <4>4. job[u].connection # c
        BY <2>1, <4>1, <4>2, <4>3 DEF RequestsApart
      <4> QED
        BY <3>1, <4>1, <4>2, <4>4 DEF OffersUnderWay
    <3> QED
      BY <3>2 DEF OffersUnderWay
  <2>7. CASE AddJob(t) \/ Release(t) \/ StartJoin(t) \/ AwaitJobs(t) \/ WakeJoin(t)
             \/ JoinAgain(t)
    <3>1. UNCHANGED operation /\ (pc'[t] = "offering" => pc[t] = "offering")
      BY <1>2, <2>7 DEF AddJob, Release, StartJoin, AwaitJobs, WakeJoin, JoinAgain,
                        Goto, requests
    <3> QED
      BY <1>3, <2>1, <2>2, <3>1
  <2> QED
    BY <1>5, <2>3, <2>4, <2>5, <2>6, <2>7 DEF RequestStep
<1>6. CASE Proceed \/ Request \/ UNCHANGED vars
  <2>1. UNCHANGED <<pc, job, operation>>
    BY <1>6
       DEF Proceed, Request, ReleaseAccepted, AwaitRequests, Destroy, WakeAll,
           AwaitThreads, Shutdown, Accept, vars, requests
  <2> QED
    BY <1>3, <2>1
<1>7. ASSUME NEW t \in Thread, WriterStep(t) PROVE OffersUnderWay'
  <2>1. /\ UNCHANGED <<job, operation>>
        /\ pc'[t] \in {"working", "locking"}
        /\ \A u \in Thread \ {t} : pc'[u] = pc[u]
    BY <1>2, <1>7, WriterStepMoves
  <2> QED
    BY <1>3, <2>1
<1> QED
  BY <1>4, <1>5, <1>6, <1>7 DEF Next, ThreadStep, Idle

(* join erases a group only when none of its jobs is in the queue or with  *)
(* a thread; until then the group counts them.                             *)
THEOREM GroupOutlivesJobsCorrect == Spec => []GroupOutlivesJobs
<1>1. Init => GroupsExact
  <2> SUFFICES ASSUME Init PROVE GroupsExact
    OBVIOUS
  <2>1. \A g \in Group : Queued(g) = {} /\ Taken(g) = {} /\ count[g] = 0
    BY DEF Init, Queued, Taken, Running, Idling
  <2>2. CountsExact
    BY <2>1, FS_EmptySet DEF CountsExact
  <2>3. ErasedAreEmpty /\ OffersUnderWay
    BY <2>1 DEF Init, ErasedAreEmpty, OffersUnderWay, Group
  <2> QED
    BY <2>2, <2>3 DEF GroupsExact
<1>2. IInv /\ IInv' /\ GroupsExact /\ [Next]_vars => GroupsExact'
  BY CountsKept, OffersKept DEF IInv, GroupsExact
<1>3. GroupsExact => GroupOutlivesJobs
  BY DEF GroupsExact, CountsExact, ErasedAreEmpty, GroupOutlivesJobs, Taken, Group
<1> QED
  BY <1>1, <1>2, <1>3, Invariance, PTL DEF Spec
=============================================================================
