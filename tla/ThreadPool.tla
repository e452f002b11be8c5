------------------------------ MODULE ThreadPool ------------------------------
(***************************************************************************)
(* The thread pool, the interface that gives it the requests of            *)
(* connections, and the requests that split their work among its threads:  *)
(* ThreadPool, MTPaloHttpInterface::run, AggregationProcessorMT::aggregate *)
(* and StorageCpuCommitWorker::start.                                      *)
(*                                                                         *)
(* One pool serves both kinds of job.  A request runs on a thread of the   *)
(* pool, adds jobs of its own to the queue behind other requests and waits *)
(* for them in join, on its thread.  That this cannot use up the threads   *)
(* rests on hasFreeCore, which is asked without the mutex of the pool.     *)
(*                                                                         *)
(* Its other wait is that for writerslock, which a request holds while it  *)
(* merges its copy of the server, in a pessimistic try with its change and *)
(* the jobs of that: a request that waits for the mutex waits on a thread, *)
(* and the holder may wait for a job that needs one.  A try that fails is  *)
(* repeated with the same two uses of the mutex, which is left out         *)
(* (ServerCommit has the tries).                                           *)
(*                                                                         *)
(* Every addJob of the code has priority 0, so that the queue and the      *)
(* threads of high priority are never used and are left out.  A request    *)
(* that throws something other than an ErrorException while its jobs run   *)
(* is left out, too (StorageFragments has that of a commit).               *)
(***************************************************************************)
EXTENDS Integers, Sequences, FiniteSets

CONSTANTS
  Thread,          \* initSize threads
  NoThread,        \* has writerslock when it is free
  processorCount,
  Connection,
  Main,            \* the group of the interface
  Operation,       \* what a request may do with the pool
  MaxJobs,         \* bound: the jobs one operation adds
  MaxRequests,     \* bound: the requests until the shutdown
  SizeModulus      \* the range of a size_t

threads == Cardinality(Thread)

(* initSize is at least 16 and twice the number of processors.             *)
ASSUME PoolAssumption ==
  /\ IsFiniteSet(Thread)
  /\ processorCount \in Nat
  /\ processorCount < threads
  /\ NoThread \notin Thread

ASSUME JobAssumption ==
  /\ Main \notin Connection
  /\ Operation \subseteq {"aggregate", "commit"}
  /\ MaxJobs \in Nat /\ MaxRequests \in Nat
  /\ SizeModulus \in Nat /\ SizeModulus > threads

Group == Connection \union {Main}

VARIABLES
  pc,            \* where each thread is
  job,           \* the job it took
  tasks,         \* the queue of jobs
  wakeup,        \* the semaphore the threads wait for
  freeThreads,
  stop,
  stopped,       \* the semaphore of threads that ended
  count, sem,    \* of the group: jobs not done, semaphore of join
  errors,        \* the group has errors
  operation,     \* the operation of the request of the connection
  offered,       \* the jobs it added
  divided,       \* the jobs its workers added
  copy,          \* of the server: "none", "made" or "merged"
  writerslock,   \* the mutex of the writers: the thread that has it
  working,       \* the connection has a request
  main,          \* where the interface is
  undefined      \* an erased group was used

pool == <<tasks, wakeup, freeThreads, stop, stopped>>
groups == <<count, sem, errors>>
requests == <<operation, offered, divided, copy, writerslock>>
vars == <<pc, job, pool, groups, requests, working, main, undefined>>
-----------------------------------------------------------------------------
Kind == {"request", "worker"}
Job == [kind : Kind, connection : Connection]
NoJob == [kind |-> "none", connection |-> Main]

(* Under way: the group of the operation exists.                           *)
UnderWay == {"aggregate", "commit"}

GroupOf(j) == IF j.kind = "request" THEN Main ELSE j.connection

Init ==
  /\ pc = [t \in Thread |-> "starting"]
  /\ job = [t \in Thread |-> NoJob]
  /\ tasks = <<>>
  /\ wakeup = 0
  /\ freeThreads = 0
  /\ stop = FALSE
  /\ stopped = 0
  /\ count = [g \in Group |-> 0]
  /\ sem = [g \in Group |-> 0]
  /\ errors = [g \in Group |-> FALSE]
  /\ operation = [c \in Connection |-> "none"]
  /\ offered = [c \in Connection |-> 0]
  /\ divided = [c \in Connection |-> 0]
  /\ copy = [c \in Connection |-> "none"]
  /\ writerslock = NoThread
  /\ working = [c \in Connection |-> FALSE]
  /\ main = "accepting"
  /\ undefined = FALSE

Goto(t, l) == pc' = [pc EXCEPT ![t] = l]
-----------------------------------------------------------------------------
(* A thread of the pool: ThreadPool::operator().                           *)
Start(t) ==
  /\ pc[t] = "starting"
  /\ freeThreads' = freeThreads + 1
  /\ Goto(t, "waiting")
  /\ UNCHANGED <<job, tasks, wakeup, stop, stopped, groups, requests, working,
                 main, undefined>>

(* Mutant: the semaphore is not counted down.                              *)
WakeAndKeep(t) ==
  /\ pc[t] = "waiting"
  /\ wakeup > 0
  /\ Goto(t, "woken")
  /\ UNCHANGED <<job, pool, groups, requests, working, main, undefined>>

Wake(t) ==
  /\ pc[t] = "waiting"
  /\ wakeup > 0
  /\ wakeup' = wakeup - 1
  /\ Goto(t, "woken")
  /\ UNCHANGED <<job, tasks, freeThreads, stop, stopped, groups, requests,
                 working, main, undefined>>

(* tasks.front(): a job of a group with errors is dropped.                 *)
TakeJob(t) ==
  /\ pc[t] = "woken"
  /\ ~stop
  /\ tasks # <<>>
  /\ tasks' = Tail(tasks)
  /\ freeThreads' = freeThreads - 1
  /\ job' = [job EXCEPT ![t] = Head(tasks)]
  /\ Goto(t, IF errors[GroupOf(Head(tasks))] THEN "done" ELSE "working")
  /\ UNCHANGED <<wakeup, stop, stopped, groups, requests, working, main,
                 undefined>>

Leave(t) ==
  /\ pc[t] = "woken"
  /\ stop
  /\ stopped' = stopped + 1
  /\ Goto(t, "gone")
  /\ UNCHANGED <<job, tasks, wakeup, freeThreads, stop, groups, requests,
                 working, main, undefined>>

(* Mutant: join is not told.                                               *)
FinishSilent(t) ==
  LET g == GroupOf(job[t]) IN
  /\ \/ pc[t] = "done"
     \/ pc[t] = "working" /\ job[t].kind = "worker"
  /\ freeThreads' = freeThreads + 1
  /\ count' = [count EXCEPT ![g] = @ - 1]
  /\ job' = [job EXCEPT ![t] = NoJob]
  /\ Goto(t, "waiting")
  /\ UNCHANGED <<tasks, wakeup, stop, stopped, sem, errors, requests, working,
                 main, undefined>>

(* job.reset(), and ~TGReleaser under the mutex.                           *)
Finish(t) ==
  LET g == GroupOf(job[t]) IN
  /\ \/ pc[t] = "done"
     \/ pc[t] = "working" /\ job[t].kind = "worker"
  /\ freeThreads' = freeThreads + 1
  /\ count' = [count EXCEPT ![g] = @ - 1]
  /\ sem' = [sem EXCEPT ![g] = @ + 1]
  /\ job' = [job EXCEPT ![t] = NoJob]
  /\ Goto(t, "waiting")
  /\ UNCHANGED <<tasks, wakeup, stop, stopped, errors, requests, working,
                 main, undefined>>

(* An exception of a worker is kept for its group.                         *)
Throw(t) ==
  /\ pc[t] = "working"
  /\ job[t].kind = "worker"
  /\ errors' = [errors EXCEPT ![GroupOf(job[t])] = TRUE]
  /\ Goto(t, "done")
  /\ UNCHANGED <<job, pool, count, sem, requests, working, main, undefined>>
-----------------------------------------------------------------------------
(* Mutant: the thread that asks is counted as free.                        *)
HasFreeCoreOneMore(countThis) ==
  IF countThis THEN (freeThreads - 1) % SizeModulus >= threads - processorCount
               ELSE freeThreads + 1 >= threads - processorCount

(* With countThis the difference of a size_t wraps when no thread is free. *)
HasFreeCore(countThis) ==
  IF countThis THEN (freeThreads - 1) % SizeModulus >= threads - processorCount
               ELSE freeThreads >= threads - processorCount

(* A request begins an operation that uses the pool.                       *)
CreateThreadGroup(t) ==
  LET c == job[t].connection IN
  /\ pc[t] = "working"
  /\ job[t].kind = "request"
  /\ operation[c] = "none"
  /\ \E op \in Operation :
       /\ op = "commit" => copy[c] = "made"
       /\ operation' = [operation EXCEPT ![c] = op]
  /\ count' = [count EXCEPT ![c] = 0]
  /\ sem' = [sem EXCEPT ![c] = 0]
  /\ errors' = [errors EXCEPT ![c] = FALSE]
  /\ offered' = [offered EXCEPT ![c] = 0]
  /\ divided' = [divided EXCEPT ![c] = 0]
  /\ UNCHANGED <<pc, job, pool, copy, writerslock, working, main, undefined>>

(* The operation sees a free core and is going to add a job: readCallback  *)
(* of AggregationProcessorMT, and start before its addJob.                 *)
Offer(t) ==
  LET c == job[t].connection IN
  /\ pc[t] = "working"
  /\ job[t].kind = "request"
  /\ operation[c] \in UnderWay
  /\ offered[c] + divided[c] < MaxJobs
  /\ HasFreeCore(FALSE)
  /\ offered' = [offered EXCEPT ![c] = @ + 1]
  /\ Goto(t, "offering")
  /\ UNCHANGED <<job, pool, groups, operation, divided, copy, writerslock, working,
                 main, undefined>>

(* So does a worker of an aggregation: AggregationProcessorWorker.         *)
Divide(t) ==
  LET c == job[t].connection IN
  /\ pc[t] = "working"
  /\ job[t].kind = "worker"
  /\ operation[c] = "aggregate"
  /\ offered[c] + divided[c] < MaxJobs
  /\ HasFreeCore(TRUE)
  /\ divided' = [divided EXCEPT ![c] = @ + 1]
  /\ Goto(t, "offering")
  /\ UNCHANGED <<job, pool, groups, operation, offered, copy, writerslock, working,
                 main, undefined>>

(* Mutant: the group does not know of the job.                             *)
AddJobUncounted(t) ==
  LET c == job[t].connection IN
  /\ pc[t] = "offering"
  /\ tasks' = Append(tasks, [kind |-> "worker", connection |-> c])
  /\ Goto(t, "releasing")
  /\ UNCHANGED <<job, wakeup, freeThreads, stop, stopped, groups, requests,
                 working, main, undefined>>

(* addJob under the mutex, and then its release of the semaphore.          *)
AddJob(t) ==
  LET c == job[t].connection IN
  /\ pc[t] = "offering"
  /\ tasks' = Append(tasks, [kind |-> "worker", connection |-> c])
  /\ count' = [count EXCEPT ![c] = @ + 1]
  /\ Goto(t, "releasing")
  /\ UNCHANGED <<job, wakeup, freeThreads, stop, stopped, sem, errors,
                 requests, working, main, undefined>>

Release(t) ==
  /\ pc[t] = "releasing"
  /\ wakeup' = wakeup + 1
  /\ Goto(t, "working")
  /\ UNCHANGED <<job, tasks, freeThreads, stop, stopped, groups, requests,
                 working, main, undefined>>

(* join: tg->sem->set(0), then test the count and wait in turn.            *)
StartJoin(t) ==
  LET c == job[t].connection IN
  /\ pc[t] = "working"
  /\ job[t].kind = "request"
  /\ operation[c] \in UnderWay
  /\ sem' = [sem EXCEPT ![c] = 0]
  /\ Goto(t, "joining")
  /\ UNCHANGED <<job, pool, count, errors, requests, working, main, undefined>>

AwaitJobs(t) ==
  LET c == job[t].connection IN
  /\ pc[t] = "joining"
  /\ count[c] > 0
  /\ Goto(t, "asleep")
  /\ UNCHANGED <<job, pool, groups, requests, working, main, undefined>>

WakeJoin(t) ==
  LET c == job[t].connection IN
  /\ pc[t] = "asleep"
  /\ sem[c] > 0
  /\ sem' = [sem EXCEPT ![c] = @ - 1]
  /\ Goto(t, "joining")
  /\ UNCHANGED <<job, pool, count, errors, requests, working, main, undefined>>

(* All jobs are done: join erases the group, with all that belongs to it,  *)
(* and throws its first error.  aggregate catches that.                    *)
EndJoin(t) ==
  LET c == job[t].connection IN
  /\ pc[t] = "joining"
  /\ count[c] = 0
  /\ operation' = [operation EXCEPT ![c] = "over"]
  /\ sem' = [sem EXCEPT ![c] = 0]
  /\ errors' = [errors EXCEPT ![c] = FALSE]
  /\ offered' = [offered EXCEPT ![c] = 0]
  /\ divided' = [divided EXCEPT ![c] = 0]
  /\ Goto(t, IF errors[c] /\ operation[c] = "aggregate" THEN "caught"
                                                        ELSE "working")
  /\ UNCHANGED <<job, pool, count, copy, writerslock, working, main, undefined>>

(* The catch of aggregate joins the group again, which does not exist any  *)
(* more: whatever follows is undefined.                                    *)
JoinAgain(t) ==
  /\ pc[t] = "caught"
  /\ undefined' = TRUE
  /\ UNCHANGED <<pc, job, pool, groups, requests, working, main>>

(* A request that changes something asks for writerslock twice: to copy    *)
(* the server, in getInstance, before it reads cells, and to merge its     *)
(* copy, in commit.                                                        *)
AskForWriters(t) ==
  LET c == job[t].connection IN
  /\ pc[t] = "working"
  /\ job[t].kind = "request"
  /\ \/ copy[c] = "none" /\ operation[c] = "none"
     \/ copy[c] = "made" /\ operation[c] \notin UnderWay /\ writerslock # t
  /\ Goto(t, "locking")
  /\ UNCHANGED <<job, pool, groups, requests, working, main, undefined>>

GetServerCopy(t) ==
  LET c == job[t].connection IN
  /\ pc[t] = "locking"
  /\ writerslock = NoThread
  /\ copy[c] = "none"
  /\ copy' = [copy EXCEPT ![c] = "made"]
  /\ Goto(t, "working")
  /\ UNCHANGED <<job, pool, groups, operation, offered, divided, writerslock,
                 working, main, undefined>>

LockWriters(t) ==
  LET c == job[t].connection IN
  /\ pc[t] = "locking"
  /\ writerslock = NoThread
  /\ copy[c] = "made"
  /\ writerslock' = t
  /\ Goto(t, "working")
  /\ UNCHANGED <<job, pool, groups, operation, offered, divided, copy, working,
                 main, undefined>>

(* The merge is over.  In a pessimistic try the change was made in it, and *)
(* the operation with the pool.                                            *)
UnlockWriters(t) ==
  LET c == job[t].connection IN
  /\ pc[t] = "working"
  /\ writerslock = t
  /\ operation[c] \notin UnderWay
  /\ writerslock' = NoThread
  /\ copy' = [copy EXCEPT ![c] = "merged"]
  /\ UNCHANGED <<pc, job, pool, groups, operation, offered, divided, working,
                 main, undefined>>

(* The end of ConnectionHandler::operator(): the connection may have its   *)
(* next request.                                                           *)
NotWorking(t) ==
  LET c == job[t].connection IN
  /\ pc[t] = "working"
  /\ job[t].kind = "request"
  /\ operation[c] \notin UnderWay
  /\ writerslock # t
  /\ working' = [working EXCEPT ![c] = FALSE]
  /\ operation' = [operation EXCEPT ![c] = "none"]
  /\ copy' = [copy EXCEPT ![c] = "none"]
  /\ Goto(t, "done")
  /\ UNCHANGED <<job, pool, groups, offered, divided, writerslock, main, undefined>>
-----------------------------------------------------------------------------
(* Mutant: a connection that has a request is not left out.                *)
AcceptAnother(c) ==
  /\ main = "accepting"
  /\ count[Main] + sem[Main] < MaxRequests
  /\ working' = [working EXCEPT ![c] = TRUE]
  /\ tasks' = Append(tasks, [kind |-> "request", connection |-> c])
  /\ count' = [count EXCEPT ![Main] = @ + 1]
  /\ main' = "releasing"
  /\ UNCHANGED <<pc, job, wakeup, freeThreads, stop, stopped, sem, errors,
                 requests, undefined>>

(* MTPaloHttpInterface::run: a connection has data to read.                *)
Accept(c) ==
  /\ main = "accepting"
  /\ ~working[c]
  /\ count[Main] + sem[Main] < MaxRequests
  /\ working' = [working EXCEPT ![c] = TRUE]
  /\ tasks' = Append(tasks, [kind |-> "request", connection |-> c])
  /\ count' = [count EXCEPT ![Main] = @ + 1]
  /\ main' = "releasing"
  /\ UNCHANGED <<pc, job, wakeup, freeThreads, stop, stopped, sem, errors,
                 requests, undefined>>

ReleaseAccepted ==
  /\ main = "releasing"
  /\ wakeup' = wakeup + 1
  /\ main' = "accepting"
  /\ UNCHANGED <<pc, job, tasks, freeThreads, stop, stopped, groups, requests,
                 working, undefined>>

(* The server is to shut down: the interface joins its requests.           *)
Shutdown ==
  /\ main = "accepting"
  /\ sem' = [sem EXCEPT ![Main] = 0]
  /\ main' = "joining"
  /\ UNCHANGED <<pc, job, pool, count, errors, requests, working, undefined>>

AwaitRequests ==
  /\ \/ main = "joining" /\ count[Main] > 0 /\ main' = "asleep" /\ UNCHANGED sem
     \/ /\ main = "asleep" /\ sem[Main] > 0
        /\ sem' = [sem EXCEPT ![Main] = @ - 1]
        /\ main' = "joining"
  /\ UNCHANGED <<pc, job, pool, count, errors, requests, working, undefined>>

(* destroy: set stop, wake all threads, wait for them to end.              *)
Destroy ==
  /\ main = "joining"
  /\ count[Main] = 0
  /\ stop' = TRUE
  /\ main' = "destroying"
  /\ UNCHANGED <<pc, job, tasks, wakeup, freeThreads, stopped, groups, requests,
                 working, undefined>>

(* Mutant: as many are woken as there are processors.                      *)
WakeProcessors ==
  /\ main = "destroying"
  /\ wakeup' = wakeup + processorCount
  /\ main' = "destroyed"
  /\ UNCHANGED <<pc, job, tasks, freeThreads, stop, stopped, groups, requests,
                 working, undefined>>

WakeAll ==
  /\ main = "destroying"
  /\ wakeup' = wakeup + threads
  /\ main' = "destroyed"
  /\ UNCHANGED <<pc, job, tasks, freeThreads, stop, stopped, groups, requests,
                 working, undefined>>

AwaitThreads ==
  /\ main = "destroyed"
  /\ stopped >= threads
  /\ stopped' = stopped - threads
  /\ main' = "ended"
  /\ UNCHANGED <<pc, job, tasks, wakeup, freeThreads, stop, groups, requests,
                 working, undefined>>
-----------------------------------------------------------------------------
PoolStep(t) ==
  Start(t) \/ Wake(t) \/ TakeJob(t) \/ Leave(t) \/ Finish(t) \/ Throw(t)

RequestStep(t) ==
  \/ CreateThreadGroup(t) \/ Offer(t) \/ Divide(t) \/ AddJob(t) \/ Release(t)
  \/ StartJoin(t) \/ AwaitJobs(t) \/ WakeJoin(t) \/ EndJoin(t)
  \/ JoinAgain(t) \/ NotWorking(t)

WriterStep(t) ==
  AskForWriters(t) \/ GetServerCopy(t) \/ LockWriters(t) \/ UnlockWriters(t)

ThreadStep(t) == ~undefined /\ (PoolStep(t) \/ RequestStep(t) \/ WriterStep(t))

(* What the interface does without a client or a signal.                   *)
Proceed ==
  /\ ~undefined
  /\ ReleaseAccepted \/ AwaitRequests \/ Destroy \/ WakeAll \/ AwaitThreads

Request == ~undefined /\ (Shutdown \/ \E c \in Connection : Accept(c))

Idle == (undefined \/ main = "ended") /\ UNCHANGED vars

Next == (\E t \in Thread : ThreadStep(t)) \/ Proceed \/ Request \/ Idle

Spec == Init /\ [][Next]_vars

(* Threads run on.                                                         *)
FairSpec == Spec /\ WF_vars(Proceed) /\ \A t \in Thread : WF_vars(ThreadStep(t))
-----------------------------------------------------------------------------
Idling == {"starting", "waiting", "woken", "gone"}

Joining == {"joining", "asleep"}

(* The jobs of a group that are in the queue or on a thread.               *)
Queued(g) == {i \in DOMAIN tasks : GroupOf(tasks[i]) = g}
Running(g) == {t \in Thread : pc[t] \notin Idling /\ GroupOf(job[t]) = g}

TypeOK ==
  /\ pc \in [Thread -> Idling \union Joining \union
               {"working", "offering", "releasing", "caught", "locking", "done"}]
  /\ job \in [Thread -> Job \union {NoJob}]
  /\ tasks \in Seq(Job)
  /\ {wakeup, freeThreads, stopped} \subseteq Nat
  /\ count \in [Group -> Int] /\ sem \in [Group -> Nat]
  /\ errors \in [Group -> BOOLEAN]
  /\ operation \in [Connection -> {"none", "over"} \union UnderWay]
  /\ offered \in [Connection -> 0 .. MaxJobs]
  /\ divided \in [Connection -> 0 .. MaxJobs]
  /\ copy \in [Connection -> {"none", "made", "merged"}]
  /\ writerslock \in Thread \union {NoThread}
  /\ working \in [Connection -> BOOLEAN]
  /\ main \in {"accepting", "releasing", "joining", "asleep", "destroying",
               "destroyed", "ended"}
  /\ {stop, undefined} \subseteq BOOLEAN
  /\ \A t \in Thread : pc[t] \notin Idling <=> job[t] # NoJob

(* A thread that was woken calls tasks.front() without a look at the       *)
(* queue: there is a task for it unless the pool stops.                    *)
TaskForEveryWakeup ==
  ~stop => \A t \in Thread : pc[t] = "woken" => tasks # <<>>

(* freeThreads, which hasFreeCore and getUsage read, counts the threads    *)
(* that do nothing.                                                        *)
FreeThreadsExact ==
  freeThreads = Cardinality({t \in Thread : pc[t] \in Idling \ {"starting"}})

(* The requests that have added jobs and are not done with them.           *)
Parents ==
  {t \in Thread :
     /\ pc[t] \notin Idling \union {"done"}
     /\ job[t].kind = "request"
     /\ operation[job[t].connection] \in UnderWay
     /\ offered[job[t].connection] > 0}

(* Never more threads than there are processors wait, or will wait, for    *)
(* jobs they added, though they read freeThreads without the mutex and add *)
(* their jobs later.                                                       *)
ParentsWithinProcessors == Cardinality(Parents) <= processorCount

(* join erases a group only after its last job: no job in the queue or on  *)
(* a thread belongs to a group that was erased, and count counts them.     *)
GroupOutlivesJobs ==
  \A g \in Group :
    /\ count[g] = Cardinality(Queued(g)) +
                  Cardinality({t \in Running(g) :
                                 g = Main \/ job[t].kind = "worker"})
    /\ g # Main /\ operation[g] \notin UnderWay => count[g] = 0

(* A connection has at most one request at a time that works on it.        *)
OneRequestEach ==
  \A t, u \in Thread :
    /\ t # u
    /\ \A v \in {t, u} : pc[v] \notin Idling \union {"done"}
    /\ job[t].kind = "request" /\ job[u].kind = "request"
    => job[t].connection # job[u].connection

(* No thread goes on: one waits in join with writerslock for a job that    *)
(* only a further thread could take, and the others for writerslock or for *)
(* jobs of theirs.                                                         *)
Overrun ==
  /\ writerslock # NoThread
  /\ \A t \in Thread : \/ pc[t] = "locking"
                       \/ pc[t] = "asleep" /\ count[job[t].connection] > 0

(* Every request that was accepted is done at some time, unless requests   *)
(* that wait for writerslock take all threads from the one that has it.    *)
EveryRequestServed ==
  \A c \in Connection : working[c] ~> ~working[c] \/ undefined \/ Overrun

(* So does the shutdown come to its end.                                   *)
ShutdownEnds == main = "joining" ~> main = "ended" \/ undefined \/ Overrun
=============================================================================
