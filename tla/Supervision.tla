---------------------------- MODULE Supervision ----------------------------
(***************************************************************************)
(* The supervision of cell writes.  A cube has a worker: a process that is *)
(* asked, over pipes, what to do when a user writes a cell of its areas.   *)
(* The process answers after it has sent requests of its own to the        *)
(* server: event/begin, cell/replace and event/end.  Threads of the server *)
(* serve them with the Context of the job that waits for the answer, whose *)
(* copy of the tree they change and which commits for them.                *)
(*                                                                         *)
(* The process can die at any time, also with a request on its way, which  *)
(* a thread may take up later (a late request).  The job that waits starts *)
(* it again and repeats its question.                                      *)
(*                                                                         *)
(* The cells are counts of how often each write was done.  The writers'    *)
(* and the readers' tree are one here, see ServerCommit.                   *)
(***************************************************************************)
EXTENDS Naturals, FiniteSets

CONSTANTS
  Job,            \* requests that write a cell
  Supervised,     \* those whose cell is in an area of the worker
  NoJob,          \* no Context, or a free mutex
  EventWrites,    \* how many cells the process writes in an event
  maxFailures,    \* Worker::maxFailures
  MaxCrashes,     \* how often the process dies (bound)
  MaxLate         \* how many requests outlive their process (bound)

ASSUME SupervisionAssumption ==
  /\ Supervised \subseteq Job
  /\ NoJob \notin Job
  /\ {EventWrites, maxFailures} \subseteq Nat \ {0}
  /\ {MaxCrashes, MaxLate} \subseteq Nat

COMMIT_REPEATS_CELL_REPLACE == 2

VARIABLES
  server,       \* the latest tree: cells, version of the pages, blocking
  writerslock,  \* the job in Server::merge that waits there, or NoJob
  pc, commitTry,
  context,      \* of each job: its copy of the tree and the flag worker
  worker,       \* mutex, status, numFailures, the session's workercontext
  process,      \* the process: its number, the question, its progress
  requests,     \* requests of processes that the server has not served
  undefined,    \* a Context was used that is deleted or in use elsewhere
  history       \* crashes, late requests, jobs that asked again, that ended an event

vars == <<server, writerslock, pc, commitTry, context, worker, process,
          requests, undefined, history>>

-----------------------------------------------------------------------------
Cell == Job \X (1 .. EventWrites)

optimistic(j) == commitTry[j] = 0

(* The steps of the process for one question: 0 before event/begin, then   *)
(* one cell/replace each, then event/end.                                  *)
Last == EventWrites + 1

Kind(step) == IF step = 0 THEN "begin" ELSE IF step = Last THEN "end" ELSE "write"

Request == [process : Nat, step : 0 .. Last, stage : {"sent", "bound"},
            context : Job \union {NoJob}, commitTry : Nat]

Late(r) == r.process # process.number \/ ~process.alive

TypeOK ==
  /\ server.cells \in [Cell -> Nat]
  /\ {server.blocking, worker.running, process.alive, undefined} \subseteq BOOLEAN
  /\ {writerslock, worker.mutex, worker.context, process.line}
       \subseteq Job \union {NoJob}
  /\ pc \in [Job -> {"start", "change", "locked", "ready", "waiting", "answered",
                     "changed", "done", "failed"}]
  /\ commitTry \in [Job -> 0 .. COMMIT_REPEATS_CELL_REPLACE]
  /\ worker.numFailures \in 0 .. maxFailures
  /\ process.reply \in {"none", "DONE", "ERROR"}
  /\ requests \subseteq Request

Idle == [number |-> 1, alive |-> TRUE, line |-> NoJob, quiet |-> FALSE,
         step |-> 0, reply |-> "none"]

NoCopy == [worker |-> FALSE]

(* The start of the server has started the worker.                         *)
Init ==
  /\ server = [cells |-> [c \in Cell |-> 0], pages |-> 0, blocking |-> FALSE]
  /\ writerslock = NoJob
  /\ pc = [j \in Job |-> "start"]
  /\ commitTry = [j \in Job |-> 0]
  /\ context = [j \in Job |-> NoCopy]
  /\ worker = [mutex |-> NoJob, running |-> TRUE, numFailures |-> 0, context |-> NoJob]
  /\ process = Idle
  /\ requests = {}
  /\ undefined = FALSE
  /\ history = [crashes |-> 0, late |-> {}, again |-> {},
                ended |-> {}]

-----------------------------------------------------------------------------
(* The job.                                                                *)

(* CellReplaceJob: within an event the worker is not asked.                *)
GetServerCopy(j) ==
  /\ pc[j] = "start"
  /\ context' = [context EXCEPT ![j] =
       [server |-> server, old |-> server, checkArea |-> ~server.blocking,
        worker |-> FALSE]]
  /\ pc' = [pc EXCEPT ![j] = "change"]
  /\ history' = [history EXCEPT !.ended = @ \ {j}]
  /\ UNCHANGED <<server, writerslock, commitTry, worker, process, requests,
                 undefined>>

(* The pessimistic try changes the latest cells with the mutex held.       *)
LockWriters(j) ==
  /\ pc[j] = "change" /\ ~optimistic(j)
  /\ writerslock = NoJob
  /\ writerslock' = j
  /\ context' = [context EXCEPT ![j].server.cells = server.cells,
                                ![j].server.pages = server.pages]
  /\ pc' = [pc EXCEPT ![j] = "locked"]
  /\ UNCHANGED <<server, commitTry, worker, process, requests, undefined, history>>

MakesChange(j) == pc[j] = IF optimistic(j) THEN "change" ELSE "locked"

AsksWorker(j) == j \in Supervised /\ context[j].checkArea

Unlocked(j) == IF writerslock = j THEN NoJob ELSE writerslock

Written(copy, c) == [copy EXCEPT !.cells[c] = @ + 1, !.pages = copy.pages + 1]

SetCellValue(j) ==
  /\ MakesChange(j) /\ ~AsksWorker(j)
  /\ context' = [context EXCEPT ![j].server = Written(@, <<j, 1>>)]
  /\ pc' = [pc EXCEPT ![j] = "changed"]
  /\ UNCHANGED <<server, writerslock, commitTry, worker, process, requests,
                 undefined, history>>

(* PaloJob::clear, or the end of the job: its Context is reset.            *)
Reset(j) == context' = [context EXCEPT ![j] = NoCopy]

(* A try that does not commit: the job starts again, or gives up.          *)
Repeat(j) ==
  /\ Reset(j)
  /\ commitTry' = [commitTry EXCEPT ![j] = @ + 1]
  /\ pc' = [pc EXCEPT ![j] = IF commitTry[j] + 1 < COMMIT_REPEATS_CELL_REPLACE
                             THEN "start" ELSE "failed"]
  /\ writerslock' = Unlocked(j)

(* Mutant: the ERROR of the worker is not raised, the job goes on.         *)
IgnoreError(j) ==
  /\ UNCHANGED context
  /\ pc' = [pc EXCEPT ![j] = "changed"]
  /\ UNCHANGED <<writerslock, commitTry>>

Throw(j) ==
  /\ Reset(j)
  /\ pc' = [pc EXCEPT ![j] = "failed"]
  /\ writerslock' = Unlocked(j)
  /\ UNCHANGED commitTry

(* What the other side does when the process has died: nothing is left of  *)
(* it but perhaps its request.                                             *)
NewProcess(line) ==
  [Idle EXCEPT !.number = process.number + 1, !.line = line, !.quiet = process.quiet]

Crashes ==
  /\ history.crashes < MaxCrashes
  /\ history' = [history EXCEPT !.crashes = @ + 1]

(* CubeWorker::start looks under the mutex, which execute takes again.     *)
FindRunning(j) ==
  /\ MakesChange(j) /\ AsksWorker(j)
  /\ worker.mutex = NoJob /\ worker.running
  /\ pc' = [pc EXCEPT ![j] = "ready"]
  /\ UNCHANGED <<server, writerslock, commitTry, context, worker, process,
                 requests, undefined, history>>

(* The process dies at the question for its areas: execute restarts it and *)
(* asks again, or throws at the last failure, as in Restart below.         *)
DiesAtAreas(j) ==
  /\ worker' = [worker EXCEPT !.running = TRUE, !.numFailures = @ + 1,
                              !.context = IF worker.numFailures + 1 < maxFailures
                                          THEN NoJob ELSE j]
  /\ process' = [NewProcess(NoJob) EXCEPT !.alive = worker.numFailures + 1 < maxFailures]
  /\ IF worker.numFailures + 1 < maxFailures
     THEN /\ pc' = [pc EXCEPT ![j] = "ready"]
          /\ UNCHANGED <<writerslock, commitTry, context>>
     ELSE Throw(j)

(* CubeWorker::start, for a worker that is not running.  The new process   *)
(* is told its session, which it may not live to answer, and asked for its *)
(* areas.  It dies once at most here, and no other step falls in between.  *)
StartWorker(j) ==
  /\ MakesChange(j) /\ AsksWorker(j)
  /\ worker.mutex = NoJob /\ ~worker.running
  /\ \/ /\ worker' = [worker EXCEPT !.running = TRUE]
        /\ process' = NewProcess(NoJob)
        /\ pc' = [pc EXCEPT ![j] = "ready"]
        /\ UNCHANGED <<writerslock, commitTry, context, history>>
     \/ /\ Crashes
        /\ Throw(j)
        /\ UNCHANGED <<worker, process>>
     \/ /\ Crashes
        /\ worker.numFailures < maxFailures
        /\ DiesAtAreas(j)
  /\ UNCHANGED <<server, requests, undefined>>

(* What execute does with the mutex: another job's restart may have failed *)
(* since start.                                                            *)
FirstLine(j) ==
  /\ \/ /\ ~worker.running
        /\ Repeat(j)
        /\ UNCHANGED <<worker, process>>
     \/ /\ worker.running /\ worker.numFailures >= maxFailures
        /\ Throw(j)
        /\ UNCHANGED <<worker, process>>
     \/ /\ worker.running /\ worker.numFailures < maxFailures
        /\ worker' = [worker EXCEPT !.mutex = j, !.context = j]
        /\ \E quiet \in BOOLEAN :
             process' = [process EXCEPT !.line = j, !.quiet = quiet,
                                        !.step = 0, !.reply = "none"]
        /\ pc' = [pc EXCEPT ![j] = "waiting"]
        /\ UNCHANGED <<writerslock, commitTry, context>>
  /\ UNCHANGED <<server, requests, undefined, history>>

(* Mutant: execute does not take the mutex.                                *)
ExecuteUnlocked(j) == pc[j] = "ready" /\ FirstLine(j)

(* Worker::execute up to its first sendLine.                               *)
Execute(j) == pc[j] = "ready" /\ worker.mutex = NoJob /\ FirstLine(j)

(* execute finds that the process is dead.  At the last failure restart    *)
(* throws: the workercontext of the session is not reset.                  *)
Restart(j) ==
  /\ pc[j] = "waiting"
  /\ ~process.alive /\ process.reply = "none"
  /\ \/ /\ worker.numFailures + 1 >= maxFailures
        /\ worker' = [worker EXCEPT !.numFailures = @ + 1, !.mutex = NoJob]
        /\ Throw(j)
        /\ UNCHANGED <<process, history>>
     \/ /\ worker.numFailures + 1 < maxFailures
        /\ worker' = [worker EXCEPT !.numFailures = @ + 1]
        /\ process' = NewProcess(j)
        /\ history' = [history EXCEPT !.again = @ \union {j},
                                         !.ended = @ \ {j}]
        /\ UNCHANGED <<writerslock, pc, commitTry, context>>
     \/ /\ worker.numFailures + 1 < maxFailures
        /\ Crashes
        /\ worker' = [worker EXCEPT !.numFailures = @ + 1, !.mutex = NoJob,
                                    !.context = NoJob, !.running = FALSE]
        /\ Repeat(j)
        /\ UNCHANGED process
  /\ UNCHANGED <<server, requests, undefined>>

(* The answer is there: DONE, or an ERROR or EXCEPTION that fails the job. *)
ReadResult(j) ==
  /\ pc[j] = "waiting"
  /\ process.reply # "none"
  /\ worker' = [worker EXCEPT !.mutex = NoJob, !.context = NoJob]
  /\ process' = [process EXCEPT !.line = NoJob, !.reply = "none"]
  /\ IF process.reply = "DONE"
     THEN /\ pc' = [pc EXCEPT ![j] = "answered"]
          /\ UNCHANGED <<writerslock, commitTry, context>>
     ELSE Throw(j)
  /\ UNCHANGED <<server, requests, undefined, history>>

(* CubeWorker::setCellValue, after execute has released the mutex.         *)
ResetFailures(j) ==
  /\ pc[j] = "answered"
  /\ worker' = [worker EXCEPT !.numFailures = 0]
  /\ pc' = [pc EXCEPT ![j] = "changed"]
  /\ UNCHANGED <<server, writerslock, commitTry, context, process, requests,
                 undefined, history>>

Wrote(j) == context[j].server.cells # context[j].old.cells

Conflict(j) ==
  optimistic(j) /\ Wrote(j) /\ server.pages # context[j].old.pages

Merged(j) ==
  LET own == context[j].server
      old == context[j].old
      base == IF own.pages = old.pages THEN server ELSE own
  IN [cells |-> base.cells, pages |-> base.pages,
      blocking |-> IF own.blocking = old.blocking THEN server.blocking
                                                  ELSE own.blocking]

(* Server::commit.  A Context that serves the process does not commit.     *)
Commit(j) ==
  /\ pc[j] = "changed"
  /\ \/ /\ context[j].worker /\ optimistic(j)
        /\ pc' = [pc EXCEPT ![j] = "done"]
        /\ Reset(j)
        /\ UNCHANGED <<server, writerslock, commitTry>>
     \/ /\ ~context[j].worker \/ ~optimistic(j)
        /\ writerslock \in {NoJob, j}
        /\ IF Conflict(j)
           THEN /\ Repeat(j)
                /\ UNCHANGED server
           ELSE /\ server' = Merged(j)
                /\ writerslock' = NoJob
                /\ pc' = [pc EXCEPT ![j] = "done"]
                /\ Reset(j)
                /\ UNCHANGED commitTry
  /\ UNCHANGED <<worker, process, requests, undefined, history>>

-----------------------------------------------------------------------------
(* The process, which this repository does not hold: a script that begins  *)
(* an event, writes its cells and ends the event, one request at a time,   *)
(* or answers at once (quiet), and does the same when it is asked again;   *)
(* that may refuse at any time; and that gives up when a request is        *)
(* refused.                                                                *)

Pending == {r \in requests : r.process = process.number}

Works == process.alive /\ process.line # NoJob /\ process.reply = "none" /\ Pending = {}

Send ==
  /\ Works /\ ~process.quiet /\ process.step <= Last
  /\ requests' = requests \union
       {[process |-> process.number, step |-> process.step, stage |-> "sent",
         context |-> NoJob, commitTry |-> 0]}
  /\ UNCHANGED <<server, writerslock, pc, commitTry, context, worker, process,
                 undefined, history>>

Answer ==
  /\ Works
  /\ \/ /\ process.quiet \/ process.step = Last + 1
        /\ process' = [process EXCEPT !.reply = "DONE"]
     \/ process' = [process EXCEPT !.reply = "ERROR"]
  /\ UNCHANGED <<server, writerslock, pc, commitTry, context, worker,
                 requests, undefined, history>>

Crash ==
  /\ process.alive
  /\ Crashes
  /\ process' = [process EXCEPT !.alive = FALSE]
  /\ \/ requests' = requests \ Pending
     \/ /\ Pending # {} /\ Cardinality(requests) <= MaxLate
        /\ UNCHANGED requests
  /\ UNCHANGED <<server, writerslock, pc, commitTry, context, worker, undefined>>

-----------------------------------------------------------------------------
(* A thread that serves a request of the process.                          *)

MarkLate(r) ==
  [history EXCEPT !.late = IF Late(r) THEN @ \union {r.context} ELSE @]

(* PaloJob::initialize: the thread takes over the Context that the session *)
(* of the worker names.                                                    *)
Bind(r) ==
  LET k == worker.context
  IN /\ r.stage = "sent"
     /\ requests' = (requests \ {r}) \union
          {[r EXCEPT !.stage = "bound", !.context = k,
                     !.commitTry = IF k = NoJob THEN 0 ELSE commitTry[k]]}
     /\ IF k = NoJob
        THEN UNCHANGED <<context, undefined, history>>
        ELSE /\ context' = [context EXCEPT ![k].worker = TRUE]
             /\ undefined' = (pc[k] # "waiting")
             /\ history' = MarkLate([r EXCEPT !.context = k])
  /\ UNCHANGED <<server, writerslock, pc, commitTry, worker, process>>

(* What the process gets: a request that is not refused lets it go on.     *)
Respond(r, ok) ==
  process' = IF Late(r) THEN process
             ELSE IF ok THEN [process EXCEPT !.step = @ + 1]
             ELSE [process EXCEPT !.reply = "ERROR"]

(* Mutant: event/begin does not look whether an event is open.             *)
EventBeginTwice(k) ==
  [ok |-> TRUE, server |-> [context[k].server EXCEPT !.blocking = TRUE]]

(* EventBeginJob and EventEndJob change the copy of the job, which commits *)
(* for them.                                                               *)
EventBegin(k) ==
  [ok |-> ~context[k].server.blocking,
   server |-> [context[k].server EXCEPT !.blocking = TRUE]]

EventEnd(k) ==
  [ok |-> context[k].server.blocking,
   server |-> [context[k].server EXCEPT !.blocking = FALSE]]

(* CellReplaceJob of the process, who has no rights to check.  It calls    *)
(* commit as any job; makeCubeChanges does not write the cell when the     *)
(* Context is pessimistic.                                                 *)
CellReplace(k, n) ==
  [ok |-> context[k].server.blocking,
   server |-> IF optimistic(k) /\ context[k].server.blocking
              THEN Written(context[k].server, <<k, n>>)
              ELSE context[k].server]

Served(k, step) ==
  CASE Kind(step) = "begin" -> EventBegin(k)
    [] Kind(step) = "write" -> CellReplace(k, step)
    [] Kind(step) = "end" -> EventEnd(k)

(* The Context the thread has taken over is still that of the try it was   *)
(* taken from, and no other thread has given it back.                      *)
Bound(r) ==
  LET k == r.context
  IN /\ pc[k] \in {"waiting", "answered", "changed"}
     /\ commitTry[k] = r.commitTry
     /\ context[k].worker

ServeWith(r, k, served) ==
  /\ Respond(r, served.ok)
  /\ context' = [context EXCEPT
       ![k].server = IF served.ok THEN served.server ELSE @,
       ![k].worker = FALSE]
  /\ history' = [MarkLate(r) EXCEPT
       !.ended = IF Kind(r.step) = "end" /\ served.ok THEN @ \union {k} ELSE @]

(* Mutant: the commit of cell/replace takes the writers' mutex for the     *)
(* worker as well.                                                         *)
ServeLocked(r) ==
  /\ r.stage = "bound"
  /\ Kind(r.step) = "write" => writerslock = NoJob
  /\ requests' = requests \ {r}
  /\ \/ /\ r.context = NoJob
        /\ Respond(r, r.step = 0)
        /\ UNCHANGED <<context, undefined, history>>
     \/ /\ r.context # NoJob /\ ~Bound(r)
        /\ undefined' = TRUE
        /\ history' = MarkLate(r)
        /\ UNCHANGED <<context, process>>
     \/ /\ r.context # NoJob /\ Bound(r)
        /\ ServeWith(r, r.context, Served(r.context, r.step))
        /\ UNCHANGED undefined
  /\ UNCHANGED <<server, writerslock, pc, commitTry, worker>>

(* The job of the request, to the reset of the Context.  Without a Context *)
(* of another job it works on a copy that nobody commits; when the Context *)
(* is gone, or another thread has reset it, anything may happen.           *)
Serve(r) ==
  /\ r.stage = "bound"
  /\ requests' = requests \ {r}
  /\ \/ /\ r.context = NoJob
        /\ Respond(r, r.step = 0)
        /\ UNCHANGED <<context, undefined, history>>
     \/ /\ r.context # NoJob /\ ~Bound(r)
        /\ undefined' = TRUE
        /\ history' = MarkLate(r)
        /\ UNCHANGED <<context, process>>
     \/ /\ r.context # NoJob /\ Bound(r)
        /\ ServeWith(r, r.context, Served(r.context, r.step))
        /\ UNCHANGED undefined
  /\ UNCHANGED <<server, writerslock, pc, commitTry, worker>>

-----------------------------------------------------------------------------
JobStep(j) ==
  \/ GetServerCopy(j) \/ LockWriters(j) \/ SetCellValue(j)
  \/ FindRunning(j) \/ StartWorker(j) \/ Execute(j) \/ Restart(j) \/ ReadResult(j)
  \/ ResetFailures(j) \/ Commit(j)

ServerStep == \E r \in requests : Bind(r) \/ Serve(r)

(* After undefined behaviour nothing more is said.                         *)
Next ==
  /\ ~undefined
  /\ \/ \E j \in Job : JobStep(j)
     \/ Send \/ Answer \/ Crash
     \/ ServerStep

Spec == Init /\ [][Next]_vars

(* The jobs and the threads go on; a mutex that is free is given to a job  *)
(* that waits for it (there are finitely many).  That the script comes to  *)
(* an answer is assumed: the server waits for it without a limit of time.  *)
Fairness ==
  /\ \A j \in Job : WF_vars(~undefined /\ JobStep(j))
  /\ WF_vars(~undefined /\ (Send \/ Answer))
  /\ WF_vars(~undefined /\ ServerStep)

FairSpec == Spec /\ Fairness

-----------------------------------------------------------------------------
(* What the process writes for a question is in the tree as a whole or not *)
(* at all, whatever dies in between; not after a failure; and once, unless *)
(* the process died and was asked again: when it dies after event/end the  *)
(* cells are written twice.  No tree is published in the middle of an      *)
(* event: all writes of all users would go past the worker.  Late requests *)
(* are left out: they write into the copy of whatever job waits.           *)
EventsAreWhole ==
  history.late = {} =>
    /\ ~server.blocking
    /\ \A j \in Supervised, n \in 1 .. EventWrites :
         /\ server.cells[<<j, n>>] = server.cells[<<j, 1>>]
         /\ j \notin history.again => server.cells[<<j, n>>] <= 1
         /\ pc[j] = "failed" => server.cells[<<j, n>>] = 0

(* A request of the living process is served with the Context of the job   *)
(* the process was asked by, which waits for the answer; another Context,  *)
(* or one that is gone, is used by late requests only.                     *)
OwnContext ==
  /\ undefined => history.late # {}
  /\ \A r \in requests :
       r.stage = "bound" /\ ~Late(r) /\ ~undefined =>
         /\ r.context = process.line
         /\ pc[r.context] = "waiting"

(* Every job ends, although it waits for a process that sends requests to  *)
(* the same server, in the pessimistic try with the writers' mutex held.   *)
EveryJobEnds == \A j \in Job : <>(pc[j] \in {"done", "failed"} \/ undefined)

(* EventEndJob.h:78 says that event/end "doesn't do commit, it's done by   *)
(* the caller": the cells of an event that the caller committed are in the *)
(* tree.  It is not so in the pessimistic try.                             *)
CallerCommits ==
  \A j \in Supervised :
    pc[j] = "done" /\ j \in history.ended => server.cells[<<j, 1>>] > 0
=============================================================================
