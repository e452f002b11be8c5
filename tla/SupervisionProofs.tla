---------------------------- MODULE SupervisionProofs ----------------------------
(***************************************************************************)
(* Theorems about the supervision of cell writes, for any number of jobs,  *)
(* of cells that an event writes, of crashes and of late requests.         *)
(***************************************************************************)
EXTENDS Supervision, FiniteSetTheorems, TLAPS

-----------------------------------------------------------------------------
(* The parts of the first invariant: types, and who asks and who serves.   *)

Someone == Job \union {NoJob}

Tree == [cells : [Cell -> Nat], pages : Nat, blocking : BOOLEAN]

Copy == [server : Tree, old : Tree, checkArea : BOOLEAN, worker : BOOLEAN]

AnyCopy == Copy \union [worker : BOOLEAN]

PC == {"start", "change", "locked", "ready", "waiting", "answered", "changed", "done", "failed"}

UnderWay == {"change", "locked", "ready", "waiting", "answered", "changed"}

Worker == [mutex : Someone, running : BOOLEAN, numFailures : 0 .. maxFailures,
           context : Someone]

Process == [number : Nat, alive : BOOLEAN, line : Someone, quiet : BOOLEAN,
            step : 0 .. Last + 1, reply : {"none", "DONE", "ERROR"}]

History == [crashes : Nat, late : SUBSET Job, again : SUBSET Job, ended : SUBSET Job]

TypeInv ==
  /\ server \in Tree
  /\ writerslock \in Someone
  /\ pc \in [Job -> PC]
  /\ commitTry \in [Job -> 0 .. COMMIT_REPEATS_CELL_REPLACE]
  /\ context \in [Job -> AnyCopy]
  /\ worker \in Worker
  /\ process \in Process
  /\ requests \in SUBSET Request
  /\ undefined \in BOOLEAN
  /\ history \in History

\* A job that is under way has a copy and a try left; one that is ready to ask has
\* a cell in an area of the worker.
Equipped ==
  \A j \in Job :
    /\ pc[j] \in UnderWay => context[j] \in Copy
    /\ pc[j] \notin {"done", "failed"} => commitTry[j] < COMMIT_REPEATS_CELL_REPLACE
    /\ pc[j] = "ready" => j \in Supervised

\* The job that waits for the process holds the mutex of the worker and the
\* session of the worker names it; a process that lives was asked by such a job.
Asking ==
  /\ \A j \in Job : pc[j] = "waiting" =>
       /\ worker.mutex = j /\ worker.context = j /\ process.line = j
       /\ worker.numFailures < maxFailures
  /\ process.alive /\ process.line # NoJob => pc[process.line] = "waiting"

\* The process that lives has one request at a time, for its next step.  As long
\* as no request was late, nobody else uses the Context it was bound to.
Current(r) ==
  /\ process.line # NoJob /\ process.reply = "none" /\ r.step = process.step
  /\ ~ process.quiet
  /\ \A q \in requests : ~ Late(q) => q = r
  /\ r.stage = "bound" =>
       /\ r.context = process.line
       /\ history.late = {} => Bound(r)

RequestsOk ==
  \A r \in requests : r.process <= process.number /\ (~ Late(r) => Current(r))

ControlInv ==
  /\ TypeInv /\ Equipped /\ Asking /\ RequestsOk
  /\ undefined => history.late # {}

-----------------------------------------------------------------------------
(* Types.                                                                  *)

LEMMA Bounds ==
  /\ EventWrites \in Nat /\ EventWrites >= 1
  /\ Last \in Nat /\ Last = EventWrites + 1
  /\ maxFailures \in Nat /\ maxFailures >= 1
  /\ NoJob \notin Job /\ Supervised \subseteq Job
  /\ COMMIT_REPEATS_CELL_REPLACE = 2
BY SupervisionAssumption DEF Last, COMMIT_REPEATS_CELL_REPLACE

LEMMA CopyTypes ==
  /\ NoCopy \in AnyCopy /\ Copy \subseteq AnyCopy
  /\ \A c \in AnyCopy : [c EXCEPT !.worker = TRUE] \in AnyCopy
  /\ \A c \in Copy, b \in BOOLEAN : [c EXCEPT !.worker = b] \in Copy
  /\ \A c \in Copy, t \in Tree : [c EXCEPT !.server = t] \in Copy
<1>1. NoCopy \in AnyCopy /\ Copy \subseteq AnyCopy
  BY DEF AnyCopy, NoCopy
<1>2. ASSUME NEW c \in Copy, NEW b \in BOOLEAN PROVE [c EXCEPT !.worker = b] \in Copy
  BY DEF Copy
<1>3. ASSUME NEW c \in [worker : BOOLEAN] PROVE [c EXCEPT !.worker = TRUE] \in AnyCopy
  <2>1. [c EXCEPT !.worker = TRUE] \in [worker : BOOLEAN]
    OBVIOUS
  <2> QED
    BY <2>1 DEF AnyCopy
<1>4. ASSUME NEW c \in Copy, NEW t \in Tree PROVE [c EXCEPT !.server = t] \in Copy
  BY DEF Copy
<1>5. ASSUME NEW c \in AnyCopy PROVE [c EXCEPT !.worker = TRUE] \in AnyCopy
  <2>1. CASE c \in Copy
    BY <1>1, <1>2, <2>1
  <2>2. CASE c \in [worker : BOOLEAN]
    BY <1>3, <2>2
  <2> QED
    BY <2>1, <2>2 DEF AnyCopy
<1>6. \A c \in Copy, b \in BOOLEAN : [c EXCEPT !.worker = b] \in Copy
  BY <1>2
<1>7. \A c \in Copy, t \in Tree : [c EXCEPT !.server = t] \in Copy
  BY <1>4
<1>8. \A c \in AnyCopy : [c EXCEPT !.worker = TRUE] \in AnyCopy
  BY <1>5
<1> QED
  BY <1>1, <1>6, <1>7, <1>8

LEMMA WrittenType ==
  ASSUME NEW t \in Tree, NEW c \in Cell
  PROVE  /\ Written(t, c) \in Tree
         /\ Written(t, c).cells = [t.cells EXCEPT ![c] = @ + 1]
         /\ Written(t, c).pages = t.pages + 1
         /\ Written(t, c).blocking = t.blocking
<1> DEFINE cells == [t.cells EXCEPT ![c] = @ + 1]
<1>1. t.cells \in [Cell -> Nat] /\ t.pages \in Nat /\ t.blocking \in BOOLEAN
  BY DEF Tree
<1>2. cells \in [Cell -> Nat]
  BY <1>1
<1>3. Written(t, c) = [t EXCEPT !.cells = cells, !.pages = t.pages + 1]
  BY DEF Written, Tree
<1> HIDE DEF cells
<1>4. /\ Written(t, c).cells = cells /\ Written(t, c).pages = t.pages + 1
      /\ Written(t, c).blocking = t.blocking
  BY <1>3 DEF Tree
<1>5. Written(t, c) \in Tree
  <2>1. Written(t, c) = [cells |-> cells, pages |-> t.pages + 1, blocking |-> t.blocking]
    BY <1>3 DEF Tree
  <2>2. t.pages + 1 \in Nat
    BY <1>1
  <2> QED
    BY <1>1, <1>2, <2>1, <2>2 DEF Tree
<1> QED
  BY <1>4, <1>5 DEF cells

LEMMA IdleType ==
  /\ Idle \in Process
  /\ Idle.number = 1 /\ Idle.alive = TRUE /\ Idle.line = NoJob /\ Idle.quiet = FALSE
  /\ Idle.step = 0 /\ Idle.reply = "none"
BY Bounds DEF Idle, Process, Someone

LEMMA NewProcessType ==
  ASSUME TypeInv, NEW line \in Someone
  PROVE  /\ NewProcess(line) \in Process
         /\ NewProcess(line).number = process.number + 1
         /\ NewProcess(line).alive = TRUE
         /\ NewProcess(line).line = line
         /\ NewProcess(line).quiet = process.quiet
         /\ NewProcess(line).step = 0
         /\ NewProcess(line).reply = "none"
<1>1. process.number + 1 \in Nat /\ process.quiet \in BOOLEAN
  BY DEF TypeInv, Process
<1> QED
  BY <1>1, IdleType DEF NewProcess, Process

LEMMA ResetType ==
  ASSUME TypeInv, NEW j \in Job, Reset(j)
  PROVE  context' \in [Job -> AnyCopy] /\ \A i \in Job \ {j} : context'[i] = context[i]
BY CopyTypes DEF TypeInv, Reset

\* Only the copy of j has changed.
Off(j) ==
  \A i \in Job \ {j} : /\ context'[i] = context[i] /\ pc'[i] = pc[i]
                       /\ commitTry'[i] = commitTry[i]

LEMMA EquippedKeeps ==
  ASSUME Equipped, NEW j \in Job, Off(j),
         pc'[j] \in UnderWay => context'[j] \in Copy,
         pc'[j] \notin {"done", "failed"} => commitTry'[j] < COMMIT_REPEATS_CELL_REPLACE,
         pc'[j] = "ready" => j \in Supervised
  PROVE  Equipped'
BY DEF Equipped, Off, COMMIT_REPEATS_CELL_REPLACE, Copy, Tree, Cell

LEMMA AskingKeeps ==
  ASSUME Asking, NEW j \in Job, Off(j), TypeInv,
         pc[j] # "waiting", pc'[j] # "waiting", process' = process,
         worker'.mutex = worker.mutex, worker'.context = worker.context,
         worker'.numFailures <= worker.numFailures, worker'.numFailures \in Nat
  PROVE  Asking'
<1>1. worker.numFailures \in Nat /\ maxFailures \in Nat
  BY Bounds DEF TypeInv, Worker
<1>2. process.line \in Someone
  BY DEF TypeInv, Process
<1> QED
  BY <1>1, <1>2 DEF Asking, Off, Someone

\* A step of a job that does not wait leaves the requests of the process alone.
LEMMA RequestsKeep ==
  ASSUME TypeInv, Asking, RequestsOk, NEW j \in Job, Off(j), pc[j] # "waiting",
         UNCHANGED <<process, requests>>, history'.late = history.late
  PROVE  RequestsOk'
<1> SUFFICES ASSUME NEW r \in requests
             PROVE  (r.process <= process.number /\ (~ Late(r) => Current(r)))'
  BY DEF RequestsOk
<1>1. r.process <= process.number /\ (~ Late(r) => Current(r))
  BY DEF RequestsOk
<1>2. Late(r)' <=> Late(r)
  BY DEF Late
<1>3. ASSUME ~ Late(r) PROVE Current(r)'
  <2>1. process.line \in Job /\ process.line # j
    BY <1>1, <1>3 DEF Current, Asking, Late, TypeInv, Process, Someone
  <2>2. r.context = process.line => (Bound(r)' <=> Bound(r))
    BY <2>1 DEF Bound, Off
  <2> QED
    BY <1>1, <1>3, <2>2 DEF Current, Late
<1> QED
  BY <1>1, <1>2, <1>3

\* When every request that is left is late.
LEMMA AllLate ==
  ASSUME \A r \in requests' : r.process <= process'.number /\ Late(r)'
  PROVE  RequestsOk'
BY DEF RequestsOk

LEMMA LateStays ==
  ASSUME TypeInv, RequestsOk, process'.number = process.number,
         process'.alive = process.alive, requests' = requests,
         \A r \in requests : Late(r)
  PROVE  RequestsOk'
BY DEF RequestsOk, Late

LEMMA NewProcessLate ==
  ASSUME TypeInv, RequestsOk, process'.number = process.number + 1, requests' = requests
  PROVE  RequestsOk'
<1>1. process.number \in Nat /\ \A r \in requests : r.process \in Nat
  BY DEF TypeInv, Process, Request
<1>2. \A r \in requests : r.process <= process'.number /\ r.process # process'.number
  BY <1>1 DEF RequestsOk
<1> QED
  BY <1>2, AllLate DEF Late

-----------------------------------------------------------------------------
(* The steps of a job.                                                     *)

\* A step of a job that does not wait for the process.
LEMMA JobKeeps ==
  ASSUME ControlInv, TypeInv', NEW j \in Job, Off(j), pc[j] # "waiting", pc'[j] # "waiting",
         pc'[j] \in UnderWay => context'[j] \in Copy,
         pc'[j] \notin {"done", "failed"} => commitTry'[j] < COMMIT_REPEATS_CELL_REPLACE,
         pc'[j] = "ready" => j \in Supervised,
         worker'.mutex = worker.mutex, worker'.context = worker.context,
         worker'.numFailures <= worker.numFailures,
         history'.late = history.late,
         UNCHANGED <<process, requests, undefined>>
  PROVE  ControlInv'
<1>1. TypeInv
  BY DEF ControlInv
<1>2. Equipped'
  BY EquippedKeeps DEF ControlInv
<1>3. worker'.numFailures \in Nat
  BY DEF TypeInv, Worker
<1>4. Asking'
  BY <1>1, <1>3, AskingKeeps DEF ControlInv
<1>5. RequestsOk'
  BY <1>1, RequestsKeep DEF ControlInv
<1> QED
  BY <1>2, <1>4, <1>5 DEF ControlInv

\* What changes when the step changes the copy, the place and the tries of j.
LEMMA JobType ==
  ASSUME TypeInv, NEW j \in Job, NEW c \in AnyCopy, NEW p \in PC,
         NEW try \in 0 .. COMMIT_REPEATS_CELL_REPLACE,
         context' = [context EXCEPT ![j] = c],
         pc' = [pc EXCEPT ![j] = p],
         commitTry' = [commitTry EXCEPT ![j] = try]
  PROVE  /\ context' \in [Job -> AnyCopy] /\ pc' \in [Job -> PC]
         /\ commitTry' \in [Job -> 0 .. COMMIT_REPEATS_CELL_REPLACE]
         /\ Off(j) /\ context'[j] = c /\ pc'[j] = p /\ commitTry'[j] = try
BY DEF TypeInv, Off

LEMMA GetServerCopyKeeps ==
  ASSUME ControlInv, NEW j \in Job, GetServerCopy(j)
  PROVE  ControlInv'
<1> DEFINE c == [server |-> server, old |-> server, checkArea |-> ~server.blocking,
                 worker |-> FALSE]
<1>1. TypeInv /\ pc[j] = "start"
  BY DEF ControlInv, GetServerCopy
<1>2. c \in Copy /\ c \in AnyCopy
  BY <1>1, CopyTypes DEF TypeInv, Copy, Tree
<1>3. context' = [context EXCEPT ![j] = c] /\ pc' = [pc EXCEPT ![j] = "change"]
  BY DEF GetServerCopy
<1> HIDE DEF c
<1>4. history' \in History /\ history'.late = history.late
  BY <1>1 DEF GetServerCopy, TypeInv, History
<1>5. /\ commitTry' = [commitTry EXCEPT ![j] = commitTry[j]]
      /\ commitTry[j] \in 0 .. COMMIT_REPEATS_CELL_REPLACE
      /\ commitTry[j] < COMMIT_REPEATS_CELL_REPLACE
  BY <1>1 DEF GetServerCopy, ControlInv, Equipped, TypeInv
<1>6. pc'[j] = "change" /\ worker.numFailures \in Nat
  BY <1>1, <1>3 DEF TypeInv, Worker
<1>7. /\ context' \in [Job -> AnyCopy] /\ pc' \in [Job -> PC]
       /\ commitTry' \in [Job -> 0 .. COMMIT_REPEATS_CELL_REPLACE]
       /\ Off(j) /\ context'[j] = c /\ pc'[j] = "change" /\ commitTry'[j] = commitTry[j]
  BY <1>1, <1>2, <1>3, <1>5, JobType, ZenonT(40) DEF PC, GetServerCopy
<1>8. TypeInv'
  BY <1>1, <1>4, <1>7 DEF TypeInv, GetServerCopy
<1>9. commitTry'[j] < COMMIT_REPEATS_CELL_REPLACE
  BY <1>5, <1>7
<1>10. worker'.numFailures <= worker.numFailures /\ UNCHANGED <<worker, process, requests, undefined>>
  BY <1>6 DEF GetServerCopy
<1> QED
  BY <1>1, <1>2, <1>4, <1>7, <1>8, <1>9, <1>10, JobKeeps

\* What is known of a job that has a copy.
LEMMA HasCopy ==
  ASSUME ControlInv, NEW j \in Job, pc[j] \in UnderWay
  PROVE  /\ context[j] \in Copy
         /\ context[j].server \in Tree /\ context[j].old \in Tree
         /\ commitTry[j] \in 0 .. COMMIT_REPEATS_CELL_REPLACE
         /\ commitTry[j] < COMMIT_REPEATS_CELL_REPLACE
         /\ commitTry = [commitTry EXCEPT ![j] = commitTry[j]]
         /\ context = [context EXCEPT ![j] = context[j]]
         /\ pc = [pc EXCEPT ![j] = pc[j]]
         /\ worker.numFailures \in Nat
<1>1. context[j] \in Copy /\ commitTry[j] < COMMIT_REPEATS_CELL_REPLACE
  BY DEF ControlInv, Equipped, UnderWay
<1>2. context[j].server \in Tree /\ context[j].old \in Tree
  BY <1>1 DEF Copy
<1> QED
  BY <1>1, <1>2 DEF ControlInv, TypeInv, Worker

LEMMA LockWritersKeeps ==
  ASSUME ControlInv, NEW j \in Job, LockWriters(j)
  PROVE  ControlInv'
<1> DEFINE t == [context[j].server EXCEPT !.cells = server.cells, !.pages = server.pages]
           c == [context[j] EXCEPT !.server = t]
<1>1. TypeInv /\ pc[j] = "change"
  BY DEF ControlInv, LockWriters
<1>2. /\ context[j] \in Copy /\ context[j].server \in Tree
      /\ commitTry[j] \in 0 .. COMMIT_REPEATS_CELL_REPLACE
      /\ commitTry[j] < COMMIT_REPEATS_CELL_REPLACE
      /\ commitTry = [commitTry EXCEPT ![j] = commitTry[j]]
      /\ worker.numFailures \in Nat
  BY <1>1, HasCopy DEF UnderWay
<1>3. t \in Tree
  BY <1>1, <1>2 DEF TypeInv, Tree
<1>4. context' = [context EXCEPT ![j] = c] /\ pc' = [pc EXCEPT ![j] = "locked"]
  <2>1. context' = [context EXCEPT ![j].server.cells = server.cells,
                                   ![j].server.pages = server.pages]
    BY DEF LockWriters
  <2>2. context[j] = [server |-> context[j].server, old |-> context[j].old,
                      checkArea |-> context[j].checkArea, worker |-> context[j].worker]
    BY <1>2 DEF Copy
  <2>3. \A i \in Job : context'[i] = IF i = j THEN c ELSE context[i]
    BY <1>1, <1>2, <2>1, <2>2 DEF TypeInv, Copy, Tree
  <2>4. DOMAIN context' = Job
    BY <1>1, <2>1 DEF TypeInv
  <2> QED
    BY <1>1, <2>1, <2>3, <2>4 DEF LockWriters, TypeInv
<1> HIDE DEF t
<1>5. c \in Copy /\ c \in AnyCopy
  BY <1>2, <1>3, CopyTypes
<1> HIDE DEF c
<1>6. pc'[j] = "locked"
  BY <1>1, <1>4 DEF TypeInv
<1>7. /\ context' \in [Job -> AnyCopy] /\ pc' \in [Job -> PC]
       /\ commitTry' \in [Job -> 0 .. COMMIT_REPEATS_CELL_REPLACE]
       /\ Off(j) /\ context'[j] = c /\ pc'[j] = "locked" /\ commitTry'[j] = commitTry[j]
  BY <1>1, <1>2, <1>4, <1>5, JobType, ZenonT(40) DEF PC, LockWriters
<1>8. TypeInv'
  BY <1>1, <1>7 DEF TypeInv, LockWriters, Someone
<1> QED
  BY <1>1, <1>2, <1>5, <1>7, <1>8, JobKeeps DEF LockWriters

LEMMA FirstCell ==
  ASSUME NEW j \in Job
  PROVE  <<j, 1>> \in Cell
BY Bounds DEF Cell

LEMMA SetCellValueKeeps ==
  ASSUME ControlInv, NEW j \in Job, SetCellValue(j)
  PROVE  ControlInv'
<1> DEFINE t == Written(context[j].server, <<j, 1>>)
           c == [context[j] EXCEPT !.server = t]
<1>1. TypeInv /\ pc[j] \in {"change", "locked"}
  BY DEF ControlInv, SetCellValue, MakesChange
<1>2. /\ context[j] \in Copy /\ context[j].server \in Tree
      /\ commitTry[j] \in 0 .. COMMIT_REPEATS_CELL_REPLACE
      /\ commitTry[j] < COMMIT_REPEATS_CELL_REPLACE
      /\ commitTry = [commitTry EXCEPT ![j] = commitTry[j]]
      /\ worker.numFailures \in Nat
  BY <1>1, HasCopy DEF UnderWay
<1>3. t \in Tree
  BY <1>2, FirstCell, WrittenType
<1> HIDE DEF t
<1>4. context' = [context EXCEPT ![j] = c] /\ pc' = [pc EXCEPT ![j] = "changed"]
  BY <1>1, <1>2 DEF SetCellValue, TypeInv, t
<1>5. c \in Copy /\ c \in AnyCopy
  BY <1>2, <1>3, CopyTypes
<1> HIDE DEF c
<1>6. pc'[j] = "changed"
  BY <1>1, <1>4 DEF TypeInv
<1>7. /\ context' \in [Job -> AnyCopy] /\ pc' \in [Job -> PC]
       /\ commitTry' \in [Job -> 0 .. COMMIT_REPEATS_CELL_REPLACE]
       /\ Off(j) /\ context'[j] = c /\ pc'[j] = "changed" /\ commitTry'[j] = commitTry[j]
  BY <1>1, <1>2, <1>4, <1>5, JobType DEF PC, SetCellValue
<1>8. TypeInv'
  BY <1>1, <1>7 DEF TypeInv, SetCellValue
<1> QED
  BY <1>1, <1>2, <1>5, <1>7, <1>8, JobKeeps DEF SetCellValue

LEMMA ResetFailuresKeeps ==
  ASSUME ControlInv, NEW j \in Job, ResetFailures(j)
  PROVE  ControlInv'
<1>1. TypeInv /\ pc[j] = "answered"
  BY DEF ControlInv, ResetFailures
<1>2. /\ context[j] \in Copy /\ context[j] \in AnyCopy
      /\ commitTry[j] \in 0 .. COMMIT_REPEATS_CELL_REPLACE
      /\ commitTry[j] < COMMIT_REPEATS_CELL_REPLACE
      /\ commitTry = [commitTry EXCEPT ![j] = commitTry[j]]
      /\ context = [context EXCEPT ![j] = context[j]]
      /\ worker.numFailures \in Nat
  BY <1>1, HasCopy, CopyTypes DEF UnderWay
<1>3. /\ worker' \in Worker /\ worker'.numFailures = 0
      /\ worker'.mutex = worker.mutex /\ worker'.context = worker.context
  BY <1>1, Bounds DEF ResetFailures, TypeInv, Worker
<1>4. pc' = [pc EXCEPT ![j] = "changed"] /\ pc'[j] = "changed"
  BY <1>1 DEF ResetFailures, TypeInv
<1>5. /\ context' \in [Job -> AnyCopy] /\ pc' \in [Job -> PC]
       /\ commitTry' \in [Job -> 0 .. COMMIT_REPEATS_CELL_REPLACE]
       /\ Off(j) /\ context'[j] = context[j] /\ pc'[j] = "changed" /\ commitTry'[j] = commitTry[j]
  BY <1>1, <1>2, <1>4, JobType DEF PC, ResetFailures
<1>6. TypeInv'
  BY <1>1, <1>3, <1>5 DEF TypeInv, ResetFailures
<1> QED
  BY <1>1, <1>2, <1>3, <1>5, <1>6, Bounds, JobKeeps DEF ResetFailures

LEMMA MergedType ==
  ASSUME ControlInv, NEW j \in Job, pc[j] \in UnderWay
  PROVE  Merged(j) \in Tree
<1>1. context[j].server \in Tree /\ context[j].old \in Tree /\ server \in Tree
  BY HasCopy DEF ControlInv, TypeInv
<1> QED
  BY <1>1 DEF Merged, Tree

\* A try that ends.
LEMMA RepeatEnds ==
  ASSUME ControlInv, NEW j \in Job, pc[j] \in UnderWay, Repeat(j)
  PROVE  \E try \in 0 .. COMMIT_REPEATS_CELL_REPLACE, p \in {"start", "failed"} :
           /\ commitTry' = [commitTry EXCEPT ![j] = try]
           /\ pc' = [pc EXCEPT ![j] = p]
           /\ p # "failed" => try < COMMIT_REPEATS_CELL_REPLACE
           /\ context' = [context EXCEPT ![j] = NoCopy]
           /\ writerslock' \in Someone
<1> DEFINE try == commitTry[j] + 1
           p == IF try < COMMIT_REPEATS_CELL_REPLACE THEN "start" ELSE "failed"
<1>1. /\ commitTry[j] \in 0 .. COMMIT_REPEATS_CELL_REPLACE
      /\ commitTry[j] < COMMIT_REPEATS_CELL_REPLACE
  BY HasCopy
<1>2. try \in 0 .. COMMIT_REPEATS_CELL_REPLACE
  BY <1>1, Bounds
<1>3. /\ commitTry' = [commitTry EXCEPT ![j] = try]
      /\ pc' = [pc EXCEPT ![j] = p]
      /\ context' = [context EXCEPT ![j] = NoCopy]
      /\ writerslock' \in Someone
  BY DEF Repeat, Reset, Unlocked, ControlInv, TypeInv, Someone
<1>4. p \in {"start", "failed"} /\ (p # "failed" => try < COMMIT_REPEATS_CELL_REPLACE)
  OBVIOUS
<1> HIDE DEF try, p
<1> QED
  BY <1>2, <1>3, <1>4

LEMMA CommitKeeps ==
  ASSUME ControlInv, NEW j \in Job, Commit(j)
  PROVE  ControlInv'
<1>1. TypeInv /\ pc[j] = "changed" /\ pc[j] \in UnderWay
  BY DEF ControlInv, Commit, UnderWay
<1>2. /\ commitTry[j] \in 0 .. COMMIT_REPEATS_CELL_REPLACE
      /\ commitTry = [commitTry EXCEPT ![j] = commitTry[j]]
      /\ worker.numFailures \in Nat
  BY <1>1, HasCopy
<1>3. server \in Tree /\ Merged(j) \in Tree
  BY <1>1, MergedType DEF TypeInv
<1>4. UNCHANGED <<worker, process, requests, undefined, history>>
  BY DEF Commit
<1>5. NoCopy \in AnyCopy
  BY CopyTypes
<1>6. CASE /\ pc' = [pc EXCEPT ![j] = "done"] /\ Reset(j)
           /\ UNCHANGED commitTry /\ server' \in Tree /\ writerslock' \in Someone
  <2>1. /\ context' \in [Job -> AnyCopy] /\ pc' \in [Job -> PC] /\ Off(j) /\ pc'[j] = "done"
    BY <1>1, <1>2, <1>5, <1>6, JobType DEF Reset, PC
  <2>2. TypeInv'
    BY <1>1, <1>4, <1>6, <2>1 DEF TypeInv
  <2> QED
    BY <1>1, <1>2, <1>4, <2>1, <2>2, JobKeeps DEF UnderWay
<1>7. CASE Repeat(j) /\ UNCHANGED server
  <2>1. PICK try \in 0 .. COMMIT_REPEATS_CELL_REPLACE, p \in {"start", "failed"} :
           /\ commitTry' = [commitTry EXCEPT ![j] = try]
           /\ pc' = [pc EXCEPT ![j] = p]
           /\ p # "failed" => try < COMMIT_REPEATS_CELL_REPLACE
           /\ context' = [context EXCEPT ![j] = NoCopy]
           /\ writerslock' \in Someone
    BY <1>1, <1>7, RepeatEnds
  <2>2. /\ context' \in [Job -> AnyCopy] /\ pc' \in [Job -> PC] /\ Off(j) /\ pc'[j] = p
        /\ commitTry' \in [Job -> 0 .. COMMIT_REPEATS_CELL_REPLACE] /\ commitTry'[j] = try
    BY <1>1, <1>5, <2>1, JobType DEF PC
  <2>3. TypeInv'
    BY <1>1, <1>4, <1>7, <2>1, <2>2 DEF TypeInv
  <2> QED
    BY <1>1, <1>2, <1>4, <2>1, <2>2, <2>3, JobKeeps DEF UnderWay
<1> QED
  BY <1>1, <1>3, <1>6, <1>7 DEF Commit, TypeInv, Someone

\* A step that throws.
LEMMA ThrowType ==
  ASSUME TypeInv, NEW j \in Job, Throw(j)
  PROVE  /\ context' \in [Job -> AnyCopy] /\ pc' \in [Job -> PC] /\ writerslock' \in Someone
         /\ commitTry' \in [Job -> 0 .. COMMIT_REPEATS_CELL_REPLACE]
         /\ Off(j) /\ context'[j] = NoCopy /\ pc'[j] = "failed"
<1>1. /\ context' = [context EXCEPT ![j] = NoCopy]
      /\ pc' = [pc EXCEPT ![j] = "failed"]
      /\ commitTry' = [commitTry EXCEPT ![j] = commitTry[j]]
      /\ writerslock' \in Someone
  BY DEF Throw, Reset, Unlocked, TypeInv, Someone
<1>2. commitTry[j] \in 0 .. COMMIT_REPEATS_CELL_REPLACE /\ NoCopy \in AnyCopy
  BY CopyTypes DEF TypeInv
<1> QED
  BY <1>1, <1>2, JobType DEF PC

\* A step with which start returns true, or throws, while nobody waits for the
\* worker: the process of before is dead or has nothing under way.
LEMMA StartEnds ==
  ASSUME ControlInv, TypeInv', NEW j \in Job, Off(j),
         \A i \in Job : pc[i] # "waiting", pc'[j] # "waiting",
         pc'[j] \in UnderWay => context'[j] \in Copy,
         pc'[j] \notin {"done", "failed"} => commitTry'[j] < COMMIT_REPEATS_CELL_REPLACE,
         pc'[j] = "ready" => j \in Supervised,
         process'.number = process.number + 1, process'.line = NoJob,
         history'.late = history.late,
         UNCHANGED <<requests, undefined>>
  PROVE  ControlInv'
<1>1. TypeInv
  BY DEF ControlInv
<1>2. Equipped'
  BY EquippedKeeps DEF ControlInv
<1>3. \A i \in Job : pc'[i] # "waiting"
  BY DEF Off
<1>4. Asking'
  BY <1>3 DEF Asking
<1>5. RequestsOk'
  BY <1>1, NewProcessLate DEF ControlInv
<1> QED
  BY <1>2, <1>4, <1>5 DEF ControlInv

\* The place of a job for which start has returned true.
LEMMA ReadyType ==
  ASSUME ControlInv, NEW j \in Job, pc[j] \in UnderWay,
         pc' = [pc EXCEPT ![j] = "ready"], UNCHANGED <<commitTry, context>>
  PROVE  /\ pc' \in [Job -> PC] /\ pc'[j] = "ready" /\ Off(j)
         /\ context'[j] \in Copy /\ commitTry'[j] < COMMIT_REPEATS_CELL_REPLACE
<1>1. context[j] \in Copy /\ commitTry[j] < COMMIT_REPEATS_CELL_REPLACE
  BY HasCopy
<1> QED
  BY <1>1 DEF ControlInv, TypeInv, PC, Off

LEMMA FindRunningKeeps ==
  ASSUME ControlInv, NEW j \in Job, FindRunning(j)
  PROVE  ControlInv'
<1>1. /\ TypeInv /\ pc[j] \in {"change", "locked"} /\ pc[j] \in UnderWay
      /\ j \in Supervised /\ worker.numFailures \in Nat
  BY DEF ControlInv, FindRunning, MakesChange, AsksWorker, UnderWay, TypeInv, Worker
<1>2. /\ pc' = [pc EXCEPT ![j] = "ready"]
      /\ UNCHANGED <<server, writerslock, commitTry, context, worker, process,
                     requests, undefined, history>>
  BY DEF FindRunning
<1>3. /\ pc' \in [Job -> PC] /\ pc'[j] = "ready" /\ Off(j)
      /\ context'[j] \in Copy /\ commitTry'[j] < COMMIT_REPEATS_CELL_REPLACE
  BY <1>1, <1>2, ReadyType
<1>4. TypeInv'
  BY <1>1, <1>2, <1>3 DEF TypeInv
<1> QED
  BY <1>1, <1>2, <1>3, <1>4, JobKeeps

LEMMA StartWorkerKeeps ==
  ASSUME ControlInv, NEW j \in Job, StartWorker(j)
  PROVE  ControlInv'
<1>1. /\ TypeInv /\ pc[j] \in {"change", "locked"} /\ pc[j] \in UnderWay
      /\ \A i \in Job : pc[i] # "waiting"
      /\ j \in Supervised
  BY Bounds DEF ControlInv, StartWorker, MakesChange, AsksWorker, UnderWay, Asking
<1>2. UNCHANGED <<server, requests, undefined>>
  BY DEF StartWorker
<1>3. NoJob \in Someone /\ j \in Someone
  BY DEF Someone
<1>4. CASE /\ worker' = [worker EXCEPT !.running = TRUE]
           /\ process' = NewProcess(NoJob)
           /\ pc' = [pc EXCEPT ![j] = "ready"]
           /\ UNCHANGED <<writerslock, commitTry, context, history>>
  <2>1. /\ process' \in Process /\ process'.number = process.number + 1
        /\ process'.line = NoJob
    BY <1>1, <1>3, <1>4, NewProcessType
  <2>2. worker' \in Worker
    BY <1>1, <1>4 DEF TypeInv, Worker
  <2>3. /\ pc' \in [Job -> PC] /\ pc'[j] = "ready" /\ Off(j)
        /\ context'[j] \in Copy /\ commitTry'[j] < COMMIT_REPEATS_CELL_REPLACE
    BY <1>1, <1>4, ReadyType
  <2>4. TypeInv'
    BY <1>1, <1>2, <1>4, <2>1, <2>2, <2>3 DEF TypeInv
  <2> QED
    BY <1>1, <1>2, <1>4, <2>1, <2>3, <2>4, StartEnds
<1>5. CASE Crashes /\ Throw(j) /\ UNCHANGED <<worker, process>>
  <2>1. history' \in History /\ history'.late = history.late
    BY <1>1, <1>5 DEF Crashes, TypeInv, History
  <2>2. /\ context' \in [Job -> AnyCopy] /\ pc' \in [Job -> PC] /\ writerslock' \in Someone
        /\ commitTry' \in [Job -> 0 .. COMMIT_REPEATS_CELL_REPLACE]
        /\ Off(j) /\ pc'[j] = "failed"
    BY <1>1, <1>5, ThrowType
  <2>3. TypeInv'
    BY <1>1, <1>2, <1>5, <2>1, <2>2 DEF TypeInv
  <2>4. worker.numFailures \in Nat
    BY <1>1 DEF TypeInv, Worker
  <2> QED
    BY <1>1, <1>2, <1>5, <2>1, <2>2, <2>3, <2>4, JobKeeps DEF UnderWay
<1>6. CASE Crashes /\ worker.numFailures < maxFailures /\ DiesAtAreas(j)
  <2>1. history' \in History /\ history'.late = history.late
    BY <1>1, <1>6 DEF Crashes, TypeInv, History
  <2>2. /\ process' \in Process /\ process'.number = process.number + 1
        /\ process'.line = NoJob
    <3>1. PICK alive \in BOOLEAN : process' = [NewProcess(NoJob) EXCEPT !.alive = alive]
      <4>1. (worker.numFailures + 1 < maxFailures) \in BOOLEAN
        OBVIOUS
      <4> QED
        BY <1>6, <4>1 DEF DiesAtAreas
    <3>2. /\ NewProcess(NoJob) \in Process /\ NewProcess(NoJob).number = process.number + 1
          /\ NewProcess(NoJob).line = NoJob
      BY <1>1, <1>3, NewProcessType
    <3> QED
      BY <3>1, <3>2 DEF Process
  <2>3. worker' \in Worker
    <3>1. PICK k \in Someone :
            worker' = [worker EXCEPT !.running = TRUE, !.numFailures = @ + 1, !.context = k]
      BY <1>3, <1>6 DEF DiesAtAreas
    <3>2. worker \in Worker /\ worker.numFailures + 1 \in 0 .. maxFailures
      BY <1>1, <1>6, Bounds DEF TypeInv, Worker
    <3> QED
      BY <3>1, <3>2 DEF Worker
  <2>4. CASE pc' = [pc EXCEPT ![j] = "ready"] /\ UNCHANGED <<writerslock, commitTry, context>>
    <3>1. /\ pc' \in [Job -> PC] /\ pc'[j] = "ready" /\ Off(j)
          /\ context'[j] \in Copy /\ commitTry'[j] < COMMIT_REPEATS_CELL_REPLACE
      BY <1>1, <2>4, ReadyType
    <3>2. TypeInv'
      BY <1>1, <1>2, <2>1, <2>2, <2>3, <2>4, <3>1 DEF TypeInv
    <3> QED
      BY <1>1, <1>2, <2>1, <2>2, <3>1, <3>2, StartEnds
  <2>5. CASE Throw(j)
    <3>1. /\ context' \in [Job -> AnyCopy] /\ pc' \in [Job -> PC] /\ writerslock' \in Someone
          /\ commitTry' \in [Job -> 0 .. COMMIT_REPEATS_CELL_REPLACE]
          /\ Off(j) /\ pc'[j] = "failed"
      BY <1>1, <2>5, ThrowType
    <3>2. TypeInv'
      BY <1>1, <1>2, <2>1, <2>2, <2>3, <3>1 DEF TypeInv
    <3> QED
      BY <1>1, <1>2, <2>1, <2>2, <3>1, <3>2, StartEnds DEF UnderWay
  <2> QED
    BY <1>6, <2>4, <2>5 DEF DiesAtAreas
<1> QED
  BY <1>4, <1>5, <1>6 DEF StartWorker

LEMMA ExecuteKeeps ==
  ASSUME ControlInv, NEW j \in Job, Execute(j)
  PROVE  ControlInv'
<1>1. /\ TypeInv /\ pc[j] = "ready" /\ pc[j] \in UnderWay
      /\ \A i \in Job : pc[i] # "waiting"
  BY Bounds DEF ControlInv, Execute, UnderWay, Asking
<1>2. UNCHANGED <<server, requests, undefined, history>>
  BY DEF Execute, FirstLine
<1>3. CASE Throw(j) /\ UNCHANGED <<worker, process>>
  <2>1. /\ context' \in [Job -> AnyCopy] /\ pc' \in [Job -> PC] /\ writerslock' \in Someone
        /\ commitTry' \in [Job -> 0 .. COMMIT_REPEATS_CELL_REPLACE]
        /\ Off(j) /\ pc'[j] = "failed"
    BY <1>1, <1>3, ThrowType
  <2>2. TypeInv'
    BY <1>1, <1>2, <1>3, <2>1 DEF TypeInv
  <2>3. worker.numFailures \in Nat
    BY <1>1 DEF TypeInv, Worker
  <2> QED
    BY <1>1, <1>2, <1>3, <2>1, <2>2, <2>3, JobKeeps DEF UnderWay
<1>4. CASE /\ worker.numFailures < maxFailures
           /\ worker' = [worker EXCEPT !.mutex = j, !.context = j]
           /\ \E quiet \in BOOLEAN :
                process' = [process EXCEPT !.line = j, !.quiet = quiet,
                                           !.step = 0, !.reply = "none"]
           /\ pc' = [pc EXCEPT ![j] = "waiting"]
           /\ UNCHANGED <<writerslock, commitTry, context>>
  <2>1. j \in Someone /\ 0 \in 0 .. Last + 1
    BY Bounds DEF Someone
  <2>2. /\ process' \in Process /\ process'.number = process.number
        /\ process'.alive = process.alive /\ process'.line = j
    BY <1>1, <1>4, <2>1 DEF TypeInv, Process
  <2>3. /\ worker' \in Worker /\ worker'.mutex = j /\ worker'.context = j
        /\ worker'.numFailures = worker.numFailures
    BY <1>1, <1>4, <2>1 DEF TypeInv, Worker
  <2>4. /\ pc' \in [Job -> PC] /\ pc'[j] = "waiting" /\ Off(j)
    BY <1>1, <1>4 DEF TypeInv, PC, Off
  <2>5. TypeInv'
    BY <1>1, <1>2, <1>4, <2>2, <2>3, <2>4 DEF TypeInv
  <2>6. Equipped'
    <3>1. context'[j] \in Copy /\ commitTry'[j] < COMMIT_REPEATS_CELL_REPLACE
      BY <1>1, <1>4, HasCopy
    <3> QED
      BY <2>4, <3>1, EquippedKeeps DEF ControlInv
  <2>7. Asking'
    <3>1. \A i \in Job : i # j => pc'[i] # "waiting"
      BY <1>1, <2>4 DEF Off
    <3>2. worker.numFailures < maxFailures
      BY <1>1, <1>4, Bounds DEF TypeInv, Worker
    <3> QED
      BY <1>4, <2>2, <2>3, <2>4, <3>1, <3>2 DEF Asking
  <2>8. RequestsOk'
    <3>1. \A r \in requests : Late(r)
      BY <1>1 DEF ControlInv, RequestsOk, Current, Late, Asking, TypeInv, Process, Someone
    <3> QED
      BY <1>1, <1>2, <2>2, <3>1, LateStays DEF ControlInv
  <2> QED
    BY <1>2, <2>5, <2>6, <2>7, <2>8 DEF ControlInv
<1>5. CASE Repeat(j) /\ UNCHANGED <<worker, process>>
  <2>1. PICK try \in 0 .. COMMIT_REPEATS_CELL_REPLACE, p \in {"start", "failed"} :
           /\ commitTry' = [commitTry EXCEPT ![j] = try]
           /\ pc' = [pc EXCEPT ![j] = p]
           /\ p # "failed" => try < COMMIT_REPEATS_CELL_REPLACE
           /\ context' = [context EXCEPT ![j] = NoCopy]
           /\ writerslock' \in Someone
    BY <1>1, <1>5, RepeatEnds
  <2>2. NoCopy \in AnyCopy /\ worker.numFailures \in Nat
    BY <1>1, CopyTypes DEF TypeInv, Worker
  <2>3. /\ context' \in [Job -> AnyCopy] /\ pc' \in [Job -> PC] /\ Off(j) /\ pc'[j] = p
        /\ commitTry' \in [Job -> 0 .. COMMIT_REPEATS_CELL_REPLACE] /\ commitTry'[j] = try
    BY <1>1, <2>1, <2>2, JobType DEF PC
  <2>4. TypeInv'
    BY <1>1, <1>2, <1>5, <2>1, <2>3 DEF TypeInv
  <2> QED
    BY <1>1, <1>2, <1>5, <2>1, <2>2, <2>3, <2>4, JobKeeps DEF UnderWay
<1> QED
  BY <1>3, <1>4, <1>5, Zenon DEF Execute, FirstLine

\* The job that waits goes on, and no request of the process is left that is not
\* late.
LEMMA WaitEnds ==
  ASSUME ControlInv, TypeInv', NEW j \in Job, Off(j), pc[j] = "waiting",
         pc'[j] # "waiting",
         pc'[j] \in UnderWay => context'[j] \in Copy,
         pc'[j] \notin {"done", "failed"} => commitTry'[j] < COMMIT_REPEATS_CELL_REPLACE,
         pc'[j] = "ready" => j \in Supervised,
         process'.number = process.number, process'.alive = process.alive,
         ~ process.alive \/ process'.line = NoJob,
         \A r \in requests : Late(r),
         history'.late = history.late,
         UNCHANGED <<requests, undefined>>
  PROVE  ControlInv'
<1>1. TypeInv
  BY DEF ControlInv
<1>2. Equipped'
  BY EquippedKeeps DEF ControlInv
<1>3. \A i \in Job : pc'[i] # "waiting"
  BY DEF ControlInv, Asking, Off
<1>4. Asking'
  BY <1>3 DEF Asking
<1>5. RequestsOk'
  BY <1>1, LateStays DEF ControlInv
<1> QED
  BY <1>2, <1>4, <1>5 DEF ControlInv

LEMMA ReadResultKeeps ==
  ASSUME ControlInv, NEW j \in Job, ReadResult(j)
  PROVE  ControlInv'
<1>1. TypeInv /\ pc[j] = "waiting" /\ pc[j] \in UnderWay /\ process.reply # "none"
  BY DEF ControlInv, ReadResult, UnderWay
<1>2. UNCHANGED <<server, requests, undefined, history>>
  BY DEF ReadResult
<1>3. worker' \in Worker
  BY <1>1 DEF ReadResult, TypeInv, Worker, Someone
<1>4. /\ process' \in Process /\ process'.number = process.number
      /\ process'.alive = process.alive /\ process'.line = NoJob
  BY <1>1 DEF ReadResult, TypeInv, Process, Someone
<1>5. \A r \in requests : Late(r)
  BY <1>1 DEF ControlInv, RequestsOk, Current
<1>6. CASE Throw(j)
  <2>1. /\ context' \in [Job -> AnyCopy] /\ pc' \in [Job -> PC] /\ writerslock' \in Someone
        /\ commitTry' \in [Job -> 0 .. COMMIT_REPEATS_CELL_REPLACE]
        /\ Off(j) /\ pc'[j] = "failed"
    BY <1>1, <1>6, ThrowType
  <2>2. TypeInv'
    BY <1>1, <1>2, <1>3, <1>4, <2>1 DEF TypeInv
  <2> QED
    BY <1>1, <1>2, <1>4, <1>5, <2>1, <2>2, WaitEnds DEF UnderWay
<1>7. CASE /\ pc' = [pc EXCEPT ![j] = "answered"]
           /\ UNCHANGED <<writerslock, commitTry, context>>
  <2>1. pc' \in [Job -> PC] /\ Off(j) /\ pc'[j] = "answered"
    BY <1>1, <1>7 DEF TypeInv, PC, Off
  <2>2. TypeInv'
    BY <1>1, <1>2, <1>3, <1>4, <1>7, <2>1 DEF TypeInv
  <2>3. context'[j] \in Copy /\ commitTry'[j] < COMMIT_REPEATS_CELL_REPLACE
    BY <1>1, <1>7, HasCopy
  <2> QED
    BY <1>1, <1>2, <1>4, <1>5, <2>1, <2>2, <2>3, WaitEnds
<1> QED
  BY <1>6, <1>7 DEF ReadResult

LEMMA RestartKeeps ==
  ASSUME ControlInv, NEW j \in Job, Restart(j)
  PROVE  ControlInv'
<1>1. /\ TypeInv /\ pc[j] = "waiting" /\ pc[j] \in UnderWay /\ ~ process.alive
      /\ worker.numFailures < maxFailures /\ maxFailures \in Nat
      /\ worker.numFailures \in Nat
  BY Bounds DEF ControlInv, Restart, UnderWay, Asking, TypeInv, Worker
<1>2. UNCHANGED <<server, requests, undefined>>
  BY DEF Restart
<1>3. \A r \in requests : Late(r)
  BY <1>1 DEF Late
<1>4. worker.numFailures + 1 \in 0 .. maxFailures
  BY <1>1
<1>5. CASE /\ worker' = [worker EXCEPT !.numFailures = @ + 1, !.mutex = NoJob]
           /\ Throw(j) /\ UNCHANGED <<process, history>>
  <2>1. /\ context' \in [Job -> AnyCopy] /\ pc' \in [Job -> PC] /\ writerslock' \in Someone
        /\ commitTry' \in [Job -> 0 .. COMMIT_REPEATS_CELL_REPLACE]
        /\ Off(j) /\ pc'[j] = "failed"
    BY <1>1, <1>5, ThrowType
  <2>2. worker' \in Worker
    BY <1>1, <1>4, <1>5 DEF TypeInv, Worker, Someone
  <2>3. TypeInv'
    BY <1>1, <1>2, <1>5, <2>1, <2>2 DEF TypeInv
  <2> QED
    BY <1>1, <1>2, <1>3, <1>5, <2>1, <2>3, WaitEnds DEF UnderWay
<1>6. CASE /\ Crashes
           /\ worker' = [worker EXCEPT !.numFailures = @ + 1, !.mutex = NoJob,
                                       !.context = NoJob, !.running = FALSE]
           /\ Repeat(j) /\ UNCHANGED process
  <2>1. PICK try \in 0 .. COMMIT_REPEATS_CELL_REPLACE, p \in {"start", "failed"} :
           /\ commitTry' = [commitTry EXCEPT ![j] = try]
           /\ pc' = [pc EXCEPT ![j] = p]
           /\ p # "failed" => try < COMMIT_REPEATS_CELL_REPLACE
           /\ context' = [context EXCEPT ![j] = NoCopy]
           /\ writerslock' \in Someone
    BY <1>1, <1>6, RepeatEnds
  <2>2. NoCopy \in AnyCopy
    BY CopyTypes
  <2>3. /\ context' \in [Job -> AnyCopy] /\ pc' \in [Job -> PC] /\ Off(j) /\ pc'[j] = p
        /\ commitTry' \in [Job -> 0 .. COMMIT_REPEATS_CELL_REPLACE] /\ commitTry'[j] = try
    BY <1>1, <2>1, <2>2, JobType DEF PC
  <2>4. worker' \in Worker
    BY <1>1, <1>4, <1>6 DEF TypeInv, Worker, Someone
  <2>5. history' \in History /\ history'.late = history.late
    BY <1>1, <1>6 DEF Crashes, TypeInv, History
  <2>6. TypeInv'
    BY <1>1, <1>2, <1>6, <2>1, <2>3, <2>4, <2>5 DEF TypeInv
  <2> QED
    BY <1>1, <1>2, <1>3, <1>6, <2>1, <2>3, <2>5, <2>6, WaitEnds DEF UnderWay
<1>7. CASE /\ worker.numFailures + 1 < maxFailures
           /\ worker' = [worker EXCEPT !.numFailures = @ + 1]
           /\ process' = NewProcess(j)
           /\ history' = [history EXCEPT !.again = @ \union {j}, !.ended = @ \ {j}]
           /\ UNCHANGED <<writerslock, pc, commitTry, context>>
  <2>1. j \in Someone
    BY DEF Someone
  <2>2. /\ process' \in Process /\ process'.number = process.number + 1
        /\ process'.line = j
    BY <1>1, <1>7, <2>1, NewProcessType
  <2>3. /\ worker' \in Worker /\ worker'.numFailures = worker.numFailures + 1
        /\ worker'.mutex = worker.mutex /\ worker'.context = worker.context
    BY <1>1, <1>4, <1>7 DEF TypeInv, Worker
  <2>4. history' \in History /\ history'.late = history.late
    BY <1>1, <1>7 DEF TypeInv, History
  <2>5. TypeInv'
    BY <1>1, <1>2, <1>7, <2>2, <2>3, <2>4 DEF TypeInv
  <2>6. Equipped'
    BY <1>7 DEF ControlInv, Equipped
  <2>7. Asking'
    <3>1. \A i \in Job : pc[i] = "waiting" =>
            i = j /\ worker.mutex = i /\ worker.context = i
      BY <1>1 DEF ControlInv, Asking
    <3> QED
      BY <1>1, <1>7, <2>2, <2>3, <3>1 DEF Asking
  <2>8. RequestsOk'
    BY <1>1, <1>2, <2>2, NewProcessLate DEF ControlInv
  <2> QED
    BY <1>2, <2>4, <2>5, <2>6, <2>7, <2>8 DEF ControlInv
<1> QED
  BY <1>5, <1>6, <1>7 DEF Restart

-----------------------------------------------------------------------------
(* The process, and the threads that serve its requests.                   *)

LEMMA PendingLive ==
  ASSUME TypeInv, process.alive
  PROVE  \A r \in requests : r \in Pending <=> ~ Late(r)
BY DEF Pending, Late

LEMMA SendKeeps ==
  ASSUME ControlInv, Send
  PROVE  ControlInv'
<1> DEFINE new == [process |-> process.number, step |-> process.step, stage |-> "sent",
                   context |-> NoJob, commitTry |-> 0]
<1>1. /\ TypeInv /\ process.alive /\ process.line # NoJob /\ process.reply = "none"
      /\ Pending = {} /\ process.step <= Last /\ ~ process.quiet
      /\ requests' = requests \union {new}
      /\ UNCHANGED <<server, writerslock, pc, commitTry, context, worker, process,
                     undefined, history>>
  BY DEF ControlInv, Send, Works
<1>2. process.number \in Nat /\ process.step \in 0 .. Last
  BY <1>1, Bounds DEF TypeInv, Process
<1>3. new \in Request
  BY <1>2 DEF Request
<1>4. TypeInv'
  BY <1>1, <1>3 DEF TypeInv
<1>5. \A r \in requests : Late(r)
  BY <1>1, PendingLive
<1>6. /\ new.process = process.number /\ new.step = process.step /\ new.stage = "sent"
  OBVIOUS
<1> HIDE DEF new
<1>7. RequestsOk'
  <2> SUFFICES ASSUME NEW r \in requests'
               PROVE  (r.process <= process.number /\ (~ Late(r) => Current(r)))'
    BY DEF RequestsOk
  <2>1. CASE r # new
    BY <1>1, <1>5, <2>1 DEF ControlInv, RequestsOk, Late
  <2>2. CASE r = new
    <3>1. \A q \in requests' : ~ Late(q)' => q = new
      BY <1>1, <1>5 DEF Late
    <3> QED
      BY <1>1, <1>2, <1>6, <2>2, <3>1 DEF Current
  <2> QED
    BY <2>1, <2>2
<1>8. Equipped' /\ Asking'
  BY <1>1 DEF ControlInv, Equipped, Asking
<1> QED
  BY <1>1, <1>4, <1>7, <1>8 DEF ControlInv

LEMMA AnswerKeeps ==
  ASSUME ControlInv, Answer
  PROVE  ControlInv'
<1>1. /\ TypeInv /\ process.alive /\ Pending = {}
      /\ UNCHANGED <<server, writerslock, pc, commitTry, context, worker,
                     requests, undefined, history>>
  BY DEF ControlInv, Answer, Works
<1>2. /\ process' \in Process /\ process'.number = process.number
      /\ process'.alive = process.alive /\ process'.line = process.line
  BY <1>1 DEF Answer, TypeInv, Process
<1>3. TypeInv'
  BY <1>1, <1>2 DEF TypeInv
<1>4. \A r \in requests : Late(r)
  BY <1>1, PendingLive
<1>5. RequestsOk'
  BY <1>1, <1>2, <1>4, LateStays DEF ControlInv
<1>6. Equipped' /\ Asking'
  BY <1>1, <1>2 DEF ControlInv, Equipped, Asking
<1> QED
  BY <1>1, <1>3, <1>5, <1>6 DEF ControlInv

LEMMA CrashKeeps ==
  ASSUME ControlInv, Crash
  PROVE  ControlInv'
<1>1. /\ TypeInv /\ process' = [process EXCEPT !.alive = FALSE]
      /\ requests' \subseteq requests
      /\ UNCHANGED <<server, writerslock, pc, commitTry, context, worker, undefined>>
  BY DEF ControlInv, Crash
<1>2. /\ process' \in Process /\ process'.number = process.number
      /\ ~ process'.alive /\ process'.line = process.line
  BY <1>1 DEF TypeInv, Process
<1>3. history' \in History /\ history'.late = history.late
  BY <1>1 DEF Crash, Crashes, TypeInv, History
<1>4. TypeInv'
  BY <1>1, <1>2, <1>3 DEF TypeInv
<1>5. RequestsOk'
  BY <1>1, <1>2, AllLate DEF ControlInv, RequestsOk, Late
<1>6. Equipped' /\ Asking'
  BY <1>1, <1>2 DEF ControlInv, Equipped, Asking
<1> QED
  BY <1>1, <1>3, <1>4, <1>5, <1>6 DEF ControlInv

\* A request that is not late comes from the process that the waiting job asked.
LEMMA LiveRequest ==
  ASSUME ControlInv, NEW r \in requests, ~ Late(r)
  PROVE  /\ process.line \in Job /\ pc[process.line] = "waiting"
         /\ worker.context = process.line /\ process.line # NoJob
         /\ Current(r)
BY DEF ControlInv, RequestsOk, Current, Asking, Late, TypeInv, Process, Someone

LEMMA MarkLateType ==
  ASSUME TypeInv, NEW r, r.context \in Job
  PROVE  /\ MarkLate(r) \in History
         /\ MarkLate(r).late = IF Late(r) THEN history.late \union {r.context} ELSE history.late
         /\ MarkLate(r).again = history.again
BY DEF MarkLate, TypeInv, History

LEMMA BindKeeps ==
  ASSUME ControlInv, ~ undefined, NEW r \in requests, Bind(r)
  PROVE  ControlInv'
<1>k. PICK k : k = worker.context
  OBVIOUS
<1>b. PICK b : b = [r EXCEPT !.stage = "bound", !.context = k,
                             !.commitTry = IF k = NoJob THEN 0 ELSE commitTry[k]]
  OBVIOUS
<1>1. /\ TypeInv /\ r \in Request /\ k \in Someone /\ r.stage = "sent"
      /\ requests' = (requests \ {r}) \union {b}
      /\ UNCHANGED <<server, writerslock, pc, commitTry, worker, process>>
  BY <1>k, <1>b DEF ControlInv, Bind, TypeInv, Worker
<1>2. /\ b.process = r.process /\ b.step = r.step /\ b.context = k /\ b.stage = "bound"
      /\ b.commitTry = IF k = NoJob THEN 0 ELSE commitTry[k]
      /\ b \in Request
  <2>1. (IF k = NoJob THEN 0 ELSE commitTry[k]) \in Nat
    BY <1>1, Bounds DEF TypeInv, Someone
  <2> QED
    BY <1>1, <1>b, <2>1 DEF Request, Someone
<1>3. \A q : Late(q)' <=> Late(q)
  BY <1>1 DEF Late
<1>4. Late(b) <=> Late(r)
  BY <1>2 DEF Late
<1>5. ~ Late(r) => k = process.line /\ k \in Job /\ k # NoJob /\ pc[k] = "waiting" /\ Current(r)
  BY <1>k, LiveRequest
<1>6. CASE k = NoJob
  <2>1. UNCHANGED <<context, undefined, history>> /\ Late(r)
    BY <1>5, <1>6, <1>k DEF Bind
  <2>2. TypeInv'
    BY <1>1, <1>2, <2>1 DEF TypeInv
  <2>3. Equipped' /\ Asking'
    BY <1>1, <2>1 DEF ControlInv, Equipped, Asking
  <2>4. RequestsOk'
    <3> SUFFICES ASSUME NEW q \in requests'
                 PROVE  (q.process <= process.number /\ (~ Late(q) => Current(q)))'
      BY DEF RequestsOk
    <3>1. CASE q = b
      BY <1>1, <1>2, <1>3, <1>4, <2>1, <3>1 DEF ControlInv, RequestsOk
    <3>2. CASE q # b
      <4>1. q \in requests /\ q.process <= process.number /\ (~ Late(q) => Current(q))
        BY <1>1, <3>2 DEF ControlInv, RequestsOk
      <4>2. Bound(q)' <=> Bound(q)
        BY <1>1, <2>1 DEF Bound
      <4>3. ASSUME ~ Late(q), NEW x \in requests', ~ Late(x) PROVE x = q
        BY <1>1, <1>4, <2>1, <4>1, <4>3 DEF Current
      <4> QED
        BY <1>1, <1>3, <2>1, <4>1, <4>2, <4>3 DEF Current
    <3> QED
      BY <3>1, <3>2
  <2> QED
    BY <2>1, <2>2, <2>3, <2>4 DEF ControlInv
<1>7. CASE k # NoJob
  <2>1. /\ k \in Job
        /\ context' = [context EXCEPT ![k].worker = TRUE]
        /\ undefined' = (pc[k] # "waiting")
        /\ history' = MarkLate([r EXCEPT !.context = k])
    BY <1>1, <1>7, <1>k DEF Bind, Someone
  <2> DEFINE m == [r EXCEPT !.context = k]
  <2>2. m.context = k /\ m.process = r.process
    BY <1>1 DEF Request
  <2>3. Late(m) <=> Late(r)
    BY <2>2 DEF Late
  <2> HIDE DEF m
  <2>4. history' \in History /\ history'.late = IF Late(r) THEN history.late \union {k} ELSE history.late
    BY <1>1, <2>1, <2>2, <2>3, MarkLateType DEF m
  <2>5. /\ context' \in [Job -> AnyCopy]
        /\ \A i \in Job : i # k => context'[i] = context[i]
        /\ context[k] \in Copy => context'[k] \in Copy
        /\ context[k] \in Copy => context'[k].worker = TRUE
    <3>1. context[k] \in AnyCopy
      BY <1>1, <2>1 DEF TypeInv
    <3>2. [context[k] EXCEPT !.worker = TRUE] \in AnyCopy
      BY <3>1, CopyTypes
    <3>3. context' = [context EXCEPT ![k] = [context[k] EXCEPT !.worker = TRUE]]
      BY <2>1
    <3>4. context[k] \in Copy => [context[k] EXCEPT !.worker = TRUE] \in Copy
      BY CopyTypes
    <3>5. context[k] \in Copy => [context[k] EXCEPT !.worker = TRUE].worker = TRUE
      BY DEF Copy
    <3> DEFINE c == [context[k] EXCEPT !.worker = TRUE]
    <3> HIDE DEF c
    <3> QED
      BY <1>1, <2>1, <3>2, <3>3, <3>4, <3>5 DEF c, TypeInv
  <2>6. TypeInv'
    BY <1>1, <1>2, <2>1, <2>4, <2>5 DEF TypeInv
  <2>7. Equipped'
    BY <1>1, <2>5 DEF ControlInv, Equipped
  <2>8. Asking'
    BY <1>1 DEF ControlInv, Asking
  <2>9. undefined' => history'.late # {}
    <3>1. undefined' => Late(r)
      BY <1>5, <2>1
    <3> QED
      BY <2>4, <3>1
  <2>10. RequestsOk'
    <3> SUFFICES ASSUME NEW q \in requests'
                 PROVE  (q.process <= process.number /\ (~ Late(q) => Current(q)))'
      BY DEF RequestsOk
    <3>1. CASE ~ Late(r)
      <4>1. \A x \in requests' : ~ Late(x) => x = b
        BY <1>1, <1>5, <3>1 DEF Current
      <4>2. q.process <= process.number
        BY <1>1, <1>2 DEF ControlInv, RequestsOk
      <4>3. Current(b)'
        <5>1. context'[k] \in Copy /\ context'[k].worker = TRUE
          BY <1>5, <2>5, <3>1 DEF ControlInv, Equipped, UnderWay
        <5>2. Bound(b)'
          BY <1>1, <1>2, <1>5, <1>7, <3>1, <5>1 DEF Bound
        <5>3. /\ process.line # NoJob /\ process.reply = "none" /\ b.step = process.step
              /\ b.context = process.line /\ ~ process.quiet
          BY <1>2, <1>5, <3>1 DEF Current
        <5>4. process' = process
          BY <1>1
        <5> QED
          BY <1>3, <4>1, <5>2, <5>3, <5>4 DEF Current
      <4> QED
        BY <1>1, <1>3, <4>1, <4>2, <4>3
    <3>2. CASE Late(r)
      <4>1. CASE q = b
        BY <1>1, <1>2, <1>3, <1>4, <3>2, <4>1 DEF ControlInv, RequestsOk
      <4>2. CASE q # b
        <5>1. q \in requests /\ q.process <= process.number /\ (~ Late(q) => Current(q))
          BY <1>1, <4>2 DEF ControlInv, RequestsOk
        <5>2. ASSUME ~ Late(q), NEW x \in requests', ~ Late(x) PROVE x = q
          BY <1>1, <1>4, <3>2, <5>1, <5>2 DEF Current
        <5>3. history'.late # {}
          BY <2>4, <3>2
        <5> QED
          BY <1>1, <1>3, <5>1, <5>2, <5>3 DEF Current
      <4> QED
        BY <4>1, <4>2
    <3> QED
      BY <3>1, <3>2
  <2> QED
    BY <2>6, <2>7, <2>8, <2>9, <2>10 DEF ControlInv
<1> QED
  BY <1>6, <1>7

LEMMA ServedType ==
  ASSUME ControlInv, NEW k \in Job, pc[k] \in UnderWay, NEW step \in 0 .. Last
  PROVE  Served(k, step).ok \in BOOLEAN /\ Served(k, step).server \in Tree
<1>1. context[k].server \in Tree
  BY HasCopy
<1>2. step \notin {0, Last} => <<k, step>> \in Cell
  BY Bounds DEF Cell
<1>3. step \notin {0, Last} => Written(context[k].server, <<k, step>>) \in Tree
  BY <1>1, <1>2, WrittenType
<1>4. EventBegin(k).ok \in BOOLEAN /\ EventBegin(k).server \in Tree
  BY <1>1 DEF EventBegin, Tree
<1>5. EventEnd(k).ok \in BOOLEAN /\ EventEnd(k).server \in Tree
  BY <1>1 DEF EventEnd, Tree
<1>6. CellReplace(k, step).ok \in BOOLEAN
  BY <1>1 DEF CellReplace, Tree
<1>7. step \notin {0, Last} => CellReplace(k, step).server \in Tree
  BY <1>1, <1>3 DEF CellReplace
<1>8. CASE step = 0
  BY <1>4, <1>8 DEF Served, Kind
<1>9. CASE step = Last
  BY <1>5, <1>9, Bounds DEF Served, Kind
<1>10. CASE step \notin {0, Last}
  BY <1>6, <1>7, <1>10 DEF Served, Kind
<1> QED
  BY <1>8, <1>9, <1>10

\* What the process gets leaves it alive and asked by the same job; a request that
\* is late changes nothing of it.
LEMMA RespondType ==
  ASSUME ControlInv, NEW r \in requests, NEW ok \in BOOLEAN, Respond(r, ok)
  PROVE  /\ process' \in Process /\ process'.number = process.number
         /\ process'.alive = process.alive /\ process'.line = process.line
         /\ Late(r) => process' = process
<1>1. process \in Process
  BY DEF ControlInv, TypeInv
<1>2. CASE Late(r)
  BY <1>1, <1>2 DEF Respond
<1>3. CASE ~ Late(r)
  <2>1. process.step \in 0 .. Last
    BY <1>3 DEF ControlInv, RequestsOk, Current, TypeInv, Request
  <2>2. process.step + 1 \in 0 .. Last + 1
    BY <2>1, Bounds
  <2> QED
    BY <1>1, <1>3, <2>2 DEF Respond, Process
<1> QED
  BY <1>2, <1>3

\* The requests that a request leaves behind.
LEMMA ServedRequests ==
  ASSUME ControlInv, NEW r \in requests, requests' = requests \ {r},
         process'.number = process.number, process'.alive = process.alive,
         Late(r) => /\ process' = process /\ UNCHANGED <<pc, commitTry>>
                    /\ context' = context \/ history'.late # {}
                    /\ history'.late = {} => history.late = {}
  PROVE  RequestsOk'
<1>1. \A q : Late(q)' <=> Late(q)
  BY DEF Late
<1> SUFFICES ASSUME NEW q \in requests'
             PROVE  (q.process <= process.number /\ (~ Late(q) => Current(q)))'
  BY DEF RequestsOk
<1>2. q \in requests /\ q # r /\ q.process <= process.number /\ (~ Late(q) => Current(q))
  BY DEF ControlInv, RequestsOk
<1>3. CASE ~ Late(r)
  BY <1>1, <1>2, <1>3 DEF Current
<1>4. CASE Late(r) /\ ~ Late(q)
  <2>1. context' = context => (Bound(q)' <=> Bound(q))
    BY <1>4 DEF Bound
  <2> QED
    BY <1>1, <1>2, <1>4, <2>1 DEF Current
<1> QED
  BY <1>1, <1>2, <1>3, <1>4

LEMMA ServeKeeps ==
  ASSUME ControlInv, ~ undefined, NEW r \in requests, Serve(r)
  PROVE  ControlInv'
<1>1. /\ TypeInv /\ r \in Request /\ r.stage = "bound" /\ r.step \in 0 .. Last
      /\ requests' = requests \ {r}
      /\ UNCHANGED <<server, writerslock, pc, commitTry, worker>>
  BY DEF ControlInv, Serve, TypeInv, Request
<1>2. ~ Late(r) => r.context = process.line /\ r.context \in Job /\ r.context # NoJob
                   /\ (history.late = {} => Bound(r))
  BY <1>1, LiveRequest DEF Current
<1>3. CASE /\ r.context = NoJob /\ Respond(r, r.step = 0)
           /\ UNCHANGED <<context, undefined, history>>
  <2>1. (r.step = 0) \in BOOLEAN
    OBVIOUS
  <2>2. Late(r)
    BY <1>2, <1>3
  <2>3. process' = process
    BY <1>3, <2>2 DEF Respond
  <2>4. TypeInv'
    BY <1>1, <1>3, <2>3 DEF TypeInv
  <2>5. Equipped' /\ Asking'
    BY <1>1, <1>3, <2>3 DEF ControlInv, Equipped, Asking
  <2>6. RequestsOk'
    BY <1>1, <1>3, <2>3, ServedRequests
  <2> QED
    BY <1>3, <2>4, <2>5, <2>6 DEF ControlInv
<1>4. CASE /\ r.context # NoJob /\ ~ Bound(r)
           /\ undefined' = TRUE /\ history' = MarkLate(r)
           /\ UNCHANGED <<context, process>>
  <2>1. r.context \in Job
    BY <1>1, <1>4 DEF Request
  <2>2. /\ history' \in History
        /\ history'.late = IF Late(r) THEN history.late \union {r.context} ELSE history.late
    BY <1>1, <1>4, <2>1, MarkLateType
  <2>3. history'.late # {}
    BY <1>2, <1>4, <2>2
  <2>4. TypeInv'
    BY <1>1, <1>4, <2>2 DEF TypeInv
  <2>5. Equipped' /\ Asking'
    BY <1>1, <1>4 DEF ControlInv, Equipped, Asking
  <2>6. RequestsOk'
    BY <1>1, <1>4, <2>3, ServedRequests
  <2> QED
    BY <2>3, <2>4, <2>5, <2>6 DEF ControlInv
<1>5. CASE /\ r.context # NoJob /\ Bound(r)
           /\ ServeWith(r, r.context, Served(r.context, r.step))
           /\ UNCHANGED undefined
  <2> DEFINE k == r.context
             served == Served(k, r.step)
             t == IF served.ok THEN served.server ELSE context[k].server
             c == [context[k] EXCEPT !.server = t, !.worker = FALSE]
             h == MarkLate(r)
  <2>1. k \in Job /\ pc[k] \in UnderWay
    BY <1>1, <1>5 DEF Request, Bound, UnderWay
  <2>2. served.ok \in BOOLEAN /\ served.server \in Tree
    BY <1>1, <2>1, ServedType
  <2>3. context[k] \in Copy /\ context[k].server \in Tree
    BY <2>1, HasCopy
  <2>4. /\ h \in History
        /\ h.late = IF Late(r) THEN history.late \union {k} ELSE history.late
    BY <1>1, <2>1, MarkLateType
  <2>5. /\ Respond(r, served.ok)
        /\ context' = [context EXCEPT ![k].server = IF served.ok THEN served.server ELSE @,
                                      ![k].worker = FALSE]
        /\ history' = [h EXCEPT !.ended = IF Kind(r.step) = "end" /\ served.ok
                                            THEN @ \union {k} ELSE @]
    BY <1>5 DEF ServeWith
  <2> HIDE DEF served, h, k
  <2>6. /\ process' \in Process /\ process'.number = process.number
        /\ process'.alive = process.alive /\ process'.line = process.line
        /\ Late(r) => process' = process
    BY <2>2, <2>5, RespondType
  <2>7. history' \in History /\ history'.late = h.late
    BY <2>1, <2>4, <2>5 DEF History
  <2>8. context' = [context EXCEPT ![k] = c]
    <3>1. \A i \in Job : context'[i] = IF i = k THEN c ELSE context[i]
      BY <1>1, <2>1, <2>3, <2>5 DEF TypeInv, Copy
    <3>2. DOMAIN context' = Job /\ DOMAIN context = Job
      BY <1>1, <2>5 DEF TypeInv
    <3> HIDE DEF c
    <3> QED
      BY <1>1, <2>1, <2>5, <3>1, <3>2 DEF TypeInv
  <2>9. c \in Copy
    <3>1. t \in Tree
      BY <2>2, <2>3
    <3> HIDE DEF t
    <3> QED
      BY <2>3, <3>1 DEF Copy
  <2> HIDE DEF c
  <2>10. TypeInv'
    BY <1>1, <1>5, <2>1, <2>6, <2>7, <2>8, <2>9, CopyTypes DEF TypeInv
  <2>11. Equipped'
    BY <1>1, <2>1, <2>8, <2>9 DEF ControlInv, Equipped, TypeInv
  <2>12. Asking'
    BY <1>1, <2>6 DEF ControlInv, Asking
  <2>13. RequestsOk'
    <3>1. Late(r) => history'.late # {}
      BY <2>4, <2>7
    <3> QED
      BY <1>1, <2>6, <3>1, ServedRequests
  <2>14. undefined' => history'.late # {}
    BY <1>5
  <2> QED
    BY <2>10, <2>11, <2>12, <2>13, <2>14 DEF ControlInv
<1> QED
  BY <1>3, <1>4, <1>5 DEF Serve

-----------------------------------------------------------------------------
(* Types, and whose Context a thread works with.                           *)

LEMMA ControlInit == Init => ControlInv
<1> SUFFICES ASSUME Init PROVE ControlInv
  OBVIOUS
<1>1. server \in Tree
  BY DEF Init, Tree
<1>2. context \in [Job -> AnyCopy]
  BY CopyTypes DEF Init
<1>3. worker \in Worker
  BY Bounds DEF Init, Worker, Someone
<1>4. TypeInv
  <2>1. /\ NoJob \in Someone /\ "start" \in PC /\ 0 \in 0 .. COMMIT_REPEATS_CELL_REPLACE
        /\ Idle \in Process
    BY IdleType, Bounds DEF Someone, PC
  <2>2. history \in History
    BY DEF Init, History
  <2> QED
    BY <1>1, <1>2, <1>3, <2>1, <2>2 DEF Init, TypeInv
<1>5. Equipped /\ Asking /\ RequestsOk
  BY IdleType, Bounds DEF Init, Equipped, Asking, RequestsOk, UnderWay
<1> QED
  BY <1>4, <1>5 DEF ControlInv, Init

LEMMA ControlNext == ControlInv /\ [Next]_vars => ControlInv'
<1> SUFFICES ASSUME ControlInv, [Next]_vars PROVE ControlInv'
  OBVIOUS
<1>1. CASE UNCHANGED vars
  BY <1>1 DEF vars, ControlInv, TypeInv, Equipped, Asking, RequestsOk, Current, Late, Bound
<1>2. CASE Next
  <2>1. ASSUME NEW j \in Job, JobStep(j) PROVE ControlInv'
    BY <2>1, GetServerCopyKeeps, LockWritersKeeps, SetCellValueKeeps, FindRunningKeeps,
       StartWorkerKeeps, ExecuteKeeps, RestartKeeps, ReadResultKeeps, ResetFailuresKeeps, CommitKeeps
       DEF JobStep
  <2>2. ASSUME NEW r \in requests, ~ undefined, Bind(r) \/ Serve(r) PROVE ControlInv'
    BY <2>2, BindKeeps, ServeKeeps
  <2> QED
    BY <1>2, <2>1, <2>2, SendKeeps, AnswerKeeps, CrashKeeps DEF Next, ServerStep
<1> QED
  BY <1>1, <1>2

THEOREM ControlInvCorrect == Spec => []ControlInv
BY ControlInit, ControlNext, PTL DEF Spec

(* The state of the server, of its jobs, of the worker and of the process  *)
(* have their types, for any number of jobs, of cells written in an event, *)
(* of failures of the worker and of requests that outlive their process.   *)
THEOREM TypeCorrect == Spec => []TypeOK
<1>1. ControlInv => TypeOK
  BY DEF ControlInv, TypeInv, TypeOK, Tree, PC, Worker, Process, Someone
<1> QED
  BY <1>1, ControlInvCorrect, PTL

(* A request of the living process is served with the Context of the job   *)
(* that the process was asked by and that waits for its answer.  A Context *)
(* that is gone or in use elsewhere is used only when a request outlived   *)
(* its process.                                                            *)
THEOREM OwnContextCorrect == Spec => []OwnContext
<1>1. ControlInv => OwnContext
  <2> SUFFICES ASSUME ControlInv PROVE OwnContext
    OBVIOUS
  <2>1. ASSUME NEW r \in requests, r.stage = "bound", ~ Late(r)
        PROVE  r.context = process.line /\ pc[r.context] = "waiting"
    BY <2>1, LiveRequest DEF Current
  <2> QED
    BY <2>1 DEF OwnContext, ControlInv
<1> QED
  BY <1>1, ControlInvCorrect, PTL

-----------------------------------------------------------------------------
(* Whole events.  The copy of a job is compared with the tree it started   *)
(* from, or, once the job holds the writers' mutex, with the latest tree.  *)

\* The tree own has all of base and beyond it only writes of cells of j.
Beyond(own, base, j) ==
  /\ \A c \in Cell : own.cells[c] >= base.cells[c] /\ (c[1] # j => own.cells[c] = base.cells[c])
  /\ own.pages >= base.pages
  /\ own.pages = base.pages <=> own.cells = base.cells

Equal(tree, j) == \A n \in 1 .. EventWrites : tree.cells[<<j, n>>] = tree.cells[<<j, 1>>]

Empty(tree, j) == \A n \in 1 .. EventWrites : tree.cells[<<j, n>>] = 0

Once(tree, j) == \A n \in 1 .. EventWrites : tree.cells[<<j, n>>] <= 1

Behind(old, new) == old.pages <= new.pages /\ (old.pages = new.pages => old.cells = new.cells)

Base(j) == IF optimistic(j) \/ pc[j] = "change" THEN context[j].old ELSE server

CopyOk(j) ==
  /\ ~ context[j].old.blocking /\ context[j].checkArea
  /\ Behind(context[j].old, server)
  /\ Beyond(context[j].server, Base(j), j)
  /\ pc[j] # "waiting" => ~ context[j].server.blocking
  /\ j \in Supervised =>
       /\ ~ context[j].server.blocking => Equal(context[j].server, j)
       /\ Empty(context[j].old, j)
       /\ ~ optimistic(j) /\ pc[j] # "change" => context[j].server.cells = server.cells
       /\ pc[j] \in {"change", "locked", "ready"} => Empty(context[j].server, j)
       /\ j \notin history.again => Once(context[j].server, j)

\* The process has written the cells before its step, in an event that is open.
Progress(j) ==
  /\ j \in Supervised
  /\ process.reply = "DONE" => ~ context[j].server.blocking
  /\ process.quiet => ~ context[j].server.blocking /\ process.step = 0
  /\ process.alive /\ process.step \in 1 .. Last => context[j].server.blocking
  /\ process.alive /\ process.step = Last + 1 => ~ context[j].server.blocking
  /\ process.alive /\ process.step \in 1 .. Last /\ optimistic(j) =>
       \E base \in Nat : \A n \in 1 .. EventWrites :
         context[j].server.cells[<<j, n>>] = IF n < process.step THEN base + 1 ELSE base
  /\ j \notin history.again =>
       \A n \in 1 .. EventWrites :
         context[j].server.cells[<<j, n>>] = IF optimistic(j) /\ n < process.step THEN 1 ELSE 0

InServer(j) ==
  /\ Equal(server, j)
  /\ j \notin history.again => Once(server, j)
  /\ pc[j] # "done" => Empty(server, j)

EventsOk ==
  /\ ~ server.blocking
  /\ \A j \in Supervised : InServer(j)
  /\ \A j \in Job : pc[j] \in UnderWay => CopyOk(j)
  /\ \A j \in Job : pc[j] = "waiting" => Progress(j)

\* The pessimistic try holds the writers' mutex.
HasMutex ==
  \A j \in Job : pc[j] \in UnderWay \ {"change"} /\ ~ optimistic(j) => writerslock = j

EventInv == HasMutex /\ (history.late = {} => EventsOk)

\* What a job that takes a step does not change.
LEMMA OthersCopy ==
  ASSUME EventsOk, NEW j \in Job, Off(j), server' = server,
         \A i \in Job \ {j} : i \in history'.again <=> i \in history.again,
         NEW i \in Job \ {j}, pc[i] \in UnderWay
  PROVE  CopyOk(i)'
<1>1. CopyOk(i)
  BY DEF EventsOk
<1>2. context'[i] = context[i] /\ pc'[i] = pc[i] /\ commitTry'[i] = commitTry[i]
  BY DEF Off
<1>3. optimistic(i)' <=> optimistic(i)
  BY <1>2 DEF optimistic
<1>4. Base(i)' = Base(i)
  BY <1>2, <1>3 DEF Base
<1>5. Beyond(context[i].server, Base(i), i)'
  BY <1>1, <1>2, <1>4 DEF CopyOk, Beyond, Cell
<1>6. Behind(context[i].old, server)'
  BY <1>1, <1>2 DEF CopyOk, Behind
<1>7. ASSUME i \in Supervised
      PROVE  (/\ ~ context[i].server.blocking => Equal(context[i].server, i)
              /\ Empty(context[i].old, i)
              /\ ~ optimistic(i) /\ pc[i] # "change" => context[i].server.cells = server.cells
              /\ pc[i] \in {"change", "locked", "ready"} => Empty(context[i].server, i)
              /\ i \notin history.again => Once(context[i].server, i))'
  BY <1>1, <1>2, <1>3, <1>7 DEF CopyOk, Equal, Empty, Once
<1> QED
  BY <1>1, <1>2, <1>5, <1>6, <1>7 DEF CopyOk

LEMMA OthersProgress ==
  ASSUME EventsOk, NEW j \in Job, Off(j), process' = process,
         \A i \in Job \ {j} : i \in history'.again <=> i \in history.again,
         NEW i \in Job \ {j}, pc[i] = "waiting"
  PROVE  Progress(i)'
<1>1. Progress(i)
  BY DEF EventsOk
<1>2. context'[i] = context[i] /\ commitTry'[i] = commitTry[i]
  BY DEF Off
<1>3. optimistic(i)' <=> optimistic(i)
  BY <1>2 DEF optimistic
<1> QED
  BY <1>1, <1>2, <1>3 DEF Progress, Last

\* A step of job j that publishes nothing.
LEMMA JobEvents ==
  ASSUME EventsOk, NEW j \in Job, Off(j), server' = server, pc[j] # "done",
         history'.again = history.again \/ history'.again = history.again \union {j},
         \A i \in Job \ {j} : pc[i] # "waiting" \/ process' = process,
         pc'[j] \in UnderWay => CopyOk(j)',
         pc'[j] = "waiting" => Progress(j)'
  PROVE  EventsOk'
<1>1. \A i \in Job \ {j} : i \in history'.again <=> i \in history.again
  OBVIOUS
<1>2. ASSUME NEW i \in Job, pc'[i] \in UnderWay PROVE CopyOk(i)'
  BY <1>1, <1>2, OthersCopy DEF Off
<1>3. ASSUME NEW i \in Job, pc'[i] = "waiting" PROVE Progress(i)'
  BY <1>1, <1>3, OthersProgress DEF Off
<1>4. ASSUME NEW i \in Supervised PROVE InServer(i)'
  <2>1. InServer(i) /\ i \in Job
    BY Bounds DEF EventsOk
  <2>2. pc'[i] # "done" => pc[i] # "done"
    BY <2>1 DEF Off
  <2>3. i \notin history'.again => i \notin history.again
    OBVIOUS
  <2> QED
    BY <2>1, <2>2, <2>3 DEF InServer, Equal, Once, Empty
<1> QED
  BY <1>2, <1>3, <1>4 DEF EventsOk

LEMMA MutexKeeps ==
  ASSUME HasMutex, NEW j \in Job, Off(j),
         pc'[j] \in UnderWay \ {"change"} /\ ~ optimistic(j)' => writerslock' = j,
         \A i \in Job \ {j} : writerslock = i => writerslock' = i
  PROVE  HasMutex'
BY DEF HasMutex, Off, optimistic

LEMMA BeyondSelf ==
  ASSUME NEW own \in Tree, NEW base \in Tree, NEW j,
         own.cells = base.cells, own.pages = base.pages
  PROVE  Beyond(own, base, j) /\ Behind(base, own)
BY DEF Beyond, Behind, Tree

LEMMA WrittenBeyond ==
  ASSUME NEW own \in Tree, NEW base \in Tree, NEW j \in Job, NEW n \in 1 .. EventWrites,
         Beyond(own, base, j)
  PROVE  Beyond(Written(own, <<j, n>>), base, j)
<1> DEFINE d == <<j, n>>
           new == Written(own, d)
<1>1. d \in Cell /\ d[1] = j
  BY DEF Cell
<1>2. /\ new.cells = [own.cells EXCEPT ![d] = @ + 1] /\ new.pages = own.pages + 1
  BY <1>1, WrittenType
<1>3. /\ own.cells \in [Cell -> Nat] /\ base.cells \in [Cell -> Nat]
      /\ own.pages \in Nat /\ base.pages \in Nat
  BY DEF Tree
<1> HIDE DEF new, d
<1>4. /\ new.cells[d] = own.cells[d] + 1
      /\ \A c \in Cell \ {d} : new.cells[c] = own.cells[c]
  BY <1>1, <1>2, <1>3
<1>5. own.cells[d] \in Nat /\ base.cells[d] \in Nat /\ own.cells[d] >= base.cells[d]
  BY <1>1, <1>3 DEF Beyond
<1>6. new.cells[d] > base.cells[d] /\ new.cells[d] >= base.cells[d]
  BY <1>4, <1>5
<1>7. ASSUME NEW c \in Cell
      PROVE  new.cells[c] >= base.cells[c] /\ (c[1] # j => new.cells[c] = base.cells[c])
  BY <1>1, <1>4, <1>6 DEF Beyond
<1>8. new.pages >= base.pages /\ new.pages # base.pages /\ new.cells # base.cells
  BY <1>2, <1>3, <1>5, <1>6 DEF Beyond
<1> QED
  BY <1>7, <1>8 DEF Beyond, new, d

-----------------------------------------------------------------------------
(* The steps of a job, and whole events.                                   *)

LEMMA GetServerCopyEvents ==
  ASSUME ControlInv, EventInv, NEW j \in Job, GetServerCopy(j)
  PROVE  EventInv'
<1> DEFINE c == [server |-> server, old |-> server, checkArea |-> ~server.blocking,
                 worker |-> FALSE]
<1>1. TypeInv /\ server \in Tree /\ pc[j] = "start"
  BY DEF ControlInv, TypeInv, GetServerCopy
<1>2. /\ context' = [context EXCEPT ![j] = c] /\ pc' = [pc EXCEPT ![j] = "change"]
      /\ history'.late = history.late /\ history'.again = history.again
      /\ UNCHANGED <<server, writerslock, commitTry, worker, process, requests, undefined>>
  BY <1>1 DEF GetServerCopy, TypeInv, History
<1>3. Off(j) /\ context'[j] = c /\ pc'[j] = "change"
  BY <1>1, <1>2 DEF TypeInv, Off
<1>4. HasMutex'
  BY <1>2, <1>3, MutexKeeps DEF EventInv
<1>5. ASSUME history'.late = {} PROVE EventsOk'
  <2>1. EventsOk
    BY <1>2, <1>5 DEF EventInv
  <2>2. /\ context'[j].server = server /\ context'[j].old = server
        /\ context'[j].checkArea = ~ server.blocking
    BY <1>3
  <2> HIDE DEF c
  <2>3. Base(j)' = server
    BY <1>3, <2>2 DEF Base
  <2>4. Beyond(server, server, j) /\ Behind(server, server)
    BY <1>1, BeyondSelf
  <2>5. ~ server.blocking /\ (j \in Supervised => InServer(j))
    BY <2>1 DEF EventsOk
  <2>6. j \in Supervised => Equal(server, j) /\ Empty(server, j) /\ Once(server, j)
    BY <1>1, <2>5 DEF InServer, Empty, Once
  <2>7. CopyOk(j)'
    <3>1. Beyond(context[j].server, Base(j), j)' /\ Behind(context[j].old, server)'
      BY <1>2, <2>2, <2>3, <2>4 DEF Beyond, Behind, Cell
    <3>2. j \in Supervised => (Equal(context[j].server, j) /\ Empty(context[j].old, j)
                              /\ Empty(context[j].server, j) /\ Once(context[j].server, j))'
      BY <2>2, <2>6 DEF Equal, Empty, Once
    <3>3. context'[j].server.cells = server'.cells
      BY <1>2, <2>2
    <3>4. ~ context'[j].old.blocking /\ context'[j].checkArea /\ ~ context'[j].server.blocking
      BY <2>2, <2>5
    <3> QED
      BY <3>1, <3>2, <3>3, <3>4 DEF CopyOk
  <2>8. pc'[j] # "waiting" /\ pc[j] # "done"
    BY <1>1, <1>3
  <2> QED
    BY <1>2, <1>3, <2>1, <2>7, <2>8, JobEvents
<1> QED
  BY <1>4, <1>5 DEF EventInv

LEMMA LockWritersEvents ==
  ASSUME ControlInv, EventInv, NEW j \in Job, LockWriters(j)
  PROVE  EventInv'
<1> DEFINE t == [context[j].server EXCEPT !.cells = server.cells, !.pages = server.pages]
           c == [context[j] EXCEPT !.server = t]
<1>1. /\ TypeInv /\ server \in Tree /\ pc[j] = "change" /\ pc[j] \in UnderWay
      /\ ~ optimistic(j) /\ writerslock = NoJob
      /\ UNCHANGED <<server, commitTry, worker, process, requests, undefined, history>>
      /\ writerslock' = j
  BY DEF ControlInv, TypeInv, LockWriters, UnderWay
<1>2. context[j] \in Copy /\ context[j].server \in Tree
  BY <1>1, HasCopy
<1>3. /\ Off(j) /\ pc'[j] = "locked" /\ context'[j].old = context[j].old
      /\ context'[j].checkArea = context[j].checkArea
      /\ context'[j].server = t
  BY <1>1, <1>2 DEF LockWriters, TypeInv, Copy, Tree, Off
<1>4. /\ t \in Tree /\ t.cells = server.cells /\ t.pages = server.pages
      /\ t.blocking = context[j].server.blocking
  BY <1>1, <1>2 DEF Tree
<1> HIDE DEF t
<1>5. HasMutex'
  BY <1>1, <1>3, MutexKeeps, Bounds DEF EventInv
<1>6. ASSUME history'.late = {} PROVE EventsOk'
  <2>1. EventsOk /\ CopyOk(j)
    BY <1>1, <1>6 DEF EventInv, EventsOk
  <2>2. ~ optimistic(j)'
    BY <1>1 DEF optimistic
  <2>3. Base(j)' = server
    BY <1>1, <1>3, <2>2 DEF Base
  <2>4. Beyond(t, server, j)
    BY <1>1, <1>4, BeyondSelf
  <2>5. j \in Supervised => Equal(server, j) /\ Empty(server, j)
    BY <1>1, <2>1 DEF EventsOk, InServer
  <2>6. CopyOk(j)'
    <3>1. Beyond(context[j].server, Base(j), j)'
      BY <1>3, <2>3, <2>4 DEF Beyond, Cell
    <3>2. Behind(context[j].old, server)' /\ Empty(context[j].old, j)' = Empty(context[j].old, j)
      BY <1>1, <1>3, <2>1 DEF CopyOk, Behind, Empty
    <3>3. j \in Supervised => (Equal(context[j].server, j)
                              /\ Empty(context[j].server, j) /\ Once(context[j].server, j))'
      BY <1>3, <1>4, <2>5 DEF Equal, Empty, Once
    <3>4. context'[j].server.cells = server'.cells
      BY <1>1, <1>3, <1>4
    <3>5. ~ context'[j].old.blocking /\ context'[j].checkArea /\ ~ context'[j].server.blocking
      BY <1>1, <1>3, <1>4, <2>1 DEF CopyOk
    <3>6. j \in Supervised => Empty(context[j].old, j)
      BY <2>1 DEF CopyOk
    <3> QED
      BY <3>1, <3>2, <3>3, <3>4, <3>5, <3>6 DEF CopyOk
  <2>7. pc'[j] # "waiting" /\ pc[j] # "done"
    BY <1>1, <1>3
  <2> QED
    BY <1>1, <1>3, <2>1, <2>6, <2>7, JobEvents
<1> QED
  BY <1>5, <1>6 DEF EventInv

\* A step that leaves the copy of the job as it is.
LEMMA CopyStays ==
  ASSUME NEW j \in Job, CopyOk(j), context'[j] = context[j], commitTry'[j] = commitTry[j],
         server' = server, history.again \subseteq history'.again,
         optimistic(j) \/ pc[j] # "change",
         pc'[j] \in {"waiting", "answered", "changed"},
         pc'[j] = "waiting" \/ ~ context[j].server.blocking
  PROVE  CopyOk(j)'
<1>1. optimistic(j)' <=> optimistic(j)
  BY DEF optimistic
<1>2. Base(j)' = Base(j)
  BY <1>1 DEF Base
<1>3. Beyond(context[j].server, Base(j), j)' /\ Behind(context[j].old, server)'
  BY <1>2 DEF CopyOk, Beyond, Behind, Cell
<1>4. ASSUME j \in Supervised
      PROVE  (/\ ~ context[j].server.blocking => Equal(context[j].server, j)
              /\ Empty(context[j].old, j)
              /\ ~ optimistic(j) /\ pc[j] # "change" => context[j].server.cells = server.cells
              /\ pc[j] \in {"change", "locked", "ready"} => Empty(context[j].server, j)
              /\ j \notin history.again => Once(context[j].server, j))'
  BY <1>1, <1>4 DEF CopyOk, Equal, Empty, Once
<1> QED
  BY <1>3, <1>4 DEF CopyOk

\* A job that asks the worker has a cell in its areas; one that does not has none,
\* as no event of another user is open.
LEMMA AsksSupervised ==
  ASSUME EventsOk, NEW j \in Job, pc[j] \in UnderWay
  PROVE  AsksWorker(j) <=> j \in Supervised
BY DEF EventsOk, CopyOk, AsksWorker

LEMMA SetCellValueEvents ==
  ASSUME ControlInv, EventInv, NEW j \in Job, SetCellValue(j)
  PROVE  EventInv'
<1> DEFINE t == Written(context[j].server, <<j, 1>>)
           c == [context[j] EXCEPT !.server = t]
<1>1. /\ TypeInv /\ pc[j] \in {"change", "locked"} /\ pc[j] \in UnderWay
      /\ optimistic(j) \/ pc[j] = "locked"
      /\ UNCHANGED <<server, writerslock, commitTry, worker, process, requests,
                     undefined, history>>
      /\ ~ AsksWorker(j)
  BY DEF ControlInv, SetCellValue, MakesChange, UnderWay
<1>2. context[j] \in Copy /\ context[j].server \in Tree /\ context[j].old \in Tree
      /\ server \in Tree
  BY <1>1, HasCopy DEF TypeInv
<1>3. t \in Tree /\ t.blocking = context[j].server.blocking
  BY <1>2, FirstCell, WrittenType
<1>4. 1 \in 1 .. EventWrites
  BY Bounds
<1>5. ASSUME NEW b \in Tree, Beyond(context[j].server, b, j)
      PROVE  Beyond(t, b, j)
  BY <1>2, <1>4, <1>5, WrittenBeyond
<1> HIDE DEF t
<1>6. /\ Off(j) /\ pc'[j] = "changed" /\ context'[j].old = context[j].old
      /\ context'[j].checkArea = context[j].checkArea
      /\ context'[j].server = t
  BY <1>1, <1>2, <1>3 DEF SetCellValue, TypeInv, Copy, Off, t
<1>7. HasMutex'
  <2>1. ~ optimistic(j)' => writerslock = j
    BY <1>1 DEF EventInv, HasMutex, optimistic
  <2> QED
    BY <1>1, <1>6, <2>1, MutexKeeps DEF EventInv
<1>8. ASSUME history'.late = {} PROVE EventsOk'
  <2>1. EventsOk /\ CopyOk(j)
    BY <1>1, <1>8 DEF EventInv, EventsOk
  <2>2. j \notin Supervised
    BY <1>1, <2>1, AsksSupervised
  <2>3. Base(j)' = Base(j) /\ Base(j) \in Tree
    BY <1>1, <1>2, <1>6 DEF Base, optimistic
  <2>4. Beyond(t, Base(j), j)
    BY <1>5, <2>1, <2>3 DEF CopyOk
  <2>5. CopyOk(j)'
    <3>1. Beyond(context[j].server, Base(j), j)'
      BY <1>6, <2>3, <2>4 DEF Beyond, Cell
    <3>2. Behind(context[j].old, server)'
      BY <1>1, <1>6, <2>1 DEF CopyOk, Behind
    <3>3. ~ context'[j].old.blocking /\ context'[j].checkArea /\ ~ context'[j].server.blocking
      BY <1>1, <1>3, <1>6, <2>1 DEF CopyOk
    <3> QED
      BY <2>2, <3>1, <3>2, <3>3 DEF CopyOk
  <2>6. pc'[j] # "waiting" /\ pc[j] # "done"
    BY <1>1, <1>6
  <2> QED
    BY <1>1, <1>6, <2>1, <2>5, <2>6, JobEvents
<1> QED
  BY <1>7, <1>8 DEF EventInv

LEMMA ResetFailuresEvents ==
  ASSUME ControlInv, EventInv, NEW j \in Job, ResetFailures(j)
  PROVE  EventInv'
<1>1. /\ TypeInv /\ pc[j] = "answered" /\ pc[j] \in UnderWay
      /\ UNCHANGED <<server, writerslock, commitTry, context, process, requests,
                     undefined, history>>
  BY DEF ControlInv, ResetFailures, UnderWay
<1>2. Off(j) /\ pc'[j] = "changed"
  BY <1>1 DEF ResetFailures, TypeInv, Off
<1>3. HasMutex'
  BY <1>1, <1>2, MutexKeeps DEF EventInv, HasMutex, optimistic
<1>4. ASSUME history'.late = {} PROVE EventsOk'
  <2>1. EventsOk /\ CopyOk(j)
    BY <1>1, <1>4 DEF EventInv, EventsOk
  <2>2. CopyOk(j)'
    BY <1>1, <1>2, <2>1, CopyStays DEF CopyOk
  <2>3. pc'[j] # "waiting" /\ pc[j] # "done"
    BY <1>1, <1>2
  <2> QED
    BY <1>1, <1>2, <2>1, <2>2, <2>3, JobEvents
<1> QED
  BY <1>3, <1>4 DEF EventInv

\* A job that gives up, or whose try has failed, publishes nothing.
LEMMA GivesUpEvents ==
  ASSUME ControlInv, EventInv, NEW j \in Job, pc[j] \in UnderWay, Off(j),
         pc'[j] \in {"start", "failed"}, server' = server,
         writerslock' = Unlocked(j),
         history'.late = history.late, history'.again = history.again,
         process' = process \/ \A i \in Job \ {j} : pc[i] # "waiting"
  PROVE  EventInv'
<1>1. HasMutex'
  BY MutexKeeps, Bounds DEF EventInv, UnderWay, Unlocked
<1>2. ASSUME history'.late = {} PROVE EventsOk'
  <2>1. EventsOk
    BY <1>2 DEF EventInv
  <2>2. pc'[j] \notin UnderWay /\ pc'[j] # "waiting" /\ pc[j] # "done"
    BY DEF UnderWay
  <2> QED
    BY <2>1, <2>2, JobEvents
<1> QED
  BY <1>1, <1>2 DEF EventInv

\* A step with which start returns true.
LEMMA ReadyEvents ==
  ASSUME ControlInv, EventInv, NEW j \in Job, MakesChange(j),
         pc' = [pc EXCEPT ![j] = "ready"],
         UNCHANGED <<server, writerslock, commitTry, context>>,
         history'.late = history.late, history'.again = history.again,
         process' = process \/ \A i \in Job : pc[i] # "waiting"
  PROVE  EventInv'
<1>1. /\ TypeInv /\ pc[j] \in {"change", "locked"} /\ pc[j] \in UnderWay
      /\ optimistic(j) \/ pc[j] = "locked"
  BY DEF ControlInv, MakesChange, UnderWay
<1>2. Off(j) /\ pc'[j] = "ready"
  BY <1>1 DEF TypeInv, Off
<1>3. HasMutex'
  <2>1. ~ optimistic(j)' => writerslock = j
    BY <1>1 DEF EventInv, HasMutex, optimistic
  <2> QED
    BY <1>2, <2>1, MutexKeeps DEF EventInv
<1>4. ASSUME history'.late = {} PROVE EventsOk'
  <2>1. EventsOk /\ CopyOk(j)
    BY <1>1, <1>4 DEF EventInv, EventsOk
  <2>2. optimistic(j)' <=> optimistic(j)
    BY DEF optimistic
  <2>3. Base(j)' = Base(j)
    BY <1>1, <1>2, <2>2 DEF Base
  <2>4. Beyond(context[j].server, Base(j), j)' /\ Behind(context[j].old, server)'
    BY <2>1, <2>3 DEF CopyOk, Beyond, Behind, Cell
  <2>5. ASSUME j \in Supervised
        PROVE  (/\ ~ context[j].server.blocking => Equal(context[j].server, j)
                /\ Empty(context[j].old, j)
                /\ ~ optimistic(j) /\ pc[j] # "change" => context[j].server.cells = server.cells
                /\ pc[j] \in {"change", "locked", "ready"} => Empty(context[j].server, j)
                /\ j \notin history.again => Once(context[j].server, j))'
    BY <1>1, <2>1, <2>2, <2>5 DEF CopyOk, Equal, Empty, Once
  <2>6. CopyOk(j)'
    BY <1>1, <1>2, <2>1, <2>4, <2>5 DEF CopyOk
  <2>7. pc'[j] # "waiting" /\ pc[j] # "done"
    BY <1>1, <1>2
  <2> QED
    BY <1>2, <2>1, <2>6, <2>7, JobEvents
<1> QED
  BY <1>3, <1>4 DEF EventInv

LEMMA FindRunningEvents ==
  ASSUME ControlInv, EventInv, NEW j \in Job, FindRunning(j)
  PROVE  EventInv'
BY ReadyEvents DEF FindRunning

LEMMA StartWorkerEvents ==
  ASSUME ControlInv, EventInv, NEW j \in Job, StartWorker(j)
  PROVE  EventInv'
<1>1. /\ TypeInv /\ pc[j] \in {"change", "locked"} /\ pc[j] \in UnderWay
      /\ MakesChange(j) /\ \A i \in Job : pc[i] # "waiting"
  BY Bounds DEF ControlInv, StartWorker, MakesChange, UnderWay, Asking
<1>2. UNCHANGED <<server, requests, undefined>>
  BY DEF StartWorker
<1>3. history'.late = history.late /\ history'.again = history.again
  BY <1>1, Zenon DEF StartWorker, Crashes, TypeInv, History
<1>4. CASE pc' = [pc EXCEPT ![j] = "ready"] /\ UNCHANGED <<writerslock, commitTry, context>>
  BY <1>1, <1>2, <1>3, <1>4, ReadyEvents
<1>5. CASE Throw(j)
  <2>1. Off(j) /\ pc'[j] = "failed" /\ writerslock' = Unlocked(j)
    BY <1>1, <1>5, ThrowType DEF Throw
  <2> QED
    BY <1>1, <1>2, <1>3, <2>1, GivesUpEvents
<1> QED
  BY <1>4, <1>5 DEF StartWorker, DiesAtAreas

LEMMA ExecuteEvents ==
  ASSUME ControlInv, EventInv, NEW j \in Job, Execute(j)
  PROVE  EventInv'
<1>1. /\ TypeInv /\ pc[j] = "ready" /\ pc[j] \in UnderWay
      /\ \A i \in Job : pc[i] # "waiting"
      /\ j \in Supervised
  BY Bounds DEF ControlInv, Execute, UnderWay, Asking, Equipped
<1>2. UNCHANGED <<server, requests, undefined, history>>
  BY DEF Execute, FirstLine
<1>3. CASE Throw(j) /\ UNCHANGED <<worker, process>>
  <2>1. Off(j) /\ pc'[j] = "failed" /\ writerslock' = Unlocked(j)
    BY <1>1, <1>3, ThrowType DEF Throw
  <2> QED
    BY <1>1, <1>2, <1>3, <2>1, GivesUpEvents
<1>4. CASE Repeat(j) /\ UNCHANGED <<worker, process>>
  <2>1. Off(j) /\ pc'[j] \in {"start", "failed"} /\ writerslock' = Unlocked(j)
    <3>1. PICK try \in 0 .. COMMIT_REPEATS_CELL_REPLACE, p \in {"start", "failed"} :
             /\ commitTry' = [commitTry EXCEPT ![j] = try]
             /\ pc' = [pc EXCEPT ![j] = p]
             /\ context' = [context EXCEPT ![j] = NoCopy]
      BY <1>1, <1>4, RepeatEnds
    <3> QED
      BY <1>1, <1>4, <3>1 DEF Repeat, TypeInv, Off
  <2> QED
    BY <1>1, <1>2, <1>4, <2>1, GivesUpEvents
<1>5. CASE /\ \E quiet \in BOOLEAN :
                process' = [process EXCEPT !.line = j, !.quiet = quiet,
                                           !.step = 0, !.reply = "none"]
           /\ pc' = [pc EXCEPT ![j] = "waiting"]
           /\ UNCHANGED <<writerslock, commitTry, context>>
  <2>1. process'.step = 0 /\ process'.reply = "none"
    BY <1>1, <1>5 DEF TypeInv, Process
  <2>2. Off(j) /\ pc'[j] = "waiting"
    BY <1>1, <1>5 DEF TypeInv, Off
  <2>3. HasMutex'
    <3>1. ~ optimistic(j)' => writerslock = j
      BY <1>1, <1>5 DEF EventInv, HasMutex, optimistic
    <3> QED
      BY <1>5, <2>2, <3>1, MutexKeeps DEF EventInv
  <2>4. ASSUME history'.late = {} PROVE EventsOk'
    <3>1. EventsOk /\ CopyOk(j)
      BY <1>1, <1>2, <2>4 DEF EventInv, EventsOk
    <3>2. CopyOk(j)'
      BY <1>1, <1>2, <1>5, <2>2, <3>1, CopyStays
    <3>3. Empty(context[j].server, j) /\ ~ context[j].server.blocking
      BY <1>1, <3>1 DEF CopyOk
    <3>4. Progress(j)'
      BY <1>1, <1>5, <2>1, <3>3, Bounds DEF Progress, Empty
    <3>5. pc[j] # "done"
      BY <1>1
    <3> QED
      BY <1>1, <1>2, <2>2, <3>1, <3>2, <3>4, <3>5, JobEvents
  <2> QED
    BY <2>3, <2>4 DEF EventInv
<1> QED
  BY <1>3, <1>4, <1>5, Zenon DEF Execute, FirstLine

LEMMA ReadResultEvents ==
  ASSUME ControlInv, EventInv, NEW j \in Job, ReadResult(j)
  PROVE  EventInv'
<1>1. /\ TypeInv /\ pc[j] = "waiting" /\ pc[j] \in UnderWay /\ process.reply # "none"
      /\ \A i \in Job \ {j} : pc[i] # "waiting"
  BY DEF ControlInv, ReadResult, UnderWay, Asking
<1>2. UNCHANGED <<server, requests, undefined, history>>
  BY DEF ReadResult
<1>3. CASE Throw(j)
  <2>1. Off(j) /\ pc'[j] = "failed" /\ writerslock' = Unlocked(j)
    BY <1>1, <1>3, ThrowType DEF Throw
  <2> QED
    BY <1>1, <1>2, <1>3, <2>1, GivesUpEvents
<1>4. CASE /\ process.reply = "DONE"
           /\ pc' = [pc EXCEPT ![j] = "answered"]
           /\ UNCHANGED <<writerslock, commitTry, context>>
  <2>1. Off(j) /\ pc'[j] = "answered"
    BY <1>1, <1>4 DEF TypeInv, Off
  <2>2. HasMutex'
    BY <1>1, <1>4, <2>1, MutexKeeps DEF EventInv, HasMutex, optimistic
  <2>3. ASSUME history'.late = {} PROVE EventsOk'
    <3>1. EventsOk /\ CopyOk(j) /\ Progress(j)
      BY <1>1, <1>2, <2>3 DEF EventInv, EventsOk
    <3>2. ~ context[j].server.blocking
      BY <1>4, <3>1 DEF Progress
    <3>3. CopyOk(j)'
      BY <1>1, <1>2, <1>4, <2>1, <3>1, <3>2, CopyStays
    <3>4. pc'[j] # "waiting" /\ pc[j] # "done"
      BY <1>1, <2>1
    <3> QED
      BY <1>1, <1>2, <2>1, <3>1, <3>3, <3>4, JobEvents
  <2> QED
    BY <2>2, <2>3 DEF EventInv
<1> QED
  BY <1>3, <1>4 DEF ReadResult

LEMMA RestartEvents ==
  ASSUME ControlInv, EventInv, NEW j \in Job, Restart(j)
  PROVE  EventInv'
<1>1. /\ TypeInv /\ pc[j] = "waiting" /\ pc[j] \in UnderWay
      /\ \A i \in Job \ {j} : pc[i] # "waiting"
  BY DEF ControlInv, Restart, UnderWay, Asking
<1>2. UNCHANGED <<server, requests, undefined>>
  BY DEF Restart
<1>3. CASE Throw(j) /\ UNCHANGED <<process, history>>
  <2>1. Off(j) /\ pc'[j] = "failed" /\ writerslock' = Unlocked(j)
    BY <1>1, <1>3, ThrowType DEF Throw
  <2> QED
    BY <1>1, <1>2, <1>3, <2>1, GivesUpEvents
<1>4. CASE Crashes /\ Repeat(j) /\ UNCHANGED process
  <2>1. /\ history'.late = history.late /\ history'.again = history.again
    BY <1>1, <1>4 DEF Crashes, TypeInv, History
  <2>2. Off(j) /\ pc'[j] \in {"start", "failed"} /\ writerslock' = Unlocked(j)
    <3>1. PICK try \in 0 .. COMMIT_REPEATS_CELL_REPLACE, p \in {"start", "failed"} :
             /\ commitTry' = [commitTry EXCEPT ![j] = try]
             /\ pc' = [pc EXCEPT ![j] = p]
             /\ context' = [context EXCEPT ![j] = NoCopy]
      BY <1>1, <1>4, RepeatEnds
    <3> QED
      BY <1>1, <1>4, <3>1 DEF Repeat, TypeInv, Off
  <2> QED
    BY <1>1, <1>2, <1>4, <2>1, <2>2, GivesUpEvents
<1>5. CASE /\ process' = NewProcess(j)
           /\ history' = [history EXCEPT !.again = @ \union {j}, !.ended = @ \ {j}]
           /\ UNCHANGED <<writerslock, pc, commitTry, context>>
  <2>1. /\ process'.step = 0 /\ process'.reply = "none" /\ process'.quiet = process.quiet
    BY <1>1, <1>5, NewProcessType DEF Someone
  <2>2. /\ history'.late = history.late /\ history'.again = history.again \union {j}
    BY <1>1, <1>5 DEF TypeInv, History
  <2>3. HasMutex'
    BY <1>5 DEF EventInv, HasMutex, optimistic
  <2>4. ASSUME history'.late = {} PROVE EventsOk'
    <3>1. EventsOk /\ CopyOk(j) /\ Progress(j)
      BY <1>1, <2>2, <2>4 DEF EventInv, EventsOk
    <3>2. CopyOk(j)'
      BY <1>1, <1>2, <1>5, <2>2, <3>1, CopyStays
    <3>3. Progress(j)'
      BY <1>5, <2>1, <2>2, <3>1, Bounds DEF Progress
    <3>4. Off(j) /\ pc[j] # "done"
      BY <1>1, <1>5 DEF Off
    <3> QED
      BY <1>1, <1>2, <2>2, <3>1, <3>2, <3>3, <3>4, JobEvents
  <2> QED
    BY <2>3, <2>4 DEF EventInv
<1> QED
  BY <1>3, <1>4, <1>5 DEF Restart

\* What the commit publishes: the latest cells, or those of the copy, which go
\* beyond the latest by cells of the job.
LEMMA MergedBeyond ==
  ASSUME ControlInv, EventsOk, HasMutex, NEW j \in Job, pc[j] = "changed", ~ Conflict(j)
  PROVE  /\ ~ Merged(j).blocking
         /\ Beyond(Merged(j), server, j)
         /\ Merged(j).cells = server.cells \/ Merged(j).cells = context[j].server.cells
<1> DEFINE own == context[j].server
           old == context[j].old
           base == IF own.pages = old.pages THEN server ELSE own
           m == Merged(j)
<1>1. pc[j] \in UnderWay /\ CopyOk(j) /\ server \in Tree
  BY DEF EventsOk, UnderWay, ControlInv, TypeInv
<1>2. own \in Tree /\ old \in Tree
  BY <1>1, HasCopy
<1>3. /\ ~ own.blocking /\ ~ old.blocking /\ ~ server.blocking
      /\ Behind(old, server) /\ Beyond(own, Base(j), j)
  BY <1>1 DEF EventsOk, CopyOk
<1>4. m.cells = base.cells /\ m.pages = base.pages
  BY DEF Merged
<1>5. m.blocking = IF own.blocking = old.blocking THEN server.blocking ELSE own.blocking
  BY DEF Merged
<1>6. ~ m.blocking
  BY <1>2, <1>3, <1>5 DEF Tree
<1>7. base.cells = server.cells \/ base.cells = own.cells
  OBVIOUS
<1>8. Beyond(server, server, j)
  BY <1>1, BeyondSelf
<1>9. CASE optimistic(j)
  <2>1. Base(j) = old
    BY <1>9 DEF Base
  <2>2. CASE own.cells = old.cells
    <3>1. base = server
      BY <1>3, <2>1, <2>2 DEF Beyond
    <3> QED
      BY <1>4, <1>6, <1>7, <1>8, <3>1 DEF Beyond
  <2>3. CASE own.cells # old.cells
    <3>1. server.pages = old.pages
      BY <1>9, <2>3 DEF Conflict, Wrote
    <3>2. base = own
      BY <1>3, <2>1, <2>3 DEF Beyond
    <3>3. server.cells = old.cells
      BY <1>3, <3>1 DEF Behind
    <3> QED
      BY <1>3, <1>4, <1>6, <1>7, <2>1, <3>1, <3>2, <3>3 DEF Beyond
  <2> QED
    BY <2>2, <2>3
<1>10. CASE ~ optimistic(j)
  <2>1. Base(j) = server
    BY <1>10 DEF Base
  <2>2. CASE own.pages = old.pages
    <3>1. base = server
      BY <2>2
    <3> QED
      BY <1>4, <1>6, <1>7, <1>8, <3>1 DEF Beyond
  <2>3. CASE own.pages # old.pages
    <3>1. base = own
      BY <2>3
    <3> QED
      BY <1>3, <1>4, <1>6, <1>7, <2>1, <3>1 DEF Beyond
  <2> QED
    BY <2>2, <2>3
<1> QED
  BY <1>9, <1>10

LEMMA CommitEvents ==
  ASSUME ControlInv, EventInv, NEW j \in Job, Commit(j)
  PROVE  EventInv'
<1>1. /\ TypeInv /\ server \in Tree /\ pc[j] = "changed" /\ pc[j] \in UnderWay
      /\ UNCHANGED <<worker, process, requests, undefined, history>>
  BY DEF ControlInv, TypeInv, Commit, UnderWay
<1>2. CASE /\ pc' = [pc EXCEPT ![j] = "done"] /\ Reset(j)
           /\ UNCHANGED <<server, writerslock, commitTry>>
  <2>1. Off(j) /\ pc'[j] = "done"
    BY <1>1, <1>2 DEF Reset, TypeInv, Off
  <2>2. HasMutex'
    BY <1>2, <2>1, MutexKeeps DEF EventInv, UnderWay
  <2>3. ASSUME history'.late = {} PROVE EventsOk'
    <3>1. EventsOk
      BY <1>1, <2>3 DEF EventInv
    <3>2. pc'[j] \notin UnderWay /\ pc'[j] # "waiting" /\ pc[j] # "done"
      BY <1>1, <2>1 DEF UnderWay
    <3> QED
      BY <1>1, <1>2, <2>1, <3>1, <3>2, JobEvents
  <2> QED
    BY <2>2, <2>3 DEF EventInv
<1>3. CASE Repeat(j) /\ UNCHANGED server
  <2>1. Off(j) /\ pc'[j] \in {"start", "failed"} /\ writerslock' = Unlocked(j)
    <3>1. PICK try \in 0 .. COMMIT_REPEATS_CELL_REPLACE, p \in {"start", "failed"} :
             /\ commitTry' = [commitTry EXCEPT ![j] = try]
             /\ pc' = [pc EXCEPT ![j] = p]
             /\ context' = [context EXCEPT ![j] = NoCopy]
      BY <1>1, <1>3, RepeatEnds
    <3> QED
      BY <1>1, <1>3, <3>1 DEF Repeat, TypeInv, Off
  <2> QED
    BY <1>1, <1>3, <2>1, GivesUpEvents
<1>4. CASE /\ ~ Conflict(j) /\ writerslock \in {NoJob, j}
           /\ server' = Merged(j) /\ writerslock' = NoJob
           /\ pc' = [pc EXCEPT ![j] = "done"] /\ Reset(j)
           /\ UNCHANGED commitTry
  <2>1. Off(j) /\ pc'[j] = "done"
    BY <1>1, <1>4 DEF Reset, TypeInv, Off
  <2>2. \A i \in Job \ {j} : writerslock # i
    BY <1>4, Bounds
  <2>3. HasMutex'
    BY <1>4, <2>1, <2>2, MutexKeeps DEF EventInv, UnderWay
  <2>4. ASSUME history'.late = {} PROVE EventsOk'
    <3>1. EventsOk /\ HasMutex /\ CopyOk(j)
      BY <1>1, <2>4 DEF EventInv, EventsOk
    <3>2. /\ ~ server'.blocking /\ Beyond(server', server, j)
          /\ server'.cells = server.cells \/ server'.cells = context[j].server.cells
      BY <1>1, <1>4, <3>1, MergedBeyond
    <3>3. server' \in Tree
      BY <1>1, <1>4, MergedType
    <3>4. ASSUME NEW i \in Job, pc'[i] \in UnderWay PROVE CopyOk(i)'
      <4>1. /\ i # j /\ pc[i] \in UnderWay /\ CopyOk(i)
            /\ context'[i] = context[i] /\ pc'[i] = pc[i] /\ commitTry'[i] = commitTry[i]
        BY <2>1, <3>1, <3>4 DEF Off, UnderWay, EventsOk
      <4>2. context[i].old \in Tree
        BY <4>1, HasCopy
      <4>3. optimistic(i) \/ pc[i] = "change"
        BY <2>2, <3>1, <4>1 DEF HasMutex
      <4>4. optimistic(i)' <=> optimistic(i)
        BY <4>1 DEF optimistic
      <4>5. Base(i) = context[i].old /\ Base(i)' = context[i].old
        BY <4>1, <4>3, <4>4 DEF Base
      <4>6. Beyond(context[i].server, Base(i), i)'
        BY <4>1, <4>5 DEF CopyOk, Beyond, Cell
      <4>7. Behind(context[i].old, server)'
        <5>1. /\ context[i].old.pages \in Nat /\ server.pages \in Nat /\ server'.pages \in Nat
          BY <1>1, <3>3, <4>2 DEF Tree
        <5>2. Behind(context[i].old, server)
          BY <4>1 DEF CopyOk
        <5> QED
          BY <3>2, <4>1, <5>1, <5>2 DEF Behind, Beyond
      <4>8. ASSUME i \in Supervised
            PROVE  (/\ ~ context[i].server.blocking => Equal(context[i].server, i)
                    /\ Empty(context[i].old, i)
                    /\ ~ optimistic(i) /\ pc[i] # "change" => context[i].server.cells = server.cells
                    /\ pc[i] \in {"change", "locked", "ready"} => Empty(context[i].server, i)
                    /\ i \notin history.again => Once(context[i].server, i))'
        BY <1>1, <4>1, <4>3, <4>4, <4>8 DEF CopyOk, Equal, Empty, Once
      <4> QED
        BY <4>1, <4>6, <4>7, <4>8 DEF CopyOk
    <3>5. ASSUME NEW i \in Job, pc'[i] = "waiting" PROVE Progress(i)'
      <4>1. i # j /\ pc[i] = "waiting"
        BY <2>1, <3>5 DEF Off
      <4> QED
        BY <1>1, <2>1, <3>1, <4>1, OthersProgress
    <3>6. ASSUME NEW i \in Supervised PROVE InServer(i)'
      <4>1. InServer(i) /\ i \in Job
        BY <3>1, Bounds DEF EventsOk
      <4>2. CASE server'.cells = server.cells
        <5>1. pc'[i] # "done" => pc[i] # "done"
          BY <2>1, <4>1 DEF Off
        <5> QED
          BY <1>1, <4>1, <4>2, <5>1 DEF InServer, Equal, Once, Empty
      <4>3. CASE i # j
        <5>1. \A n \in 1 .. EventWrites : server'.cells[<<i, n>>] = server.cells[<<i, n>>]
          <6> SUFFICES ASSUME NEW n \in 1 .. EventWrites
                       PROVE  server'.cells[<<i, n>>] = server.cells[<<i, n>>]
            OBVIOUS
          <6>1. <<i, n>> \in Cell /\ <<i, n>>[1] # j
            BY <4>1, <4>3 DEF Cell
          <6> QED
            BY <3>2, <6>1 DEF Beyond
        <5>2. pc'[i] # "done" => pc[i] # "done"
          BY <2>1, <4>1 DEF Off
        <5>3. 1 \in 1 .. EventWrites
          BY Bounds
        <5> QED
          BY <1>1, <4>1, <5>1, <5>2, <5>3 DEF InServer, Equal, Once, Empty
      <4>4. CASE i = j /\ server'.cells = context[j].server.cells
        <5>1. Equal(context[j].server, j) /\ (j \notin history.again => Once(context[j].server, j))
          BY <1>1, <3>1, <4>4 DEF CopyOk
        <5> QED
          BY <1>1, <2>1, <4>4, <5>1 DEF InServer, Equal, Once
      <4> QED
        BY <3>2, <4>2, <4>3, <4>4
    <3> QED
      BY <3>2, <3>4, <3>5, <3>6 DEF EventsOk
  <2> QED
    BY <2>3, <2>4 DEF EventInv
<1> QED
  BY <1>2, <1>3, <1>4 DEF Commit

-----------------------------------------------------------------------------
(* The steps of the process and of the threads, and whole events.          *)

\* A copy that a step leaves as it is, but for the flag worker.
LEMMA SameCopy ==
  ASSUME NEW i \in Job, CopyOk(i), UNCHANGED <<server, pc, commitTry>>,
         history'.again = history.again,
         context'[i].server = context[i].server, context'[i].old = context[i].old,
         context'[i].checkArea = context[i].checkArea
  PROVE  CopyOk(i)'
<1>1. optimistic(i)' <=> optimistic(i)
  BY DEF optimistic
<1>2. Base(i)' = Base(i)
  BY <1>1 DEF Base
<1>3. Beyond(context[i].server, Base(i), i)' /\ Behind(context[i].old, server)'
  BY <1>2 DEF CopyOk, Beyond, Behind, Cell
<1>4. ASSUME i \in Supervised
      PROVE  (/\ ~ context[i].server.blocking => Equal(context[i].server, i)
              /\ Empty(context[i].old, i)
              /\ ~ optimistic(i) /\ pc[i] # "change" => context[i].server.cells = server.cells
              /\ pc[i] \in {"change", "locked", "ready"} => Empty(context[i].server, i)
              /\ i \notin history.again => Once(context[i].server, i))'
  BY <1>1, <1>4 DEF CopyOk, Equal, Empty, Once
<1> QED
  BY <1>3, <1>4 DEF CopyOk

\* A step of the process or of a thread.
LEMMA ProcessEvents ==
  ASSUME EventInv, UNCHANGED <<server, writerslock, pc, commitTry>>,
         history'.again = history.again, history'.late = {} => history.late = {},
         history'.late = {} =>
           \A i \in Job : /\ pc[i] \in UnderWay => CopyOk(i)'
                          /\ pc[i] = "waiting" => Progress(i)'
  PROVE  EventInv'
<1>1. HasMutex'
  BY DEF EventInv, HasMutex, optimistic
<1>2. ASSUME history'.late = {} PROVE EventsOk'
  <2>1. EventsOk
    BY <1>2 DEF EventInv
  <2>2. \A i \in Supervised : InServer(i)'
    BY <2>1 DEF EventsOk, InServer, Equal, Once, Empty
  <2> QED
    BY <1>2, <2>1, <2>2 DEF EventsOk
<1> QED
  BY <1>1, <1>2 DEF EventInv

LEMMA SendEvents ==
  ASSUME ControlInv, EventInv, Send
  PROVE  EventInv'
<1>1. UNCHANGED <<server, writerslock, pc, commitTry, context, process, history>>
  BY DEF Send
<1>2. ASSUME history'.late = {}, NEW i \in Job
      PROVE  /\ pc[i] \in UnderWay => CopyOk(i)'
             /\ pc[i] = "waiting" => Progress(i)'
  <2>1. EventsOk
    BY <1>1, <1>2 DEF EventInv
  <2>2. pc[i] \in UnderWay => CopyOk(i)'
    BY <1>1, <2>1, SameCopy DEF EventsOk
  <2>3. pc[i] = "waiting" => Progress(i)'
    BY <1>1, <2>1 DEF EventsOk, Progress, optimistic
  <2> QED
    BY <2>2, <2>3
<1> QED
  BY <1>1, <1>2, ProcessEvents

LEMMA AnswerEvents ==
  ASSUME ControlInv, EventInv, Answer
  PROVE  EventInv'
<1>1. /\ process.alive /\ process \in Process
      /\ UNCHANGED <<server, writerslock, pc, commitTry, context, history>>
  BY DEF ControlInv, TypeInv, Answer, Works
<1>2. /\ process'.alive = process.alive /\ process'.step = process.step
      /\ process'.quiet = process.quiet
      /\ process'.reply = "DONE" => process.quiet \/ process.step = Last + 1
  BY <1>1 DEF Answer, Process
<1>3. ASSUME history'.late = {}, NEW i \in Job
      PROVE  /\ pc[i] \in UnderWay => CopyOk(i)'
             /\ pc[i] = "waiting" => Progress(i)'
  <2>1. EventsOk
    BY <1>1, <1>3 DEF EventInv
  <2>2. pc[i] \in UnderWay => CopyOk(i)'
    BY <1>1, <2>1, SameCopy DEF EventsOk
  <2>3. pc[i] = "waiting" => Progress(i)'
    <3>1. pc[i] = "waiting" => Progress(i)
      BY <2>1 DEF EventsOk
    <3>2. optimistic(i)' <=> optimistic(i)
      BY <1>1 DEF optimistic
    <3> QED
      BY <1>1, <1>2, <3>1, <3>2 DEF Progress
  <2> QED
    BY <2>2, <2>3
<1> QED
  BY <1>1, <1>3, ProcessEvents

LEMMA CrashEvents ==
  ASSUME ControlInv, EventInv, Crash
  PROVE  EventInv'
<1>1. /\ process \in Process /\ process' = [process EXCEPT !.alive = FALSE]
      /\ UNCHANGED <<server, writerslock, pc, commitTry, context>>
  BY DEF ControlInv, TypeInv, Crash
<1>2. /\ ~ process'.alive /\ process'.step = process.step
      /\ process'.quiet = process.quiet /\ process'.reply = process.reply
  BY <1>1 DEF Process
<1>3. history'.again = history.again /\ history'.late = history.late
  BY DEF Crash, Crashes, ControlInv, TypeInv, History
<1>4. ASSUME history'.late = {}, NEW i \in Job
      PROVE  /\ pc[i] \in UnderWay => CopyOk(i)'
             /\ pc[i] = "waiting" => Progress(i)'
  <2>1. EventsOk
    BY <1>3, <1>4 DEF EventInv
  <2>2. pc[i] \in UnderWay => CopyOk(i)'
    BY <1>1, <1>3, <2>1, SameCopy DEF EventsOk
  <2>3. pc[i] = "waiting" => Progress(i)'
    <3>1. pc[i] = "waiting" => Progress(i)
      BY <2>1 DEF EventsOk
    <3>2. optimistic(i)' <=> optimistic(i)
      BY <1>1 DEF optimistic
    <3> QED
      BY <1>1, <1>2, <1>3, <3>1, <3>2 DEF Progress
  <2> QED
    BY <2>2, <2>3
<1> QED
  BY <1>1, <1>3, <1>4, ProcessEvents

LEMMA BindEvents ==
  ASSUME ControlInv, EventInv, NEW r \in requests, Bind(r)
  PROVE  EventInv'
<1>k. PICK k : k = worker.context
  OBVIOUS
<1>1. /\ TypeInv /\ k \in Someone /\ r \in Request
      /\ UNCHANGED <<server, writerslock, pc, commitTry, worker, process>>
  BY <1>k DEF ControlInv, TypeInv, Worker, Bind
<1>2. history'.again = history.again /\ (history'.late = {} => history.late = {})
  <2>1. CASE k = NoJob
    BY <1>k, <2>1 DEF Bind
  <2>2. CASE k # NoJob
    <3> DEFINE m == [r EXCEPT !.context = k]
    <3>1. m.context \in Job /\ history' = MarkLate(m)
      BY <1>1, <1>k, <2>2 DEF Bind, Request, Someone
    <3> HIDE DEF m
    <3> QED
      BY <1>1, <3>1, MarkLateType
  <2> QED
    BY <2>1, <2>2
<1>3. \A i \in Job : context[i] \in Copy =>
        /\ context'[i].server = context[i].server
        /\ context'[i].old = context[i].old
        /\ context'[i].checkArea = context[i].checkArea
  <2>1. CASE k = NoJob
    BY <1>k, <2>1 DEF Bind
  <2>2. CASE k # NoJob
    <3>1. context' = [context EXCEPT ![k].worker = TRUE]
      BY <1>k, <2>2 DEF Bind
    <3> QED
      BY <1>1, <3>1 DEF TypeInv, Copy
  <2> QED
    BY <2>1, <2>2
<1>4. ASSUME history'.late = {}, NEW i \in Job
      PROVE  /\ pc[i] \in UnderWay => CopyOk(i)'
             /\ pc[i] = "waiting" => Progress(i)'
  <2>1. EventsOk
    BY <1>2, <1>4 DEF EventInv
  <2>2. pc[i] \in UnderWay =>
          /\ context'[i].server = context[i].server
          /\ context'[i].old = context[i].old
          /\ context'[i].checkArea = context[i].checkArea
    BY <1>3, HasCopy DEF ControlInv, Equipped
  <2>3. pc[i] \in UnderWay => CopyOk(i)'
    BY <1>1, <1>2, <2>1, <2>2, SameCopy DEF EventsOk
  <2>4. pc[i] = "waiting" => Progress(i)'
    <3>1. pc[i] = "waiting" => Progress(i) /\ pc[i] \in UnderWay
      BY <2>1 DEF EventsOk, UnderWay
    <3>2. optimistic(i)' <=> optimistic(i)
      BY <1>1 DEF optimistic
    <3>3. PICK t : t = context[i].server
      OBVIOUS
    <3>4. pc[i] = "waiting" => context'[i].server = t
      BY <2>2, <3>1, <3>3
    <3>5. process' = process /\ history'.again = history.again
      BY <1>1, <1>2
    <3> SUFFICES ASSUME pc[i] = "waiting" PROVE Progress(i)'
      OBVIOUS
    <3>6. context[i].server = t /\ context'[i].server = t
      BY <3>3, <3>4
    <3>7. (/\ i \in Supervised
           /\ process.reply = "DONE" => ~ context[i].server.blocking
           /\ process.quiet => ~ context[i].server.blocking /\ process.step = 0
           /\ process.alive /\ process.step \in 1 .. Last => context[i].server.blocking
           /\ process.alive /\ process.step = Last + 1 => ~ context[i].server.blocking)'
      BY <3>1, <3>5, <3>6 DEF Progress
    <3>8. (process.alive /\ process.step \in 1 .. Last /\ optimistic(i) =>
             \E base \in Nat : \A n \in 1 .. EventWrites :
               context[i].server.cells[<<i, n>>] = IF n < process.step THEN base + 1 ELSE base)'
      BY <3>1, <3>2, <3>5, <3>6 DEF Progress
    <3>9. (i \notin history.again =>
             \A n \in 1 .. EventWrites :
               context[i].server.cells[<<i, n>>] = IF optimistic(i) /\ n < process.step THEN 1 ELSE 0)'
      BY <3>1, <3>2, <3>5, <3>6 DEF Progress
    <3> QED
      BY <3>7, <3>8, <3>9 DEF Progress
  <2> QED
    BY <2>3, <2>4
<1> QED
  BY <1>1, <1>2, <1>4, ProcessEvents

\* A request that is not late is served for the job that waits, whose copy goes
\* on by a step of the event.
LEMMA ServedEvent ==
  ASSUME ControlInv, EventsOk, NEW r \in requests, ~ Late(r), r.stage = "bound",
         NEW k \in Job, pc[k] = "waiting", k = process.line, Current(r),
         Served(k, r.step).ok,
         UNCHANGED <<server, pc, commitTry>>, history'.again = history.again,
         context'[k].server = Served(k, r.step).server,
         context'[k].old = context[k].old,
         context'[k].checkArea = context[k].checkArea,
         process'.step = process.step + 1, process'.reply = process.reply,
         process'.quiet = process.quiet, process'.alive = process.alive
  PROVE  CopyOk(k)' /\ Progress(k)'
<1> DEFINE s == context[k].server
           o == context[k].old
           t == context'[k].server
           n == r.step
           again == k \in history.again
<1>1. /\ TypeInv /\ pc[k] \in UnderWay /\ process.alive /\ ~ process.quiet
      /\ process.reply = "none" /\ n = process.step /\ n \in 0 .. Last
  BY DEF ControlInv, UnderWay, Late, Current, TypeInv, Request
<1>2. s \in Tree /\ o \in Tree /\ server \in Tree
  BY <1>1, HasCopy DEF TypeInv
<1>3. CopyOk(k) /\ Progress(k) /\ InServer(k) /\ k \in Supervised
  BY <1>1 DEF EventsOk, Progress
<1>4. t \in Tree
  BY <1>1, ServedType
<1>5. optimistic(k)' <=> optimistic(k)
  BY DEF optimistic
<1>6. Base(k)' = Base(k) /\ Base(k) \in Tree
  BY <1>2, <1>5 DEF Base
<1>7. /\ process'.step = n + 1 /\ ~ process'.quiet /\ process'.alive
      /\ process'.reply # "DONE"
  BY <1>1
<1>b. PICK b : b = Base(k)
  OBVIOUS
\* What is left to show.
<1>8. ASSUME Beyond(t, b, k),
             ~ t.blocking => Equal(t, k),
             ~ optimistic(k) => t.cells = s.cells,
             n + 1 \in 1 .. Last => t.blocking,
             n = Last => ~ t.blocking,
             n + 1 \in 1 .. Last /\ optimistic(k) =>
               \E base \in Nat : \A m \in 1 .. EventWrites :
                 t.cells[<<k, m>>] = IF m < n + 1 THEN base + 1 ELSE base,
             ~ again => \A m \in 1 .. EventWrites :
                 t.cells[<<k, m>>] = IF optimistic(k) /\ m < n + 1 THEN 1 ELSE 0
      PROVE  CopyOk(k)' /\ Progress(k)'
  <2>t. PICK u : u = t
    OBVIOUS
  <2>1. Beyond(context[k].server, Base(k), k)'
    BY <1>6, <1>b, <1>8 DEF Beyond, Cell
  <2>2. Behind(context[k].old, server)' /\ ~ context'[k].old.blocking /\ context'[k].checkArea
    BY <1>3, SMTT(30) DEF CopyOk, Behind
  <2>3. /\ (~ context[k].server.blocking => Equal(context[k].server, k))'
        /\ Empty(context[k].old, k)'
    BY <1>3, <1>8 DEF CopyOk, Equal, Empty
  <2>4. ~ optimistic(k) => t.cells = server.cells
    BY <1>3, <1>8 DEF CopyOk
  <2>5. ~ again => Once(context[k].server, k)'
    BY <1>8 DEF Once
  <2>6. CopyOk(k)'
    BY <1>5, <2>1, <2>2, <2>3, <2>4, <2>5 DEF CopyOk
  <2>7. process'.step \in 1 .. Last => context'[k].server.blocking
    BY <1>7, <1>8
  <2>8. process'.step = Last + 1 => ~ context'[k].server.blocking
    BY <1>1, <1>7, <1>8, Bounds
  <2>9. (process.alive /\ process.step \in 1 .. Last /\ optimistic(k) =>
           \E base \in Nat : \A m \in 1 .. EventWrites :
             context[k].server.cells[<<k, m>>] = IF m < process.step THEN base + 1 ELSE base)'
    <3>1. process'.step = n + 1 /\ process'.alive
      BY <1>7
    <3>2. n + 1 \in 1 .. Last /\ optimistic(k) =>
            \E base \in Nat : \A m \in 1 .. EventWrites :
              t.cells[<<k, m>>] = IF m < n + 1 THEN base + 1 ELSE base
      BY <1>8
    <3>3. PICK p : p = n + 1
      OBVIOUS
    <3> HIDE DEF n
    <3> QED
      BY <1>5, <3>1, <3>2, <3>3
  <2>10. (k \notin history.again =>
            \A m \in 1 .. EventWrites :
              context[k].server.cells[<<k, m>>] = IF optimistic(k) /\ m < process.step THEN 1 ELSE 0)'
    BY <1>5, <1>7, <1>8
  <2>11. Progress(k)'
    BY <1>3, <1>7, <2>7, <2>8, <2>9, <2>10 DEF Progress
  <2> QED
    BY <2>6, <2>11
<1>9. Beyond(s, b, k)
  BY <1>3, <1>b DEF CopyOk
<1>10. ~ again => \A m \in 1 .. EventWrites :
         s.cells[<<k, m>>] = IF optimistic(k) /\ m < n THEN 1 ELSE 0
  BY <1>1, <1>3 DEF Progress
<1>11. s.cells \in [Cell -> Nat] /\ \A m \in 1 .. EventWrites : <<k, m>> \in Cell
  BY <1>2 DEF Tree, Cell
<1>12. CASE n = 0
  <2>1. t = [s EXCEPT !.blocking = TRUE] /\ ~ s.blocking
    BY <1>12 DEF Served, Kind, EventBegin
  <2>2. t.cells = s.cells /\ t.pages = s.pages /\ t.blocking
    BY <1>2, <2>1 DEF Tree
  <2>3. Beyond(t, b, k)
    BY <1>9, <2>2 DEF Beyond
  <2>4. Equal(s, k)
    BY <1>3, <2>1 DEF CopyOk
  <2>5. \E base \in Nat : \A m \in 1 .. EventWrites :
          t.cells[<<k, m>>] = IF m < n + 1 THEN base + 1 ELSE base
    <3>1. s.cells[<<k, 1>>] \in Nat
      BY <1>11, Bounds
    <3>2. \A m \in 1 .. EventWrites : ~ (m < n + 1) /\ t.cells[<<k, m>>] = s.cells[<<k, 1>>]
      <4>1. \A m \in 1 .. EventWrites : ~ (m < n + 1)
        BY <1>12
      <4>2. \A m \in 1 .. EventWrites : t.cells[<<k, m>>] = s.cells[<<k, 1>>]
        BY <2>2, <2>4 DEF Equal
      <4> HIDE DEF n, s, t
      <4> QED
        BY <4>1, <4>2
    <3> QED
      BY <3>1, <3>2
  <2>6. ~ again => \A m \in 1 .. EventWrites :
          t.cells[<<k, m>>] = IF optimistic(k) /\ m < n + 1 THEN 1 ELSE 0
    <3>1. \A m \in 1 .. EventWrites : ~ (m < n + 1) /\ ~ (m < n)
      BY <1>12
    <3> HIDE DEF n, s, t
    <3> QED
      BY <1>10, <2>2, <3>1
  <2>7. n # Last
    BY <1>12, Bounds
  <2> QED
    BY <1>8, <2>2, <2>3, <2>5, <2>6, <2>7
<1>13. CASE n \in 1 .. EventWrites
  <2>1. n # 0 /\ n # Last /\ n \in 1 .. Last /\ n + 1 \in 1 .. Last
    BY <1>13, Bounds
  <2>2. s.blocking
    BY <1>1, <1>3, <2>1 DEF Progress
  <2>3. t = IF optimistic(k) THEN Written(s, <<k, n>>) ELSE s
    BY <2>1, <2>2 DEF Served, Kind, CellReplace
  <2>4. CASE ~ optimistic(k)
    BY <1>8, <1>9, <1>10, <2>1, <2>2, <2>3, <2>4, SMTT(30)
  <2>5. CASE optimistic(k)
    <3>1. <<k, n>> \in Cell
      BY <1>11, <1>13
    <3>2. t.cells = [s.cells EXCEPT ![<<k, n>>] = @ + 1] /\ t.blocking = s.blocking
      <4>1. t = Written(s, <<k, n>>)
        BY <2>3, <2>5
      <4> HIDE DEF s, t, n
      <4> QED
        BY <1>2, <3>1, <4>1, WrittenType
    <3>3. Beyond(t, b, k)
      BY <1>2, <1>6, <1>b, <1>9, <1>13, <2>3, <2>5, WrittenBeyond
    <3>4. \A m \in 1 .. EventWrites :
            t.cells[<<k, m>>] = IF m = n THEN s.cells[<<k, m>>] + 1 ELSE s.cells[<<k, m>>]
      <4> SUFFICES ASSUME NEW m \in 1 .. EventWrites
                   PROVE  t.cells[<<k, m>>] = IF m = n THEN s.cells[<<k, m>>] + 1
                                                       ELSE s.cells[<<k, m>>]
        OBVIOUS
      <4>1. <<k, m>> \in Cell /\ (m = n <=> <<k, m>> = <<k, n>>)
        BY <1>11
      <4> QED
        BY <1>11, <3>2, <4>1
    <3>5. \E base \in Nat : \A m \in 1 .. EventWrites :
            t.cells[<<k, m>>] = IF m < n + 1 THEN base + 1 ELSE base
      <4>1. PICK base \in Nat : \A m \in 1 .. EventWrites :
              s.cells[<<k, m>>] = IF m < n THEN base + 1 ELSE base
        BY <1>1, <1>3, <2>1, <2>5 DEF Progress
      <4>2. \A m \in 1 .. EventWrites : m < n + 1 <=> m < n \/ m = n
        BY <1>13
      <4>3. \A m \in 1 .. EventWrites : m = n => ~ (m < n)
        BY <1>13
      <4> HIDE DEF s, t, n
      <4>4. ASSUME NEW m \in 1 .. EventWrites
            PROVE  t.cells[<<k, m>>] = IF m < n + 1 THEN base + 1 ELSE base
        <5>1. t.cells[<<k, m>>] = IF m = n THEN s.cells[<<k, m>>] + 1 ELSE s.cells[<<k, m>>]
          BY <3>4
        <5>2. s.cells[<<k, m>>] = IF m < n THEN base + 1 ELSE base
          BY <4>1
        <5> QED
          BY <4>2, <4>3, <5>1, <5>2
      <4> QED
        BY <4>4
    <3>6. ~ again => \A m \in 1 .. EventWrites :
            t.cells[<<k, m>>] = IF optimistic(k) /\ m < n + 1 THEN 1 ELSE 0
      <4>1. \A m \in 1 .. EventWrites : m < n + 1 <=> m < n \/ m = n
        BY <1>13
      <4>2. \A m \in 1 .. EventWrites : m = n => ~ (m < n)
        BY <1>13
      <4> HIDE DEF s, t, n
      <4>3. ASSUME ~ again, NEW m \in 1 .. EventWrites
            PROVE  t.cells[<<k, m>>] = IF optimistic(k) /\ m < n + 1 THEN 1 ELSE 0
        <5>1. t.cells[<<k, m>>] = IF m = n THEN s.cells[<<k, m>>] + 1 ELSE s.cells[<<k, m>>]
          BY <3>4
        <5>2. s.cells[<<k, m>>] = IF m < n THEN 1 ELSE 0
          BY <1>10, <2>5, <4>3
        <5> QED
          BY <2>5, <4>1, <4>2, <5>1, <5>2
      <4> QED
        BY <4>3
    <3> QED
      BY <1>8, <2>1, <2>2, <2>5, <3>2, <3>3, <3>5, <3>6
  <2> QED
    BY <2>4, <2>5
<1>14. CASE n = Last
  <2>1. n # 0 /\ n \in 1 .. Last /\ n + 1 \notin 1 .. Last
    BY <1>14, Bounds
  <2>2. s.blocking
    BY <1>1, <1>3, <2>1 DEF Progress
  <2>3. t = [s EXCEPT !.blocking = FALSE]
    BY <1>14, <2>1 DEF Served, Kind, EventEnd
  <2>4. t.cells = s.cells /\ t.pages = s.pages /\ ~ t.blocking
    BY <1>2, <2>3 DEF Tree
  <2>5. Beyond(t, b, k)
    BY <1>9, <2>4 DEF Beyond
  <2>6. \A m \in 1 .. EventWrites : m < n /\ m < n + 1
    BY <1>14, Bounds
  <2>7. Equal(t, k)
    <3>1. CASE optimistic(k)
      <4>1. PICK base \in Nat : \A m \in 1 .. EventWrites :
              s.cells[<<k, m>>] = IF m < n THEN base + 1 ELSE base
        BY <1>1, <1>3, <2>1, <3>1 DEF Progress
      <4>2. 1 \in 1 .. EventWrites
        BY Bounds
      <4> QED
        BY <2>4, <2>6, <4>1, <4>2, SMTT(30) DEF Equal
    <3>2. CASE ~ optimistic(k)
      <4>1. s.cells = server.cells
        BY <1>3, <3>2 DEF CopyOk
      <4> QED
        BY <1>3, <2>4, <4>1 DEF InServer, Equal
    <3> QED
      BY <3>1, <3>2
  <2>8. ~ again => \A m \in 1 .. EventWrites :
          t.cells[<<k, m>>] = IF optimistic(k) /\ m < n + 1 THEN 1 ELSE 0
    BY <1>10, <2>4, <2>6
  <2> QED
    BY <1>8, <2>1, <2>4, <2>5, <2>7, <2>8
<1> QED
  BY <1>1, <1>12, <1>13, <1>14, Bounds

\* A request of the living process moves the event of the waiting job on, or is
\* refused; a late one is noted before it changes the copy of another job.
LEMMA ServeEvents ==
  ASSUME ControlInv, EventInv, NEW r \in requests, Serve(r)
  PROVE  EventInv'
<1>1. /\ TypeInv /\ r \in Request /\ r.stage = "bound" /\ r.step \in 0 .. Last
      /\ UNCHANGED <<server, writerslock, pc, commitTry>>
  BY DEF ControlInv, Serve, TypeInv, Request
<1>2. ~ Late(r) => r.context = process.line /\ r.context \in Job /\ r.context # NoJob
                   /\ pc[r.context] = "waiting" /\ Current(r)
                   /\ (history.late = {} => Bound(r))
  BY <1>1, LiveRequest DEF Current
<1>3. CASE /\ r.context = NoJob /\ Respond(r, r.step = 0)
           /\ UNCHANGED <<context, undefined, history>>
  <2>1. Late(r)
    BY <1>2, <1>3
  <2>2. process' = process
    BY <1>3, <2>1 DEF Respond
  <2>3. ASSUME history'.late = {}, NEW i \in Job
        PROVE  /\ pc[i] \in UnderWay => CopyOk(i)'
               /\ pc[i] = "waiting" => Progress(i)'
    <3>1. EventsOk
      BY <1>3, <2>3 DEF EventInv
    <3>2. pc[i] \in UnderWay => CopyOk(i)'
      BY <1>1, <1>3, <3>1, SameCopy DEF EventsOk
    <3>3. pc[i] = "waiting" => Progress(i)'
      BY <1>1, <1>3, <2>2, <3>1 DEF EventsOk, Progress, optimistic
    <3> QED
      BY <3>2, <3>3
  <2> QED
    BY <1>1, <1>3, <2>3, ProcessEvents
<1>4. CASE /\ r.context # NoJob /\ ~ Bound(r) /\ history' = MarkLate(r)
  <2>1. r.context \in Job
    BY <1>1, <1>4 DEF Request
  <2>2. /\ history'.again = history.again
        /\ history'.late = IF Late(r) THEN history.late \union {r.context} ELSE history.late
    BY <1>1, <1>4, <2>1, MarkLateType
  <2>3. history'.late # {}
    BY <1>2, <1>4, <2>2
  <2> QED
    BY <1>1, <2>2, <2>3, ProcessEvents
<1>5. CASE /\ r.context # NoJob /\ Bound(r)
           /\ ServeWith(r, r.context, Served(r.context, r.step))
  <2> DEFINE k == r.context
             served == Served(k, r.step)
             h == MarkLate(r)
  <2>1. k \in Job /\ pc[k] \in UnderWay
    BY <1>1, <1>5 DEF Request, Bound, UnderWay
  <2>2. served.ok \in BOOLEAN /\ context[k] \in Copy
    BY <1>1, <2>1, ServedType, HasCopy DEF ControlInv, Equipped
  <2>3. /\ h \in History /\ h.again = history.again
        /\ h.late = IF Late(r) THEN history.late \union {k} ELSE history.late
    BY <1>1, <2>1, MarkLateType
  <2>4. /\ Respond(r, served.ok)
        /\ context' = [context EXCEPT ![k].server = IF served.ok THEN served.server ELSE @,
                                      ![k].worker = FALSE]
        /\ history' = [h EXCEPT !.ended = IF Kind(r.step) = "end" /\ served.ok
                                            THEN @ \union {k} ELSE @]
    BY <1>5 DEF ServeWith
  <2> HIDE DEF served, h, k
  <2>5. history'.late = h.late /\ history'.again = history.again
    BY <2>3, <2>4 DEF History
  <2>6. /\ context'[k].server = IF served.ok THEN served.server ELSE context[k].server
        /\ context'[k].old = context[k].old
        /\ context'[k].checkArea = context[k].checkArea
        /\ \A i \in Job \ {k} : context'[i] = context[i]
    BY <1>1, <2>1, <2>2, <2>4 DEF TypeInv, Copy
  <2>7. CASE Late(r)
    <3>1. history'.late # {}
      BY <2>3, <2>5, <2>7
    <3> QED
      BY <1>1, <2>5, <3>1, ProcessEvents
  <2>8. CASE ~ Late(r)
    <3>1. /\ k = process.line /\ pc[k] = "waiting" /\ Current(r)
          /\ \A i \in Job \ {k} : pc[i] # "waiting"
      BY <1>2, <2>8 DEF k, ControlInv, Asking
    <3>2. /\ process'.quiet = process.quiet /\ process'.alive = process.alive
          /\ served.ok => process'.step = process.step + 1 /\ process'.reply = process.reply
          /\ ~ served.ok => process'.step = process.step /\ process'.reply = "ERROR"
      BY <1>1, <2>4, <2>8 DEF Respond, TypeInv, Process
    <3>3. history'.late = history.late
      BY <2>3, <2>5, <2>8
    <3>4. ASSUME EventsOk PROVE CopyOk(k)' /\ Progress(k)'
      <4>1. CASE served.ok
        BY <1>1, <2>1, <2>5, <2>6, <2>8, <3>1, <3>2, <3>4, <4>1, ServedEvent DEF served
      <4>2. CASE ~ served.ok
        <5>1. CopyOk(k) /\ Progress(k)
          BY <2>1, <3>1, <3>4 DEF EventsOk
        <5>2. CopyOk(k)'
          BY <1>1, <2>1, <2>5, <2>6, <4>2, <5>1, SameCopy
        <5>3. PICK t : t = context[k].server
          OBVIOUS
        <5>4. context[k].server = t /\ context'[k].server = t
          BY <2>6, <4>2, <5>3
        <5>5. optimistic(k)' <=> optimistic(k)
          BY <1>1 DEF optimistic
        <5>6. /\ process'.step = process.step /\ process'.quiet = process.quiet
              /\ process'.alive = process.alive /\ process'.reply # "DONE"
              /\ history'.again = history.again
          BY <2>5, <3>2, <4>2
        <5>7. (/\ k \in Supervised
               /\ process.reply = "DONE" => ~ context[k].server.blocking
               /\ process.quiet => ~ context[k].server.blocking /\ process.step = 0
               /\ process.alive /\ process.step \in 1 .. Last => context[k].server.blocking
               /\ process.alive /\ process.step = Last + 1 => ~ context[k].server.blocking)'
          BY <5>1, <5>4, <5>6 DEF Progress, k
        <5>8. (process.alive /\ process.step \in 1 .. Last /\ optimistic(k) =>
                 \E base \in Nat : \A n \in 1 .. EventWrites :
                   context[k].server.cells[<<k, n>>] = IF n < process.step THEN base + 1 ELSE base)'
          BY <5>1, <5>4, <5>5, <5>6 DEF Progress, k
        <5>9. (k \notin history.again =>
                 \A n \in 1 .. EventWrites :
                   context[k].server.cells[<<k, n>>] = IF optimistic(k) /\ n < process.step THEN 1 ELSE 0)'
          BY <5>1, <5>4, <5>5, <5>6 DEF Progress, k
        <5>10. Progress(k)'
          BY <5>7, <5>8, <5>9 DEF Progress, k
        <5> QED
          BY <5>2, <5>10
      <4> QED
        BY <4>1, <4>2
    <3>5. ASSUME history'.late = {}, NEW i \in Job
          PROVE  /\ pc[i] \in UnderWay => CopyOk(i)'
                 /\ pc[i] = "waiting" => Progress(i)'
      <4>1. EventsOk
        BY <3>3, <3>5 DEF EventInv
      <4>2. CASE i = k
        BY <3>4, <4>1, <4>2
      <4>3. CASE i # k
        <5>1. pc[i] \in UnderWay => CopyOk(i)'
          BY <1>1, <2>5, <2>6, <4>1, <4>3, SameCopy DEF EventsOk
        <5> QED
          BY <3>1, <4>3, <5>1
      <4> QED
        BY <4>2, <4>3
    <3> QED
      BY <1>1, <2>5, <3>3, <3>5, ProcessEvents
  <2> QED
    BY <2>7, <2>8
<1> QED
  BY <1>3, <1>4, <1>5 DEF Serve

LEMMA EventInit == Init => EventInv
<1> SUFFICES ASSUME Init PROVE EventInv
  OBVIOUS
<1>1. ~ server.blocking /\ \A j \in Job : pc[j] = "start"
  BY DEF Init
<1>2. ASSUME NEW j \in Supervised PROVE InServer(j)
  <2>1. \A n \in 1 .. EventWrites : <<j, n>> \in Cell /\ server.cells[<<j, n>>] = 0
    BY Bounds DEF Init, Cell
  <2>2. 1 \in 1 .. EventWrites
    BY Bounds
  <2> QED
    BY <2>1, <2>2 DEF InServer, Equal, Once, Empty
<1> QED
  BY <1>1, <1>2 DEF EventInv, EventsOk, HasMutex, UnderWay

LEMMA EventNext == ControlInv /\ EventInv /\ [Next]_vars => EventInv'
<1> SUFFICES ASSUME ControlInv, EventInv, [Next]_vars PROVE EventInv'
  OBVIOUS
<1>1. CASE UNCHANGED vars
  <2>1. ASSUME history'.late = {}, NEW i \in Job
        PROVE  /\ pc[i] \in UnderWay => CopyOk(i)'
               /\ pc[i] = "waiting" => Progress(i)'
    <3>1. EventsOk
      BY <1>1, <2>1 DEF EventInv, vars
    <3>2. pc[i] \in UnderWay => CopyOk(i)'
      BY <1>1, <3>1, SameCopy DEF EventsOk, vars
    <3>3. pc[i] = "waiting" => Progress(i)'
      BY <1>1, <3>1 DEF EventsOk, Progress, optimistic, vars
    <3> QED
      BY <3>2, <3>3
  <2> QED
    BY <1>1, <2>1, ProcessEvents DEF vars
<1>2. CASE Next
  <2>1. ASSUME NEW j \in Job, JobStep(j) PROVE EventInv'
    BY <2>1, GetServerCopyEvents, LockWritersEvents, SetCellValueEvents, FindRunningEvents,
       StartWorkerEvents, ExecuteEvents, RestartEvents, ReadResultEvents, ResetFailuresEvents, CommitEvents
       DEF JobStep
  <2>2. ASSUME NEW r \in requests, Bind(r) \/ Serve(r) PROVE EventInv'
    BY <2>2, BindEvents, ServeEvents
  <2> QED
    BY <1>2, <2>1, <2>2, SendEvents, AnswerEvents, CrashEvents DEF Next, ServerStep
<1> QED
  BY <1>1, <1>2

THEOREM EventInvCorrect == Spec => []EventInv
BY EventInit, EventNext, ControlInvCorrect, PTL DEF Spec

(* What the process writes for a question is in the tree as a whole or not *)
(* at all, and not after a failure, whatever dies in between; and once,    *)
(* unless the process died and was asked again.  No tree is published in   *)
(* the middle of an event.  All this as long as no request outlives its    *)
(* process.                                                                *)
THEOREM EventsAreWholeCorrect == Spec => []EventsAreWhole
<1>1. ControlInv /\ EventInv => EventsAreWhole
  <2> SUFFICES ASSUME ControlInv, EventInv, history.late = {},
                      NEW j \in Supervised, NEW n \in 1 .. EventWrites
               PROVE  /\ ~ server.blocking
                      /\ server.cells[<<j, n>>] = server.cells[<<j, 1>>]
                      /\ j \notin history.again => server.cells[<<j, n>>] <= 1
                      /\ pc[j] = "failed" => server.cells[<<j, n>>] = 0
    BY DEF EventsAreWhole, EventInv, EventsOk
  <2> QED
    BY DEF EventInv, EventsOk, InServer, Equal, Once, Empty
<1> QED
  BY <1>1, ControlInvCorrect, EventInvCorrect, PTL
=============================================================================
