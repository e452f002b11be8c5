------------------------------- MODULE CubeLock -------------------------------
(***************************************************************************)
(* The locks of a cube: cube/lock, cube/commit and cube/rollback, and the  *)
(* writes they are to bind (Cube::lockCube, commitCube, rollbackCube,      *)
(* lookupLockedArea, checkValueLocks, setCellValue, merge and              *)
(* RollbackStorage).                                                       *)
(*                                                                         *)
(* A lock of an area keeps the old values of its cells in a rollback       *)
(* storage.  A lock of the whole cube does not: the writes of its owner    *)
(* gather in the changed cells of the storage and are merged with its      *)
(* pages by cube/commit.  The list of locks, the flags hasLock and         *)
(* wholeCubeLocked and the pages are versioned and merged as in            *)
(* ServerCommit; the rollback storages and the map of changed cells are    *)
(* shared by all versions, and what a job puts there is not undone when    *)
(* its commit fails.                                                       *)
(*                                                                         *)
(* A version is the record of one cube.  A commit publishes it at once     *)
(* (ServerCommit has the two steps), and a job commits at most             *)
(* Repeats(j) times.  The value of a cell is the job that wrote it last.   *)
(***************************************************************************)
EXTENDS Integers, Sequences

CONSTANTS
  Job,           \* requests of this cube
  User,          \* who may send them
  SysOp,         \* the users with the system right
  Cell,          \* base cells of the cube
  Loaded,        \* the value of a cell nobody wrote
  Assignments,   \* what the jobs may be asked to do, see Request
  COMMIT_REPEATS,
  COMMIT_REPEATS_CELL_REPLACE

ASSUME UserAssumption == SysOp \subseteq User
ASSUME LoadedAssumption == Loaded \notin Job

Request ==
  [op : {"lock"}, user : User, area : SUBSET Cell \ {{}}]
  \union [op : {"lock_complete", "commit", "rename", "clear"}, user : User]
  \union [op : {"rollback"}, user : User, steps : Nat]
  \union [op : {"replace"}, user : User, cell : Cell]

ASSUME AssignmentsAssumption == Assignments \subseteq [Job -> Request]

VARIABLES
  request,    \* what each job is asked to do
  cube,       \* the latest version of the cube
  rollback,   \* the rollback storage of each lock, by identifier
  changed,    \* the maps of changed cells, shared by the versions
  pc,         \* where each job is
  commitTry,  \* commits of the job that failed so far
  old,        \* the version the job's copy was made from
  copy,       \* the job's copy of the cube
  target,     \* the lock a cube/commit or cube/rollback names
  up,         \* the server is running
  before,     \* auxiliary: the cells when each job committed
  unrecorded  \* auxiliary: locks whose storage was not given the value of a
              \* cell that changed, or another value

shared == <<rollback, changed>>
auxiliary == <<before, unrecorded>>
vars == <<request, cube, shared, pc, commitTry, old, copy, target, up, auxiliary>>
-----------------------------------------------------------------------------
Value == Job \union {Loaded}

(* id is taken from the IdHolder, which all versions of the list share.    *)
Lock == [id : Nat \ {0}, user : User, area : SUBSET Cell, whole : BOOLEAN]

(* `version` stands for the identity of a list of locks or of pages: the   *)
(* number of the commit that made it.  `changedCells` is a map of changed, *)
(* 0 when there is none.                                                   *)
Version ==
  [number : Nat, locks : SUBSET Lock, locksVersion : Nat, hasLock : BOOLEAN,
   wholeCubeLocked : BOOLEAN, cells : [Cell -> Value], pagesVersion : Nat,
   changedCells : Nat]

(* A step of a rollback storage: the old values one commit replaced.       *)
Step == UNION {[C -> Value] : C \in SUBSET Cell}

(* The values of f over those of g.                                        *)
Over(f, g) ==
  [c \in DOMAIN f \union DOMAIN g |-> IF c \in DOMAIN f THEN f[c] ELSE g[c]]

(* What of its copy a job checked out.                                     *)
Parts == {"locks", "storage", "pages"}

Repeats(j) == IF request[j].op = "replace" THEN COMMIT_REPEATS_CELL_REPLACE
                                            ELSE COMMIT_REPEATS

(* CellReplaceJob: the second try changes the cell inside the commit.      *)
Pessimistic(j) == request[j].op = "replace" /\ commitTry[j] > 0

Issued == 1 .. Len(rollback)

LockOf(v, id) == CHOOSE l \in v.locks : l.id = id

First(locks) == CHOOSE l \in locks : \A m \in locks : l.id <= m.id

(* Lock::contains.                                                         *)
LockContains(l, c) == l.whole \/ c \in l.area

(* What a call of a job does: it returns to the job, throws an             *)
(* ErrorException, or stops the server.                                    *)
Throw(j) ==
  /\ pc' = [pc EXCEPT ![j] = "failed"]
  /\ UNCHANGED <<request, cube, shared, commitTry, old, copy, target, up, auxiliary>>

Crash ==
  /\ up' = FALSE
  /\ UNCHANGED <<request, cube, shared, pc, commitTry, old, copy, target, auxiliary>>

Returns(j, v, out) ==
  /\ copy' = [copy EXCEPT ![j] = [v |-> v, out |-> out]]
  /\ pc' = [pc EXCEPT ![j] = "changed"]
  /\ UNCHANGED <<request, cube, commitTry, old, target, up, before>>

Init ==
  /\ request \in Assignments
  /\ cube = [number |-> 0, locks |-> {}, locksVersion |-> 0, hasLock |-> FALSE,
             wholeCubeLocked |-> FALSE, cells |-> [c \in Cell |-> Loaded],
             pagesVersion |-> 0, changedCells |-> 0]
  /\ rollback = <<>>
  /\ changed = <<>>
  /\ pc = [j \in Job |-> "start"]
  /\ commitTry = [j \in Job |-> 0]
  /\ old = [j \in Job |-> cube]
  /\ copy = [j \in Job |-> [v |-> cube, out |-> {}]]
  /\ target = [j \in Job |-> 0]
  /\ up = TRUE
  /\ before = [j \in Job |-> cube.cells]
  /\ unrecorded = {}
-----------------------------------------------------------------------------
(* getServerCopy.  A cube/commit or cube/rollback names a lock that        *)
(* cube/locks lists when the job begins.                                   *)
GetServerCopy(j) ==
  /\ up
  /\ pc[j] = "start"
  /\ IF request[j].op \in {"commit", "rollback"} /\ target[j] = 0
     THEN \E l \in cube.locks : target' = [target EXCEPT ![j] = l.id]
     ELSE UNCHANGED target
  /\ old' = [old EXCEPT ![j] = cube]
  /\ copy' = [copy EXCEPT ![j] = [v |-> cube, out |-> {}]]
  /\ pc' = [pc EXCEPT ![j] = "copied"]
  /\ UNCHANGED <<request, cube, shared, commitTry, up, auxiliary>>

(* Database::findCube in the copy: a cube that is locked as a whole is     *)
(* found by the owner of the first lock; the list is taken to have one.    *)
FindCube(j) ==
  /\ up
  /\ pc[j] = "copied"
  /\ LET v == copy[j].v IN
     IF ~v.wholeCubeLocked \/ (v.locks # {} /\ First(v.locks).user = request[j].user)
     THEN /\ pc' = [pc EXCEPT ![j] = IF Pessimistic(j) THEN "changed" ELSE "found"]
          /\ UNCHANGED <<request, cube, shared, commitTry, old, copy, target, up, auxiliary>>
     ELSE IF v.locks = {} THEN Crash ELSE Throw(j)

Call(j, op) == up /\ pc[j] = "found" /\ request[j].op = op

(* Lock::overlaps of an area with itself, whatever this lock is.           *)
Overlaps(l, area) == l.whole \/ area \intersect area # {}

(* Cube::lockCube.  A new lock of the whole cube has no area, and          *)
(* Lock::overlaps of an area lock dereferences it.                         *)
AddLock(j, area, whole) ==
  LET v == copy[j].v
      l == [id |-> Len(rollback) + 1, user |-> request[j].user,
            area |-> area, whole |-> whole]
  IN IF whole /\ v.locks # {} /\ ~First(v.locks).whole THEN Crash
     ELSE IF \E m \in v.locks : Overlaps(m, area) THEN Throw(j)
     ELSE /\ rollback' = Append(rollback, <<>>)
          /\ Returns(j, [v EXCEPT !.locks = @ \union {l}, !.hasLock = TRUE,
                                  !.wholeCubeLocked = whole], {"locks"})
          /\ UNCHANGED <<changed, unrecorded>>

LockCube(j) ==
  \/ Call(j, "lock") /\ AddLock(j, request[j].area, FALSE)
  \/ Call(j, "lock_complete") /\ AddLock(j, {}, TRUE)

(* The owner of the lock, or a user with the system right.                 *)
MayUnlock(j) ==
  /\ \E l \in copy[j].v.locks :
       l.id = target[j] /\ request[j].user \in {l.user} \union SysOp

RemoveLock(v, id) ==
  LET rest == {l \in v.locks : l.id # id} IN
  [v EXCEPT !.locks = rest, !.hasLock = @ /\ rest # {}]

Pending(v) == IF v.changedCells = 0 THEN << >> ELSE changed[v.changedCells]

(* StorageCpu::setCellValue for the cells of m, and commitChanges.  The    *)
(* map of changed cells the copy came with is the map of other copies too. *)
Stored(v, m) ==
  [v EXCEPT !.cells = Over(m, Over(Pending(v), @)), !.changedCells = 0]

Gathered(v, m) ==
  IF v.changedCells = 0 THEN changed
  ELSE [changed EXCEPT ![v.changedCells] = Over(m, @)]

Written(v, m) ==
  IF DOMAIN m \union DOMAIN Pending(v) = {} THEN {"storage"}
                                            ELSE {"storage", "pages"}

(* Cube::commitCube.                                                       *)
CommitCube(j) ==
  LET v == copy[j].v
      w == RemoveLock(v, target[j])
  IN /\ Call(j, "commit")
     /\ IF ~MayUnlock(j) THEN Throw(j)
        ELSE IF v.wholeCubeLocked
        THEN /\ Returns(j, [Stored(w, << >>) EXCEPT !.wholeCubeLocked = FALSE],
                        {"locks"} \union Written(v, << >>))
             /\ UNCHANGED <<shared, unrecorded>>
        ELSE Returns(j, w, {"locks"}) /\ UNCHANGED <<shared, unrecorded>>

(* The values a rollback of the last n steps brings back: of each cell the *)
(* oldest.                                                                 *)
Undone(steps, n) ==
  LET last == {i \in 1 .. Len(steps) : i > Len(steps) - n}
      Oldest(c) == CHOOSE i \in last :
                     /\ c \in DOMAIN steps[i]
                     /\ \A k \in last : c \in DOMAIN steps[k] => i <= k
  IN [c \in UNION {DOMAIN steps[i] : i \in last} |-> steps[Oldest(c)][c]]

(* Cube::rollbackCube.  The steps leave the rollback storage here, not     *)
(* when the job commits.                                                   *)
RollbackCube(j) ==
  LET v == copy[j].v
      id == target[j]
      n == IF request[j].steps = 0 \/ request[j].steps > Len(rollback[id])
           THEN Len(rollback[id]) ELSE request[j].steps
      undo == Undone(rollback[id], n)
      w == IF request[j].steps = 0 THEN RemoveLock(v, id) ELSE v
  IN /\ Call(j, "rollback")
     /\ IF v.wholeCubeLocked \/ ~MayUnlock(j) THEN Throw(j)
        ELSE /\ rollback' = [rollback EXCEPT ![id] = SubSeq(@, 1, Len(@) - n)]
             /\ changed' = Gathered(v, undo)
             /\ Returns(j, Stored(w, undo),
                        Written(v, undo) \union
                          (IF request[j].steps = 0 THEN {"locks"} ELSE {}))
             /\ UNCHANGED unrecorded

(* Cube::lookupLockedArea.                                                 *)
Covering(v, c) ==
  IF v.hasLock THEN {l \in v.locks : LockContains(l, c)} ELSE {}

WrongUser(v, u, C) ==
  \E c \in C : Covering(v, c) # {} /\ First(Covering(v, c)).user # u

(* The cells of C whose old values checkValueLocks gives to a lock.        *)
Recorded(v, id, C) ==
  {c \in C : /\ Covering(v, c) # {}
             /\ First(Covering(v, c)).id = id
             /\ ~First(Covering(v, c)).whole}

(* Mutant: empty cells are recorded, whatever they held.                   *)
RecordEmpty(v, C) ==
  [id \in Issued |->
     IF Recorded(v, id, C) = {} THEN rollback[id]
     ELSE Append(rollback[id], [c \in Recorded(v, id, C) |-> Loaded])]

Record(v, C) ==
  [id \in Issued |->
     IF Recorded(v, id, C) = {} THEN rollback[id]
     ELSE Append(rollback[id], [c \in Recorded(v, id, C) |-> v.cells[c]])]

(* Cube::setCellValue in the version v: the write waits for cube/commit,   *)
(* or goes to the pages and its old values to the locks; a lock of another *)
(* user is an ErrorException.                                              *)
SetCellValue(j, v) ==
  LET m == [c \in {request[j].cell} |-> j]
      C == DOMAIN m \union DOMAIN Pending(v)
  IN IF v.wholeCubeLocked
     THEN [ok |-> TRUE, out |-> {"storage"}, rollback |-> rollback,
           v |-> [v EXCEPT !.changedCells = IF @ = 0 THEN Len(changed) + 1 ELSE @],
           changed |-> IF v.changedCells = 0 THEN Append(changed, m) ELSE Gathered(v, m)]
     ELSE IF WrongUser(v, request[j].user, C) THEN [ok |-> FALSE]
     ELSE [ok |-> TRUE, out |-> Written(v, m), rollback |-> Record(v, C),
           v |-> Stored(v, m), changed |-> Gathered(v, m)]

(* A cube/rollback of the lock that took its steps and is not committed,   *)
(* or that had to take them again.                                         *)
Undoing(id) ==
  \E k \in Job : /\ request[k].op = "rollback" /\ target[k] = id
                 /\ pc[k] = "changed" \/ commitTry[k] > 0

(* Auxiliary: the locks that are given, as the oldest value of a cell, one *)
(* the cell does not have: a rollback took the steps after j's copy.       *)
Outdated(j, v) ==
  LET C == {request[j].cell} \union DOMAIN Pending(v) IN
  {id \in Issued : \E c \in Recorded(v, id, C) :
     /\ \A i \in DOMAIN rollback[id] : c \notin DOMAIN rollback[id][i]
     /\ v.cells[c] # cube.cells[c] \/ Undoing(id)}

Replace(j) ==
  /\ Call(j, "replace")
  /\ LET written == SetCellValue(j, copy[j].v)
     IN IF written.ok
        THEN /\ changed' = written.changed
             /\ rollback' = written.rollback
             /\ unrecorded' = unrecorded \union Outdated(j, copy[j].v)
             /\ Returns(j, written.v, written.out)
        ELSE Throw(j)

(* Cube::clearCells, of all cells.                                         *)
ClearCells(j) ==
  LET v == copy[j].v IN
  /\ Call(j, "clear")
  /\ IF v.hasLock THEN Throw(j)
     ELSE /\ Returns(j, [v EXCEPT !.cells = [c \in Cell |-> Loaded],
                                  !.changedCells = 0], {"storage", "pages"})
          /\ UNCHANGED <<shared, unrecorded>>

(* cube/rename, and other requests that change the cube alone.             *)
RenameCube(j) ==
  /\ Call(j, "rename")
  /\ Returns(j, copy[j].v, {})
  /\ UNCHANGED <<shared, unrecorded>>
-----------------------------------------------------------------------------
(* Cube::merge and, for the pages, SlimVector::merge.                      *)
Conflict(j) ==
  LET mine == copy[j].v IN
  \/ cube.wholeCubeLocked /\ ~old[j].wholeCubeLocked
  \/ /\ mine.wholeCubeLocked
     /\ "locks" \in copy[j].out \/ mine.locksVersion # cube.locksVersion
     /\ cube.locks # {}
  \/ "pages" \in copy[j].out /\ cube.pagesVersion # old[j].pagesVersion

(* Mutant: the list of the job replaces the latest one.                    *)
OwnLocks(j) == copy[j].v.locks

(* CommitableList::merge.                                                  *)
MergedLocks(j) ==
  {l \in copy[j].v.locks : l \in cube.locks \/ l \notin old[j].locks}
    \union (cube.locks \ old[j].locks)

Merged(j) ==
  LET mine == copy[j].v
      out == copy[j].out
      Theirs(part) == part \notin out
      number == cube.number + 1
  IN [number |-> number,
      locks |-> IF Theirs("locks") THEN cube.locks ELSE MergedLocks(j),
      locksVersion |-> IF Theirs("locks") THEN cube.locksVersion ELSE number,
      hasLock |-> IF mine.hasLock = old[j].hasLock THEN cube.hasLock
                                                   ELSE mine.hasLock,
      wholeCubeLocked |-> mine.wholeCubeLocked,
      cells |-> IF Theirs("pages") THEN cube.cells ELSE mine.cells,
      pagesVersion |-> IF Theirs("pages") THEN cube.pagesVersion ELSE number,
      changedCells |-> IF Theirs("storage") THEN cube.changedCells
                                            ELSE mine.changedCells]

(* Auxiliary: the cells j leaves, and the locks whose cells it changes and  *)
(* does not record: by a write that does not see the lock in version o, or *)
(* by the rollback of another lock.                                        *)
Observe(j, o) ==
  /\ before' = [before EXCEPT ![j] = cube'.cells]
  /\ unrecorded' = unrecorded \union
       {l.id : l \in {m \in cube.locks :
                       /\ m.id # target[j]
                       /\ \E c \in m.area :
                            /\ cube'.cells[c] # cube.cells[c]
                            /\ \/ request[j].op # "replace"
                               \/ m \notin Covering(o, c)
                               \/ m # First(Covering(o, c))}}

Commit(j) ==
  /\ up
  /\ pc[j] = "changed"
  /\ ~Pessimistic(j)
  /\ ~Conflict(j)
  /\ cube' = Merged(j)
  /\ Observe(j, old[j])
  /\ pc' = [pc EXCEPT ![j] = "done"]
  /\ UNCHANGED <<request, shared, commitTry, old, copy, target, up>>

CommitFails(j) ==
  /\ up
  /\ pc[j] = "changed"
  /\ ~Pessimistic(j)
  /\ Conflict(j)
  /\ commitTry' = [commitTry EXCEPT ![j] = @ + 1]
  /\ pc' = [pc EXCEPT ![j] = IF commitTry[j] + 1 < Repeats(j)
                             THEN "start" ELSE "failed"]
  /\ UNCHANGED <<request, cube, shared, old, copy, target, up, auxiliary>>

(* Context::makeCubeChanges in the merge: lookupCube finds the latest cube *)
(* whoever locked it.                                                      *)
CommitPessimistic(j) ==
  /\ up
  /\ pc[j] = "changed"
  /\ Pessimistic(j)
  /\ LET written == SetCellValue(j, cube)
     IN IF written.ok
        THEN /\ changed' = written.changed
             /\ rollback' = written.rollback
             /\ cube' = [written.v EXCEPT !.number = @ + 1,
                           !.pagesVersion = IF "pages" \in written.out
                                            THEN cube.number + 1 ELSE @]
             /\ Observe(j, cube)
             /\ pc' = [pc EXCEPT ![j] = "done"]
             /\ UNCHANGED <<request, commitTry, old, copy, target, up>>
        ELSE Throw(j)

Next ==
  \E j \in Job :
    \/ GetServerCopy(j) \/ FindCube(j)
    \/ LockCube(j) \/ CommitCube(j) \/ RollbackCube(j)
    \/ Replace(j) \/ ClearCells(j) \/ RenameCube(j)
    \/ Commit(j) \/ CommitFails(j) \/ CommitPessimistic(j)

Spec == Init /\ [][Next]_vars
-----------------------------------------------------------------------------
(* The variables keep their types.                                         *)
TypeOK ==
  /\ request \in Assignments
  /\ cube \in Version
  /\ rollback \in Seq(Seq(Step))
  /\ changed \in Seq(Step)
  /\ pc \in [Job -> {"start", "copied", "found", "changed", "done", "failed"}]
  /\ commitTry \in [Job -> Nat]
  /\ old \in [Job -> Version]
  /\ copy \in [Job -> [v : Version, out : SUBSET Parts]]
  /\ target \in [Job -> Nat]
  /\ up \in BOOLEAN
  /\ before \in [Job -> [Cell -> Value]]
  /\ unrecorded \subseteq Nat

(* The lock a job added, once it is answered.                              *)
Added(j) ==
  IF pc[j] = "done" /\ request[j].op \in {"lock", "lock_complete"}
  THEN copy[j].v.locks \ old[j].locks ELSE {}

(* Requests that remove the lock they name.                                *)
Unlocks(j) ==
  \/ request[j].op = "commit"
  \/ request[j].op = "rollback" /\ request[j].steps = 0

RemovedBy(j) == IF pc[j] = "done" /\ Unlocks(j) THEN {target[j]} ELSE {}

(* A cube/lock that was answered holds its lock until a cube/commit or     *)
(* cube/rollback of that lock is answered, whatever other requests merge   *)
(* with it; none of them brings back a lock that was removed.              *)
LocksHeld ==
  \A l \in UNION {Added(j) : j \in Job} :
    l \in cube.locks <=> \A k \in Job : l.id \notin RemovedBy(k)

(* At any time the rollback storage of an area lock leads back to the      *)
(* cells the area had when it was locked: through writes of its owner that *)
(* are retried in the commit and leave their old values twice, through     *)
(* partial rollbacks, and with writes of others outside of the area.       *)
(* Excepted are writes that began before the lock was there, rollbacks     *)
(* whose commit failed, as their steps are gone, and writes with a copy    *)
(* that is older than a rollback of the lock: they record what it undid.   *)
UndoRestoresArea ==
  \A j \in Job : \A l \in Added(j) \intersect cube.locks :
    l.id \notin unrecorded /\ ~Undoing(l.id) =>
      \A c \in l.area :
        Over(Undone(rollback[l.id], Len(rollback[l.id])), cube.cells)[c]
          = before[j][c]

=============================================================================
