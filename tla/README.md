# Palo server: a verification project

This directory holds TLA+ models of the Palo OLAP server (`src/Library`,
`src/Programs`), the TLC runs that check them and proofs that TLAPS checks.
The models are written from the C++ source.  `PROJECT.json` says for every
definition which lines it stands for, lists the runs, the mutants that show
that each property can fail, the hazards, the findings and the theorems.

## 1. The system

Palo keeps multidimensional databases in memory and answers HTTP requests.
All the data is one tree of shared, copy-on-write objects: a `Server` has
databases, a database has dimensions and cubes, a dimension has an element
list and three indexes, a cube refers to storages of page lists in an engine.
The tree that readers use (`readersserver`) never changes; a write job copies
the tree, changes its copy and merges it with the latest tree.

| Component | State | Operations | Interacts with | What is hard | Correct when |
|---|---|---|---|---|---|
| Commit protocol (`Server`, `Commitable`, `Context`) | `writersserver`, `readersserver`, two mutexes, tokens; per job a copy and the tries it made | copy, check out, merge, publish, retry, the pessimistic change inside the merge | every write job; readers | jobs interleave between copy and merge, retries, publication in two steps, token overflow | no update is lost, versions are atomic, readers never go back, every request ends |
| Dimension (`Dimension`, `ElementList`) | elements in recycled slots, `idsMap`, `namesMap`, `posIndex`, identifier holder | create, rename, move, move in bulk, destroy, clear; rename of the dimension | commit protocol, cubes, journal | four parts merged by pointer, parts written in place | the parts stay in step, readers see no change, the order is that of some serial execution |
| Catalogue (`Database`, `CommitableList`) | lists of dimensions and cubes, system dimensions `#_DIMENSION_` and `#_CUBE_`, attribute and rights cubes | create, rename, destroy of dimensions and cubes | dimensions, journal, files | lists merge by identifier and never conflict | unique names, companions in step, no cube without its dimensions, nothing comes back |
| Cube locks, rollback storage (`Cube`, `RollbackStorage`) | list of locks, `hasLock`, `wholeCubeLocked`, old values per lock | lock, commit, rollback, write in a locked area | cell writes | lock and write interleave, state shared by versions | writers are excluded, a rollback restores the cells |
| Cell storage (`StorageCpu`, `EngineCpuMT`) | page lists, changes to merge | read, write, the parallel commit of changes | thread pool, commit protocol | workers finish in any order and fail | the merged list holds every bulk once, in order |
| Thread pool and interface (`ThreadPool`, `MTPaloInterface`) | queue, groups, semaphores, free threads | add a job, join, destroy | every request and the engine | requests and the jobs they wait for share the threads; `writerslock` is held while jobs are joined; shutdown | no deadlock but the known one, every request served, groups outlive their jobs |
| Caches of aggregates and rules | cached values per cube | lookup, insert, invalidate | commits, readers | invalidation is not atomic with the commit | no reader gets values of another version |
| Rules, markers, legacy rule engine, rule parser | rules of a cube, marker storages | define, parse, evaluate | cell storage | markers have a commit protocol of their own | a rule is evaluated wherever it applies |
| Query plans, processors, area algebra | none | plan, evaluate | storages, caches | numeric | the result is the aggregate of the area |
| Sessions, users, rights, system database | sessions with time to live; rights cached per user | login, logout, expiry, change of rights | every request | expiry against running jobs, cached rights | only valid sessions work, rights are those of the latest version |
| Load, save, journal | files | save, archive, replay | commits | crash between steps | what was acknowledged is found after a restart |
| Supervision workers (`Worker`, `CubeWorker`) | a process per cube, its failures, the Context of the job that waits for it | questions over pipes; event/begin, cell/replace, event/end of the process | cell writes, the commit that waits | a partner that dies, answers late or calls back while a mutex is held | an event is whole or not there, it is in the tree of the job that asked, nobody waits for ever |
| Element hierarchy (`Dimension`, `Element`) | types, parents, weighted children, string consolidations, base elements, levels, depths, indents | create, append, replace, destroy, also in bulk; clear | journal, cells, rules | derived data updated in place, its replay | derived data is what a computation from nothing gives |
| HTTP server, dispatch, files, options, logging, browser | connections, buffers | input and output | all | - | not modelled |

`PROJECT.json` has all components, one entry each, with the reason where a
part is not modelled.

## 2. Modules

| Module | Models | Abstract specification |
|---|---|---|
| `ServerCommit` | commit protocol | `AtomicServer` |
| `ServerCommitProofs` | its theorems | |
| `DimensionElements` | elements of one dimension under that protocol | `ElementOrder` |
| `Sublist` | what is left of a sequence when positions are given up, without recursion | |
| `DimensionElementsProofs` | its theorems | |
| `Hierarchy` | parents, children and derived data of the elements, and their journal | definitions by paths (`InfoExact`, `FlagsExact`) |
| `Catalog` | dimensions and cubes of one database under that protocol | `Catalogue` |
| `CatalogProofs` | its theorems | |
| `CubeLock` | locks of a cube, rollback storages and the writes they bind | the cells at the time of the lock |
| `CubeLockProofs` | its theorems | |
| `ValueCache` | caches of aggregates and rule values | (stated as invariants) |
| `ValueCacheProofs` | its theorems | |
| `Recovery` | files, journals, saves, crashes and restarts | the committed version |
| `Supervision` | cell writes that ask a worker process | (stated as invariants) |
| `SupervisionProofs` | its theorems | |
| `StorageFragments` | parallel commit of one storage | (stated as invariants) |
| `StorageFragmentsProofs` | its theorems | |
| `ThreadPool` | pool, groups and the interface that feeds it | (stated as invariants) |
| `ThreadPoolProofs` | its theorems | |
| `MC...` | instances for TLC: symmetry, loaded data, sets of requests | |

The models compose by abstraction: `ServerCommit` treats a dimension and a
storage as a leaf that conflicts when two jobs replaced it; `DimensionElements`
opens one dimension and has the rest of the tree as "may conflict"
(`ConflictElsewhere`); `Catalog` opens the lists and keeps a dimension's
elements as the pointer and names that conflict; `CubeLock` opens one cube with
its locks; `StorageFragments` opens the merge of one storage, whose jobs run in
`ThreadPool`.  Where a model is about what follows a commit, the commit is one
step: `Hierarchy`, `Recovery`, `ValueCache`; `Supervision` has the optimistic
and the pessimistic try of a cell write and what happens inside of them.

### ServerCommit

`GetServerCopy` is `Server::getInstance(true)` and the job's change;
`Merge` is `Server::commit` up to `writersserver = ...` with
`Server::merge` and `Context::makeCubeChanges(true)` inside; `Publish` assigns
`readersserver`; `MergeFails` is the retry loop of the jobs (`COMMIT_REPEATS`,
`COMMIT_REPEATS_CELL_REPLACE`); `Throw` stands for any exception before the
commit.  A tree is abstracted to its unmergeable leaves.  `ptr[o]` is the
identity of a shared object, `val[o]` the set of jobs whose change it holds:
enough to say that an update is lost, torn or seen.

### DimensionElements and ElementOrder

One action per job: `Create`, `Rename`, `Move`, `MoveBulk`, `Destroy`
(also in bulk), `Clear`, `RenameDimension`, and `Merge`, `DestroyInMerge`
(the pessimistic try), `MergeFails`, `Throw`.  Immutable parts are values
beside their pointer.  What the code writes in place though versions share it
- `posIndex`, the size of an element page, the identifier holder - are heap
variables, so that a model's reader sees what a reader of the code would.
`ElementOrder` is one ordered list with unique names on which each request is
one step.

### Hierarchy

`ElementCreate`, `ElementReplace`, `ElementAppend`, `ElementReplaceBulk`,
`ElementDestroy`, `ElementCreateBulk` (elements of one type),
`ElementCreateBulkTypes` (of different types), `DimensionClear` and
`DimensionClearType` are the jobs of these names with everything below them:
`addChildren`, `removeChildren`, `removeChildrenNotIn`, the cycle check, the
change of type, `checkUpdateConsolidationType` upwards, and then either the
update in place of base elements, levels, depths and indents
(`UpdateInfoOfParent`) or their computation from nothing (`updateElementsInfo`).  `dim` is the
published dimension; each job also appends its entries to a journal, and
`replayed` is the dimension a start would build by processing the journal
after the file.  `Save` empties the journal, `Restart` goes on with what the
replay built.  The numbers are those of the code: weights are factors, base
elements are weighted sets, `Null` is the missing set of an element that never
had one.  The properties define base elements by summing over paths and levels
by longest chains, apart from the code's way of computing them.

### Catalog and Catalogue

Each job's action contains the notifications it sends: the element of
`#_DIMENSION_` or `#_CUBE_`, the attribute cube, the rights cube.
`MergedList` is `CommitableList::merge` by identifier with
`checkBeforeInsertToMergedList`, `MetaConflict` the conflict of the element
lists of the meta dimensions.  Both lists have an identifier holder that all
copies share (`nextId`, which starts at `FirstId`: `setNewIDStart`).
`Catalogue` says that requests are carried out at once, names are unique and
identifiers are never reused.  It allows two acknowledgements without an effect,
which the code gives: the rename of an object that another job removed, and the
rename to the name the object had in the job's copy, which returns early
(`Database.cpp:1404`), though another job gave it a third name meanwhile.

### CubeLock

`GetServerCopy` and `FindCube` take the version and the copy of the cube,
`LockCube` (of an area or of the whole cube), `CommitCube`, `RollbackCube`
change it; `Replace` and `ClearCells` are the writes of others and of the
owner, `RenameCube` is any job that copies the cube and touches neither cells
nor locks.  `Commit` has the three-way merge of the cube: the list of locks by
identifier, `hasLock` on its own, `wholeCubeLocked`, the pages by pointer;
`CommitFails` is the retry, `CommitPessimistic` the try of a cell write inside
the merge.  `rollback` (the steps of old values of a lock) and the changed cells
of a whole lock are shared by all versions, as the `shared_ptr` of the code are:
a try that fails does not take back what it put there.

### ValueCache

A cache is named by the cube and the number of the write that made its object,
so that old versions keep theirs.  `Begin`, `Hit`, `Miss`, `Fail` are the
evaluation by `Planner`, `Fetch` and `Store` the two halves of the destructor of
`QueryCache` around the merge outside of the mutex, `Write` the commit and
`Invalidate` one turn of the loop of `Server::invalidateCache`.  An answer is
what it was computed from: the number of the write of each cube it read.

### Recovery

`CreateElement`, `DestroyElement`, `ClearDimension` and `ReplaceCell` commit
and append to the journal of the database or of the cube.  `RequestSave` takes
the version, `BeginSave` the save lock; `SaveDatabase` and `SaveCube` have one
step for each effect on the disk (temporary file, archive of the journal,
removal, rename), in the orders of the two functions; `AutoSave` is the timer.
`CopyToUnload`, `SaveToUnload` and `CommitUnload` are the job `cube/unload`: it
saves the cube of its own copy (`CubeSaved`, as `SaveCube`) beside any save, apart
from it only by the lock of the file, then commits its empty storage, which
conflicts when the pages were changed since.  While the cube is not loaded no cell is
written and the removal of elements does not reach it; `LoadCube` reads the
file and the cube's own journal.
`Crash` comes between any two steps, also of a `Load`.  `Load` is
`loadDatabase` with the mending of temporary files and
`processJournalsChronologically`.

### Supervision

`GetServerCopy`, `LockWriters`, `SetCellValue`, `Commit` are the two tries of
`cell/replace`.  For a cell in an area of the worker the change is `FindRunning`
or `StartWorker` (`CubeWorker::start`, which looks under the mutex and lets go of
it), `Execute` (the mutex again, which may find that a restart has failed in
between, Context of the session, the line), then `ReadResult` or `Restart`, and
`ResetFailures`, which is done after the mutex is released.  A start tells the
process its session and asks it for its areas: it may die at either
(`DiesAtAreas` counts a failure), once in a start.  A start is one step; that
another job or a late request falls between its two questions is left out, as
are areas that are refused.  The process (`Send`, `Answer`, `Crash`) is outside of this
repository; it begins an event, writes some cells and ends the event, or
answers at once, may refuse, does the same when it is asked again, and gives
up when it is refused.  `Bind` is `PaloSession::findSession`, which
makes the thread use the Context the worker's session names, and `Serve` the
job of the request with `Context::reset` at its end.  A request of a dead
process is late: it is served with the Context of whatever job waits then.
When the Context is gone the model sets `undefined` and stops.  Cells are
counters of the writes, so that an event that is done in part or twice shows.

### StorageFragments

`StorageCpuCommitWorker::start` (the caller: cut a bulk, give it to the pool if
a core is free, else merge it inline), `operator()`, `mergeSegment`,
`storeSegment` with the two maps of fragments that begin and end at a bulk, and
`mergeParts`, one action for each piece between two takings of the mutex.
A fragment is the range of bulks it claims to have and the sequence it has.
Whether a worker finds a core is left open, so every schedule is in the model.

### ThreadPool

Threads loop through `Start`, `Wake` (the semaphore), `TakeJob`, the job,
`Finish` (`TGReleaser`).  A job is a request of a connection or a worker that a
request added.  Requests are modelled as far as they use the pool: they create a
group (`CreateThreadGroup`, after `HasFreeCore`), offer it jobs (`Offer`,
`AddJob`, `Release`), the workers divide themselves (`Divide`), the request joins
(`StartJoin`, `AwaitJobs`, `WakeJoin`, `EndJoin`).  `Accept` to `AwaitThreads`
are the loop of `MTPaloHttpInterface::run` and the shutdown down to
`ThreadPool::destroy`.  A request that writes waits for `writerslock` twice on
its thread (`AskForWriters`): for its copy of the server (`GetServerCopy`) and for
the merge (`LockWriters` to `UnlockWriters`), inside of which a pessimistic try
uses the pool; the optimistic one uses it between the two.  Each write has one
try here; `ServerCommit` has the repeated ones.  `addJob` and `Semaphore::release` are two steps, as they
are in the code.  `freeThreads` is read without the mutex; the question
`freeThreads - 1 > ...` of a worker is of unsigned numbers (`SizeModulus`): with
no free thread it is answered with yes, and the worker divides itself anyway.
Priorities are left out: every call of `addJob` has priority 0, `hptasks` is
never filled.

## 3. Runs

Passing runs:

| Run | Instance | Shows |
|---|---|---|
| `commit` | a structure job, two cell jobs, a destroy job; two dimensions, one storage; 5 and 2 tries; tokens modulo 7 that wrap; under fairness | no lost update, atomic versions, no spurious retry, pessimistic cell writes succeed, tokens identify versions also across the wrap, published trees are never taken back, every request ends, all of it implements `AtomicServer` |
| `elements` | three jobs, each any of seven kinds of requests, on a dimension of two elements; or moves, one by one or in bulk, against renames of the dimension | parts in step, free slots free, readers undisturbed except by bulk moves, implements `ElementOrder` |
| `hierarchy` | three jobs, each any request, with saves and restarts, on four elements, weights 1 and 2 | parents and children mirror each other without a cycle, derived data is that of a computation from nothing, flags of string consolidations follow, string values are kept, the journal leads a start to the same hierarchy |
| `catalog` | three jobs, each any request on dimensions and cubes, renames to the own name among them | unique names, system objects in step, cubes keep their dimensions, implements `Catalogue` |
| `locks` | five requests of three users on two cells, in nine combinations | no lock is lost or comes back, the rollback storage leads back to the cells at the time of the lock |
| `cache` | two readers, a writer, a chain of three cubes of which two have a rule, two areas | where stale values can stay, and that the written cube's own part of an answer is never one |
| `recovery` | two names, identifiers 0 and 1, four commits, two saves or unloads, two crashes | what was committed is found after a restart, a cube that is not `CHANGED` is in its file, and `cube/load` brings back what was unloaded |
| `supervision` | two supervised writes, events of two cells, three crashes, one late request; under fairness | events are whole, requests are served with the Context of the job that waits, every job ends |
| `fragments` | five bulks, any schedule, failures; under fairness | nothing lost, nothing left to merge, whole result, the commit ends |
| `pool` | two threads, one processor, two connections, up to two jobs each, three requests in all, each a read or a write; under fairness | a job for every wakeup, no more requests that wait for their jobs than processors, groups outlive jobs, one request per connection; every request served and the shutdown ends, unless the pool is in `Overrun` |

Runs that TLC must find violated, each with a finding:

| Run | Property | What the code does |
|---|---|---|
| `hierarchy_weights` | `AppendKeepsInfo` | `removeBaseElements` forgets the weights on its way up: after an append that gives a child another weight below a factor other than 1 the ancestors count base elements with wrong weights |
| `supervision_retry` | `CallerCommits` | a supervised write that conflicted is asked again inside of the merge, and what the worker writes for it is dropped without an error |

### Known weaknesses

The models contain the following, which break what one would like to say; the
properties of the passing runs name them as exceptions, or the requests that
reach them are left out of the instance.  They come from reading the code; most
were seen in a trace of TLC.

Commits and elements:
- The pessimistic try of `element/destroy` takes the database list of the latest
  tree but the engines of its own copy (`Context.cpp:308`): a concurrent write
  to any engine makes it fail, which by its design cannot happen.
- `dimension/rename` against `element/create` publishes the maps of the old copy
  with the new element list (`Dimension.cpp:3001`).  No combination of `elements`
  has both.
- `element/move_bulk` writes the shared `posIndex`, also when a position is
  refused half way (`Dimension.cpp:939`): `OthersLeaveReaders` is about the others.

Hierarchy:
- The weights of `hierarchy_weights` (`ChangedBelowWeight` in `InfoFollows`).
- A consolidation that became a string element keeps its base elements
  (`Dimension.cpp:2428`, `StaleString`); a later append to it fails, or the load
  of the database does (`replayed.failed`).
- `element/replace_bulk` with an empty list leaves a consolidation without
  children (`ElementReplaceBulkJob.h:197`, `Childless`), which `element/replace`
  makes numeric.
- Replaying a replacement computes the elements info while the consolidation has
  no children; it then counts as a base element of its ancestors
  (`Database.cpp:535`, `Database.cpp:619`).  `InfoFollows` asks for exact data
  before.
- Destroying a string consolidation leaves the flags of its parents
  (`Dimension.cpp:2108`), and a change between `STRING` and string consolidation
  turns the flags of the ancestors off and on and deletes their string values
  (`Dimension.cpp:2075`).

Catalogue:
- Two user information dimensions of one name are both committed
  (`UserInfoDimension.cpp:47`): they have no element in a meta dimension.
  `InfoNamesApart` says which requests are meant, and `NamesUnique` and
  `SystemObjectsInStep` are about the others; so are the requests of `MCCatalog`.
- A rename to the name the object had when the job looked is acknowledged, and
  has no effect when another job renamed the object meanwhile (`Database.cpp:1404`,
  `RenamedOtherwise` of `Catalogue`).
- A user information cube keeps a dimension that is destroyed
  (`Database.cpp:1366`): `CubesKeepDimensions` is about normal cubes.

Locks:
- A write that began before the lock is committed under it, and its old value is
  not in the rollback storage (`Cube.cpp:3592`, `unrecorded`).
- Two users lock overlapping areas at the same time: the merge adds both
  (`Cube.cpp:3614`).
- `hasLock` can be false with a lock in the list, so that the lock binds nobody;
  `wholeCubeLocked` comes back with a job that began under the lock
  (`Cube.cpp:3908`, `Cube.cpp:3830`).
- A rollback whose commit failed finds no steps in its next try and restores
  nothing (`RollbackStorage.cpp:113`, `Undoing`).
- A write whose copy is older than a rollback of the lock records, as the old
  value, what the rollback undid (`Cube.cpp:2415`, `Outdated` in `unrecorded`).
- `Lock::overlaps` compares the area with itself (`Lock.cpp:176`): any second lock
  of an area is refused.

Caches:
- A write that overtakes a reader leaves a stale value in the new object's cache
  when the reader stores after the invalidation (`late`).
- The value of a cube with a rule that came from a cache brings no sources with
  it (`Context.cpp:435`, `chained`): `Server::invalidateCache` then takes a cube
  for independent (`Server.cpp:175`) that is not, without any concurrency.
- Outside of the model: `isDepending` reads the set of sources without the mutex
  (`Cache.cpp:461`), and `element/rename` invalidates before its commit
  (`ElementRenameJob.h:94`).

Files:
- A crash between the archive of the journal and the file that replaces the old
  one loses the journal's entries (`Database.cpp:1034`, `history.lost`).
- `dimension/clear` and `element/destroy` remove cells without an entry in the
  cube's journal (`Dimension.cpp:751`): when only one of the two files is saved
  after it, old cells return under new elements (`SameSideOfRemovals`).
- An addition that is in the file is added again when the crash comes between the
  file and the removal of its journal (`Cube.cpp:2356`, `AddedOnce`).
- `cube/save` takes its version before it waits for the save lock
  (`CubeSaveJob.h:77`): an older cube overwrites the file of a newer one, whose
  journal is gone (`history.lost`).
- `cube/unload` saves without that lock (`Cube.cpp:1331`): it can overwrite the
  file of a save that ends first, and when it tries again the cube is `LOADED`
  and not saved; what was written since its copy is in an archived journal until
  its next try (`history.lost`).
- Journal entries of a cube that a start passes over stay in the journal;
  `cube/load` reads them again, when their identifiers may have new elements
  (`Cube.cpp:915`, `FilesInStep`).  Cells of an element that is destroyed while
  the cube is not loaded stay in the file (`Cube.cpp:3297`) and are those of an
  element that gets its identifier after a restart.
- Outside of the model: an `element/destroy` that copies a cube before it is
  unloaded, commits after that, and has no cell to remove.  The merge keeps its
  `CHANGED` with the empty storage (`Cube.cpp:3893`), so the next save empties
  the file.  `dimension/clear` makes a cube that is not loaded count as loaded
  without its rules (`Dimension.cpp:752`).
- Outside of the model: a commit that flushes several journals (`Server.cpp:1586`),
  files of removed cubes (`Server.cpp:1587`), the rules file (`Cube.cpp:1274`), the
  files a failed `cube/create` deletes (`CubeCreateJob.h:133`).

Supervision:
- A process that dies after `event/end` and before its answer is asked again, and
  the event is written twice (`again` in `EventsAreWhole`).
- A late request works on the Context of whatever job waits: it can leave the
  tree blocking, or take the mark of a worker from a Context in use, or use one
  that is gone (`late`; `undefined`).
- At the last failure `restart` throws and the session keeps the Context of a job
  that ends (`Worker.cpp:613`).
- The timeout of `terminate` has no effect: `poll` that ends without an event is
  repeated (`Worker.cpp:726`, `Worker.cpp:895`), and questions have no timeout at
  all.  A process that never answers holds its job, the worker's mutex and in the
  second try the writers' mutex for ever.
- `svs/restart` while a job still holds the old worker ends its session, and the
  job's next question fails.  It is not in the model.

Thread pool and engine:
- The pool can stand still (`Overrun`).  The pessimistic try of a write merges
  with `writerslock` held, offers jobs to the pool there and joins them
  (`Server.cpp:1487`, `Context.cpp:292`, `StorageCpu.cpp:988`).  Other writes wait
  for `writerslock` on threads of the pool (`Server.cpp:335`).  `hasFreeCore` was
  true, but the interface can fill the other threads with such writes before
  the offered job is taken: the holder waits for the job, the job for a thread,
  the threads for the holder.  It takes as many writes at one time as there are
  threads.  The run shows that the pool stops in no other way.
- The exception of an inline worker leaves `start` and with it the maps and the
  group the other workers write to (`StorageCpu.cpp:991`): `ResultWhole` speaks of
  commits that return.
- A group is joined twice when a worker of an aggregation fails
  (`EngineCpuMT.cpp:263`): `ThreadPool` has that step (`JoinAgain`); what follows
  is undefined and the model stops there.

### Bounds

Three jobs are enough for the interesting commits: one that copied early and
two that commit before it, or a job that fails against one and succeeds after
the other.  Two tries per job show the optimistic and the pessimistic try, and
giving up; `commit` has the code's 5 and 2, so that the last try is reached only by
real conflicts.  Five bulks let three fragments be in the hands of workers at one
time with neighbours on both sides.  Two threads with one processor are the
smallest pool in which a request waits for a job on another thread and a worker
divides itself, and two connections are enough for their requests to take all
threads, which `Overrun` needs; the third request waits in the queue behind
them.  The code starts 16 threads, or two per processor if that is
more (`ThreadPool.cpp:44`), of which `PoolAssumption` keeps
`processorCount < threads`.  The invariants of `pool` are proved for any number of
threads and connections; its two liveness properties are checked for this one.  Tokens wrap at 7 instead of 2^32.

`hierarchy`: four elements allow a chain of four and a diamond, the two shapes in
which updates in place go wrong; `MaxList` 2 children in a request, weights 1 and
2 (one that a product shows), three jobs on four numeric elements, on three and a
string element, or on two with two to be created; saves and restarts are possible
between them.  The bulk requests have one or two elements and lists of one child.  The
order of the children is left out; the order of parents is kept, since the
indent depends on it.

`locks`: a lock, two writes and a rollback need four requests, the fifth
interferes.  Which requests are combined is listed in `MCCubeLock`, each
combination under every interleaving.  `cache`: a chain of two rules is what it takes
for a value to come from a cache of a cube with a rule; two readers let one store
what the other has fetched.  `recovery`: an element, its cell, its removal and
its successor of the same identifier are four commits, and so are an element, its
cell, an unload and a load; two saves let a file be older than another's journal, or
one save run beside an unload, two crashes let a load be interrupted.
`supervision`: three crashes are one of the process, one while it is started
again and one while the next job starts the worker; `maxFailures` 2 instead of
5, so that the last failure is reached.  An event of two cells can be half done.

All models are finite because jobs, tries and requests (`MaxRequests`,
`MaxJobs`, `MaxCommits`, `MaxSaves`, `MaxCrashes`, `MaxLate`) are.  Symmetry is
used in runs without liveness only.

### Fairness

`commit`: a job goes on (`WF` of `Progress`); no fairness on `Throw`.
`Merge` is one step, so this takes for granted that whoever holds `writerslock`
comes to release it.  The holder may join jobs of the pool or ask a worker in its
merge; that these waits end is the question of `pool`, with the exception it
names, and of `supervision`, under its assumption on the process.  A mutex that
is free again and again is given to a job of finitely many.  `fragments`: the caller and each worker
go on.  `pool`: every thread goes on, also out of a semaphore whose permits
last, and gets `writerslock` once nobody has it, which with finitely many
requests asks no more of the mutex than that it does not stay free while a
thread waits.  A thread that waits for `writerslock` or in `join` has no step
until the mutex is free or the jobs are done, so the fairness does not help it
out of there.  Nothing is assumed about clients or about the shutdown being asked for.
`supervision`: jobs and the threads that serve requests go on, and the script of
the process comes to an answer or dies; the server has no timeout that would
replace that assumption.  No crash and no late request is ever forced.

Deadlock is checked wherever the cfg does not say otherwise; `Idle` is a stutter
of the finished states only, so a run that stops before is reported.  The check is off
where requests run out: `locks`, `cache`, `recovery`, `hierarchy`, `supervision`, and in
`pool`, where a pool that stops other than in `Overrun` breaks `EveryRequestServed`
or `ShutdownEnds`.

## 4. Proofs

TLAPS proves the following for every value of the constants that the `ASSUME`s
of the modules allow: any number of jobs, users, readers, cubes, dimensions,
tries, bulks or threads.  The assumptions are those the code justifies
(`NoJob` is no job, a loaded database is consistent, requests are of the types
the jobs take).  The theorems of three modules have a hypothesis on the requests or on the
number of tries, named below.

None of the invariants is inductive as the run states it.  For each the proofs
have a strengthening, which TLC checked before it was proved.

*ServerCommit* (`ServerCommitProofs`).  `NoLostUpdateCorrect`,
`AtomicVersionsCorrect`, `ReadYourWritesCorrect` and
`RetryMeansProgressCorrect` rest on `PublishedTrees` (the pointer a merge
compares identifies content, trees are published in order, a job's copy is a
published tree) and `Changes` (where the change of a job can be);
`NoConflictLatest` and `MergedContent` say what a merge without conflict yields.
`NeverBackCorrect` is the action property about the two assignments of a
publication.  `PessimisticCellSucceedsCorrect` supposes
`COMMIT_REPEATS_CELL_REPLACE > 1` (`Commitable.h:107` has 2): `CellTries` says
that a cell write fails once at most.  `TokensIdentifyVersionsCorrect`, for
every modulus, needs to know how far apart the tokens of two versions are
(`TokensCountCommits`): the structure token skips 0 on its way round, the data
token does not.  `ImplementsAtomicServerCorrect` maps every step to a step of
`AtomicServer` or to none: a request is carried out when `readersserver` is
assigned.

*DimensionElements* (`DimensionElementsProofs`).  `FreeSlotsAreFreeCorrect`,
`InStepAtRestCorrect` and `OthersLeaveReadersCorrect` rest on `Inv`.  Its core is
that pointers never come back (`HeapInv`, `Given`): what a job allocates in a try
is named by the job and the try, so that a merge which finds the element list it
copied finds everything that belongs to it (`ListInv`), and publishes a copy that
was built on the latest dimension, while a merge that took parts from two
versions would have found another pointer.  `SoundInv` says of every version and
copy what survives also while elements are moved in bulk: the vector lists the
slots in use, each once, `idsMap` leads to them, free slots are apart from them
below the size of the page, identifiers are below the holder's counter - although
page sizes and holders are counted up by jobs that fail.  `AlignInv` and `NamesInv`
add positions and names where they hold; `BulkInv` follows the one bulk move.
`ChangeKeepsInv`, `MergeKeepsInv`, `DestroyInMergeKeepsInv` have one lemma for each
kind of request below them.  The hypotheses say for which requests the code keeps
this: `MapsApart` and `NamesApart` exclude a rename of the dimension beside requests
that change the maps (it publishes the maps of its own copy,
`Dimension.cpp:3001`), `BulkApart` a bulk move beside anything but such renames,
and a second bulk move (they write the shared vector).  The requests of the run
`elements` satisfy them.

`ImplementsElementOrderCorrect` maps every step to a step of `ElementOrder` or to
none: a request is carried out on the ordered list when its copy is merged, or
refused.  `OrderInv` is what this needs beside `Inv`: a job's copy differs from the
version it was made from by what the request does to a list (`EffectInv`: one
entry appended with an unused name, renamed, moved by `InsertAt` after `RemoveAt`,
or the entries that `Sublist` leaves); the identifiers a job drew are given to
nobody else as long as the job may commit (`UsedInv`: a merge that succeeds finds
the holder that counted them); a name of the dimension is the loaded one or
comes from one rename (`NameInv`).  `CreateHasEffect`, `RenameHasEffect`,
`MoveHasEffect`, `DeletingHasEffect` and `ClearHasEffect` say that pages, maps and
vector, changed one by one, make that one change of the list; `MergeIsStep`
that it is then a change of the latest list, because the merge found the element
list the copy was made from.  `RenamesApart` is one more hypothesis, satisfied by
the requests of the run: no two renames of the dimension to one name, none to
the loaded name.  A job that renames the dimension to the name its copy already
has publishes nothing, and is acknowledged also when another name was published
meanwhile; it comes first in the serial order then, but the refinement places
each request at its merge.  When a bulk move is among the requests the property
claims the initial state only: that request is not atomic.

*Catalog* (`CatalogProofs`).  `CubesKeepDimensionsCorrect` needs that two trees
have the same object under an identifier (`ObjectsInv`) and that a job removes
no dimension a normal cube of its copy uses (`KeptInv`).  `NamesUniqueCorrect`
and `SystemObjectsInStepCorrect` need `CompanionsInv`: every tree in sight is
consistent by itself; an owner and its system cube are in a tree together or not
at all, so that the two merges, of the owner and of the cube that is found by
name, come out alike (`PairsInv`); the pointer of a meta dimension goes with one
set of owners (`PointerInv`, `FreshInv`), which is what turns a conflict of
element lists into protection of the lists that never conflict; and names of
user information, which no meta dimension protects, come from one request each
(`GivenInv`, `AcquiredInv`).  For the last the theorems suppose `InfoNamesApart` of the
requests; without it two dimensions do get one name (see the weaknesses).
`ImplementsCatalogueCorrect`, under the same hypothesis: a commit has the effect
of its request on the latest lists.  `SerialInv` says that a job's copy differs
from its origin by its request (`DidInv`), that the identifiers it added are
nowhere else (`IdsInv`), that what a copy has and the latest tree has not is gone
for ever (`GoneInv`), and that a name which differs was given by another job
(`RenamedInv`); `MergeWith`, `MergeWithout`, `MergeRename` say that merging lists
by identifier applies the difference.

*CubeLock* (`CubeLockProofs`).  `LocksHeldCorrect`: the list of a version has the
locks that committed jobs added and none removed; `LocksInv` says the same of
each copy relative to the version it was made from, and that identifiers of
locks name one lock.  `UndoRestoresAreaCorrect`: `RegularInv` (page numbers name
content, a write's copy differs from its origin in the cells it changed) and
`UndoInv` (the steps of a storage lead back from the latest cells, whatever
copies are under way, unless a rollback has taken some of them out and not
committed yet; then nobody else can have written the area).

*ValueCache* (`ValueCacheProofs`).  `OwnPartOfVersionCorrect` from `CacheInv`: an
entry belongs to the write that made its cache object, also while a reader
carries it from `Fetch` to `Store`.  `StaleOnlyByOverlapCorrect` from `OverlapInv`:
whoever holds a stale value was overtaken by a writer whose invalidation is to
come, or is in one of the two overlaps that the property names.

*Supervision* (`SupervisionProofs`).  `OwnContextCorrect` from `ControlInv`: the
mutex of the worker, the Context of its session, the job that waits and the
question the process works on name one job.  `EventsAreWholeCorrect` from
`EventInv`: what a job's tree has beyond the one it was copied from is what the
process has written in the event it is in.

*StorageFragments* (`StorageFragmentsProofs`).  `IInv` adds to the properties that each
fragment is the run of bulks it claims (`AllWhole`), that bulks are cut in order,
that only a worker that merged holds a fragment, and that failures are known to
the group.  With it a step of `Store` finds two neighbours or none; `OneFragment`
concludes that pairwise disjoint, untouching fragments that cover `0..Last` are
one.

*ThreadPool* (`ThreadPoolProofs`).  `ParentsWithinProcessors` is inductive only
together with `FreeThreadsExact` (what `hasFreeCore` reads is the number of idle
threads) and `RequestsApart` (a connection has one request: queued or on one
thread), which also gives `OneRequestEach`.  The argument is one of counting: a
request becomes a parent only when the idle threads, which are no parents, leave
room.  `TaskForEveryWakeupCorrect` counts permits and woken threads against the
queue (`WakeupsExact`); `GroupOutlivesJobsCorrect` counts the jobs of each group
in the queue and on the threads (`CountsExact`).

Each of these modules also proves its type invariant (`TypeCorrect`).

Only model-checked:
- liveness and `ENABLED`, which are out of tlapm's reach;
- `Hierarchy`, whose properties define paths and chains by recursion: induction
  over data is out of reach too;
- the invariants of `Recovery`, which compare the disk with what a replay of the
  journal computes: a fold over data, out of reach for the same reason;
- the remaining action properties of the runs.

## 5. Not modelled

Rights appear only as requests that may be refused; so do the dimension and
login workers.  Sessions and their expiry, markers and their commit protocol, the
area algebra and the copies of cells are not modelled.  Floating point
aggregation and splashing, the rule interpreter, the rule parser, subsets,
sockets and the HTTP protocol are left out for good: numeric, pure or generated.
In `ThreadPool`, requests that throw something other than an `ErrorException`
while their jobs run are left out, and the questions to a worker that the holder of
`writerslock` may have.  Commits that flush several journals are left
out of `Recovery`, and `svs/restart` of `Supervision`.

## 6. Plan

1. Sessions: `findSession` against `onJobStart` and `clearOldSessions`.
2. The area algebra against its definition on small areas; markers and their own
   commit protocol.
