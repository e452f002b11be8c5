---------------------------- MODULE ServerCommit ----------------------------
(***************************************************************************)
(* The commit protocol of the Palo server: Server::getInstance,            *)
(* Server::commit, Server::merge, Context::makeCubeChanges and the retry   *)
(* loops of the write jobs.                                                *)
(*                                                                         *)
(* The whole data of the server is one immutable tree of shared objects.   *)
(* A reader works on the tree readersserver points to.  A write job copies *)
(* the tree writersserver points to, replaces (checks out) the objects it  *)
(* changes, and merges its copy with the latest tree while it holds        *)
(* writerslock.  The merge of an object whose parts cannot be combined     *)
(* fails when both the job and another committer replaced it since the     *)
(* copy was made: the job starts again from the latest tree, at most       *)
(* Repeats times.  A cell write and the destruction of elements are tried  *)
(* optimistically once; their second try is pessimistic, the change itself *)
(* is made inside the merge.                                               *)
(*                                                                         *)
(* The tree is abstracted to its unmergeable leaves: the element lists of  *)
(* the dimensions and the page lists of the storages.  Published trees are *)
(* kept in `versions`, so a pointer to a tree is an index, and ptr[o] is   *)
(* the version that created the object o of a tree (its identity: two      *)
(* shared pointers are equal iff these are).  val[o] is the set of jobs    *)
(* whose change the object holds.                                          *)
(***************************************************************************)
EXTENDS Integers, Sequences, FiniteSets

CONSTANTS
  Dimension,                    \* dimensions: element list, id and name maps
  Storage,                      \* storages of the CPU engine: page lists
  StructureJob,                 \* element and dimension jobs, always optimistic
  CellJob,                      \* cell/replace and its like, CellValueContext
  DestroyJob,                   \* element/destroy, ElementsContext
  NoJob,                        \* nobody holds writerslock
  COMMIT_REPEATS,               \* tries of a structure job
  COMMIT_REPEATS_CELL_REPLACE,  \* tries of a cell or destroy job
  TokenModulus,                 \* tokens are unsigned integers of this range
  StartTokens                   \* the values rand() may give the first tokens

Job == StructureJob \union CellJob \union DestroyJob
Obj == Dimension \union Storage

ASSUME JobAssumption ==
  /\ NoJob \notin Job
  /\ StructureJob \intersect CellJob = {}
  /\ StructureJob \intersect DestroyJob = {}
  /\ CellJob \intersect DestroyJob = {}
ASSUME ObjAssumption == Dimension \intersect Storage = {}
ASSUME RepeatsAssumption ==
  /\ COMMIT_REPEATS \in Nat \ {0}
  /\ COMMIT_REPEATS_CELL_REPLACE \in Nat \ {0}
ASSUME TokenAssumption ==
  /\ TokenModulus \in Nat /\ TokenModulus > 1
  /\ StartTokens \subseteq 1 .. TokenModulus - 1

VARIABLES
  versions,       \* every tree published so far, the initial one first
  writersserver,  \* the latest tree, copied by writers
  readersserver,  \* the tree readers take
  writerslock,    \* the job inside commit, or NoJob
  pc,             \* where each job is
  commitTry,      \* commits of the job that failed so far
  old,            \* the tree the job's copy was made from
  checkedOut,     \* the leaves the job's copy replaces
  begun           \* auxiliary: the tree of the job's first copy

vars == <<versions, writersserver, readersserver, writerslock,
          pc, commitTry, old, checkedOut, begun>>
-----------------------------------------------------------------------------
PC == {"start", "working", "publishing", "done", "failed"}

Token == 0 .. TokenModulus - 1

Version == [ptr : [Obj -> Nat], val : [Obj -> SUBSET Job],
            token : Token, dataToken : Token]

(* What each kind of job may replace.                                      *)
Footprints(j) ==
  IF j \in CellJob THEN SUBSET Storage \ {{}}
  ELSE IF j \in DestroyJob
       THEN {W \in SUBSET Obj : W \intersect Dimension # {}}
       ELSE SUBSET Dimension \ {{}}

Repeats(j) ==
  IF j \in StructureJob THEN COMMIT_REPEATS ELSE COMMIT_REPEATS_CELL_REPLACE

(* Context::setPesimistic: the change is made inside the merge.            *)
Pessimistic(j) == j \notin StructureJob /\ commitTry[j] > 0

(* Mutant: the pessimistic cell write keeps the engines of its own copy.   *)
BaseOldEngines(j, o) ==
  IF Pessimistic(j) /\ o \in Dimension THEN writersserver ELSE old[j]

(* The tree an object of the job's copy was replaced from.  A pessimistic  *)
(* CellValueContext takes both the databases and the engines of the latest *)
(* tree, a pessimistic ElementsContext takes the databases only.           *)
Base(j, o) ==
  IF Pessimistic(j) /\ (j \in CellJob \/ o \in Dimension)
  THEN writersserver ELSE old[j]

(* Mutants: no conflict is noticed; only a conflict on everything counts.  *)
NoConflict(j) == FALSE

TotalConflict(j) ==
  \A o \in checkedOut[j] :
    versions[Base(j, o)].ptr[o] # versions[writersserver].ptr[o]

(* Dimension::merge, SlimVector::merge: replaced by me and by the latest.  *)
Conflict(j) ==
  \E o \in checkedOut[j] :
    versions[Base(j, o)].ptr[o] # versions[writersserver].ptr[o]

(* Mutant: the token is not advanced.                                     *)
SameToken(t) == t

NextToken(t) ==
  LET n == (t + 1) % TokenModulus IN IF n = 0 THEN 1 ELSE n

(* The tree Server::merge leaves in the job's copy: what the job replaced  *)
(* is the job's, everything else is taken from the latest tree.  A cell    *)
(* write leaves the structure token alone (doTokenUpdate).                 *)
Merged(j) ==
  LET latest == versions[writersserver] IN
  [ptr |-> [o \in Obj |-> IF o \in checkedOut[j]
                          THEN Len(versions) + 1 ELSE latest.ptr[o]],
   val |-> [o \in Obj |-> IF o \in checkedOut[j]
                          THEN versions[Base(j, o)].val[o] \union {j}
                          ELSE latest.val[o]],
   token |-> IF j \in CellJob THEN latest.token ELSE NextToken(latest.token),
   dataToken |-> (latest.dataToken + 1) % TokenModulus]
-----------------------------------------------------------------------------
Init ==
  /\ \E t, d \in StartTokens :
       versions = << [ptr |-> [o \in Obj |-> 1], val |-> [o \in Obj |-> {}],
                      token |-> t, dataToken |-> d] >>
  /\ writersserver = 1
  /\ readersserver = 1
  /\ writerslock = NoJob
  /\ pc = [j \in Job |-> "start"]
  /\ commitTry = [j \in Job |-> 0]
  /\ old = [j \in Job |-> 1]
  /\ checkedOut = [j \in Job |-> {}]
  /\ begun = [j \in Job |-> 1]

(* Mutant: the context was not cleared, the retry works on the old copy.   *)
GetStaleCopy(j) ==
  /\ pc[j] = "start"
  /\ writerslock = NoJob
  /\ IF commitTry[j] = 0
     THEN /\ \E W \in Footprints(j) :
               checkedOut' = [checkedOut EXCEPT ![j] = W]
          /\ old' = [old EXCEPT ![j] = writersserver]
          /\ begun' = [begun EXCEPT ![j] = writersserver]
     ELSE UNCHANGED <<checkedOut, old, begun>>
  /\ pc' = [pc EXCEPT ![j] = "working"]
  /\ UNCHANGED <<versions, writersserver, readersserver, writerslock, commitTry>>

(* getServerCopy and the changes the job makes on its copy.                *)
GetServerCopy(j) ==
  /\ pc[j] = "start"
  /\ writerslock = NoJob
  /\ \E W \in Footprints(j) : checkedOut' = [checkedOut EXCEPT ![j] = W]
  /\ old' = [old EXCEPT ![j] = writersserver]
  /\ begun' = IF commitTry[j] = 0 THEN [begun EXCEPT ![j] = writersserver]
                                  ELSE begun
  /\ pc' = [pc EXCEPT ![j] = "working"]
  /\ UNCHANGED <<versions, writersserver, readersserver, writerslock, commitTry>>

(* An ErrorException on the way to the merge or in it (name in use, token  *)
(* outdated, right missing, object not found): the copy is dropped.        *)
Throw(j) ==
  /\ pc[j] = "working"
  /\ pc' = [pc EXCEPT ![j] = "failed"]
  /\ UNCHANGED <<versions, writersserver, readersserver, writerslock,
                 commitTry, old, checkedOut, begun>>

(* Server::commit, the merge succeeds and writersserver is replaced.       *)
Merge(j) ==
  /\ pc[j] = "working"
  /\ writerslock = NoJob
  /\ ~Conflict(j)
  /\ versions' = Append(versions, Merged(j))
  /\ writersserver' = Len(versions) + 1
  /\ writerslock' = j
  /\ pc' = [pc EXCEPT ![j] = "publishing"]
  /\ UNCHANGED <<readersserver, commitTry, old, checkedOut, begun>>

(* Mutant: the readers get the tree the job started from.                  *)
PublishOld(j) ==
  /\ pc[j] = "publishing"
  /\ writerslock = j
  /\ readersserver' = old[j]
  /\ writerslock' = NoJob
  /\ pc' = [pc EXCEPT ![j] = "done"]
  /\ UNCHANGED <<versions, writersserver, commitTry, old, checkedOut, begun>>

(* Server::commit, the readers get the new tree and both locks are freed.  *)
Publish(j) ==
  /\ pc[j] = "publishing"
  /\ writerslock = j
  /\ readersserver' = writersserver
  /\ writerslock' = NoJob
  /\ pc' = [pc EXCEPT ![j] = "done"]
  /\ UNCHANGED <<versions, writersserver, commitTry, old, checkedOut, begun>>

(* Mutant: the same copy is merged again and again.                        *)
MergeAgain(j) ==
  /\ pc[j] = "working"
  /\ writerslock = NoJob
  /\ Conflict(j)
  /\ UNCHANGED vars

(* Server::commit returns false: the job clears its context and starts     *)
(* again, or gives up with a CommitException.                              *)
MergeFails(j) ==
  /\ pc[j] = "working"
  /\ writerslock = NoJob
  /\ Conflict(j)
  /\ commitTry' = [commitTry EXCEPT ![j] = @ + 1]
  /\ pc' = [pc EXCEPT ![j] = IF commitTry[j] + 1 < Repeats(j)
                             THEN "start" ELSE "failed"]
  /\ UNCHANGED <<versions, writersserver, readersserver, writerslock,
                 old, checkedOut, begun>>

Progress(j) ==
  GetServerCopy(j) \/ Merge(j) \/ Publish(j) \/ MergeFails(j)

Finished == \A j \in Job : pc[j] \in {"done", "failed"}

(* Every request was answered; the server waits for more.                  *)
Idle == Finished /\ UNCHANGED vars

Next == (\E j \in Job : Progress(j) \/ Throw(j)) \/ Idle

Spec == Init /\ [][Next]_vars

(* The thread of a job goes on unless it waits for writerslock, and the    *)
(* holder of writerslock waits for nobody.  Nothing makes a job throw.     *)
FairSpec == Spec /\ \A j \in Job : WF_vars(Progress(j))
-----------------------------------------------------------------------------
TypeOK ==
  /\ versions \in Seq(Version) /\ Len(versions) > 0
  /\ writersserver \in 1 .. Len(versions)
  /\ readersserver \in 1 .. Len(versions)
  /\ writerslock \in Job \union {NoJob}
  /\ pc \in [Job -> PC]
  /\ commitTry \in [Job -> Nat]
  /\ old \in [Job -> 1 .. Len(versions)]
  /\ checkedOut \in [Job -> SUBSET Obj]
  /\ begun \in [Job -> 1 .. Len(versions)]

Committed(j) == pc[j] \in {"publishing", "done"}

(* No lost update: the latest tree holds the change of every job that      *)
(* committed, on every object the job replaced, however many jobs with     *)
(* copies of older trees committed after it.                               *)
NoLostUpdate ==
  \A j \in Job : Committed(j) =>
    \A o \in checkedOut[j] : j \in versions[writersserver].val[o]

(* All or nothing: in no tree that was ever published does an object hold  *)
(* the change of a job that did not commit, and a published tree that      *)
(* holds a job's change on one object holds it on all it replaced.         *)
AtomicVersions ==
  \A i \in 1 .. Len(versions), j \in Job, o \in Obj :
    j \in versions[i].val[o] =>
      /\ Committed(j)
      /\ o \in checkedOut[j]
      /\ \A q \in checkedOut[j] : j \in versions[i].val[q]

(* When a write was answered, the next read of any client sees it.         *)
ReadYourWrites ==
  \A j \in Job : pc[j] = "done" =>
    \A o \in checkedOut[j] : j \in versions[readersserver].val[o]

(* No spurious conflicts: a job that had to start again n times saw at     *)
(* least n other commits since it began.                                   *)
RetryMeansProgress ==
  \A j \in Job : commitTry[j] <= writersserver - begun[j]

(* Pessimistic cell writes do not fail: "Than the change is guaranteed to  *)
(* succeed, but it blocks other writers" (Commitable.h:89-90).             *)
PessimisticCellSucceeds ==
  \A j \in CellJob : commitTry[j] < COMMIT_REPEATS_CELL_REPLACE

(* A client that keeps a pair of tokens and finds it unchanged may keep    *)
(* what it cached: as long as fewer commits than tokens happened, no two   *)
(* trees have both tokens in common, and trees with the same structure     *)
(* token hold the same dimensions.                                         *)
TokensIdentifyVersions ==
  Len(versions) < TokenModulus =>
    \A i, k \in 1 .. Len(versions) :
      versions[i].token = versions[k].token =>
        /\ \A d \in Dimension : versions[i].val[d] = versions[k].val[d]
        /\ versions[i].dataToken = versions[k].dataToken => i = k

(* Published trees never change, and neither writers nor readers are ever  *)
(* given an older tree than before.                                        *)
NeverBack ==
  [][/\ SubSeq(versions', 1, Len(versions)) = versions
     /\ writersserver' >= writersserver
     /\ readersserver' >= readersserver]_vars

(* Every request is answered: optimistic jobs do not retry for ever and    *)
(* nobody waits for ever for writerslock.                                  *)
EveryJobEnds == \A j \in Job : <>(pc[j] \in {"done", "failed"})

Outcome(j) ==
  CASE pc[j] = "publishing" -> "applied"
    [] pc[j] = "done" -> "answered"
    [] pc[j] = "failed" -> "refused"
    [] OTHER -> "pending"

(* The protocol implements a server that applies each request at once.     *)
Atomic == INSTANCE AtomicServer WITH
  latest <- versions[writersserver].val,
  visible <- versions[readersserver].val,
  outcome <- [j \in Job |-> Outcome(j)]

ImplementsAtomicServer == Atomic!Spec
=============================================================================
