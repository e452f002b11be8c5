------------------------ MODULE ServerCommitProofs --------------------------
(***************************************************************************)
(* Theorems about the commit protocol, for any number of jobs, dimensions  *)
(* and storages.                                                           *)
(***************************************************************************)
EXTENDS ServerCommit, TLAPS

(* The tree an object is based on was published.                           *)
LEMMA BaseType ==
  ASSUME TypeOK, NEW j \in Job, NEW o \in Obj
  PROVE  Base(j, o) \in 1 .. Len(versions)
BY DEF TypeOK, Base

(* The merge of well-formed trees is a well-formed tree.                   *)
LEMMA MergedType ==
  ASSUME TypeOK, NEW j \in Job
  PROVE  Merged(j) \in Version
<1> DEFINE latest == versions[writersserver]
<1>1. latest \in Version
  BY DEF TypeOK
<1>2. Len(versions) \in Nat
  BY DEF TypeOK
<1>3. ASSUME NEW o \in Obj
      PROVE  versions[Base(j, o)].val[o] \union {j} \in SUBSET Job
  <2>1. versions[Base(j, o)] \in Version
    BY BaseType DEF TypeOK
  <2> QED
    BY <2>1 DEF Version
<1>4. NextToken(latest.token) \in Token /\ latest.token \in Token
  BY <1>1, TokenAssumption DEF Version, NextToken, Token
<1>5. (latest.dataToken + 1) % TokenModulus \in Token
  BY <1>1, TokenAssumption DEF Version, Token
<1> QED
  BY <1>1, <1>2, <1>3, <1>4, <1>5 DEF Merged, Version

(* The state is well formed throughout.                                    *)
THEOREM TypeCorrect == Spec => []TypeOK
<1>1. Init => TypeOK
  <2> SUFFICES ASSUME Init PROVE TypeOK
    OBVIOUS
  <2>1. PICK t \in StartTokens, d \in StartTokens :
          versions = << [ptr |-> [o \in Obj |-> 1], val |-> [o \in Obj |-> {}],
                         token |-> t, dataToken |-> d] >>
    BY DEF Init
  <2>2. t \in Token /\ d \in Token
    BY TokenAssumption DEF Token
  <2>3. versions[1] \in Version
    BY <2>1, <2>2 DEF Version
  <2>4. versions \in Seq(Version) /\ Len(versions) = 1
    BY <2>1, <2>3
  <2> QED
    BY <2>4 DEF Init, TypeOK, PC
<1>2. TypeOK /\ [Next]_vars => TypeOK'
  <2> SUFFICES ASSUME TypeOK, [Next]_vars PROVE TypeOK'
    OBVIOUS
  <2> USE DEF TypeOK, PC
  <2>1. ASSUME NEW j \in Job, GetServerCopy(j) PROVE TypeOK'
    <3>1. \A W \in Footprints(j) : W \in SUBSET Obj
      BY DEF Footprints, Obj
    <3> QED
      BY <2>1, <3>1 DEF GetServerCopy
  <2>2. ASSUME NEW j \in Job, Throw(j) PROVE TypeOK'
    BY <2>2 DEF Throw
  <2>3. ASSUME NEW j \in Job, Merge(j) PROVE TypeOK'
    <3>1. versions' \in Seq(Version) /\ Len(versions') = Len(versions) + 1
      BY <2>3, MergedType DEF Merge
    <3>2. 1 .. Len(versions) \subseteq 1 .. Len(versions')
      BY <3>1
    <3> QED
      BY <2>3, <3>1, <3>2 DEF Merge
  <2>4. ASSUME NEW j \in Job, Publish(j) PROVE TypeOK'
    BY <2>4 DEF Publish
  <2>5. ASSUME NEW j \in Job, MergeFails(j) PROVE TypeOK'
    BY <2>5 DEF MergeFails
  <2>6. CASE UNCHANGED vars
    BY <2>6 DEF vars
  <2> QED
    BY <2>1, <2>2, <2>3, <2>4, <2>5, <2>6 DEF Next, Progress, Idle
<1> QED
  BY <1>1, <1>2, PTL DEF Spec
-----------------------------------------------------------------------------
(* The strengthening that makes the safety properties inductive: a leaf    *)
(* was created by the tree that holds it or by an earlier one, writerslock *)
(* is held exactly while its holder publishes, and a job's failed tries    *)
(* are covered by the commits between its first and its latest copy.       *)
PointersFromPast ==
  \A i \in 1 .. Len(versions), o \in Obj : versions[i].ptr[o] \in 1 .. i

LockHeldToPublish ==
  \A j \in Job : pc[j] = "publishing" <=> writerslock = j

RetriesCovered ==
  \A j \in Job :
    /\ pc[j] = "working" => commitTry[j] <= old[j] - begun[j]
    /\ commitTry[j] <= writersserver - begun[j]

(* The merge compares pointers and never contents.  That is sound because  *)
(* two published trees that share a pointer agree on the object.           *)
PointerIsContent ==
  \A i, k \in 1 .. Len(versions), o \in Obj :
    versions[i].ptr[o] = versions[k].ptr[o] =>
      versions[i].val[o] = versions[k].val[o]

(* Readers lag behind writers by the one commit inside writerslock.        *)
ReadersFollowWriters ==
  /\ writersserver = Len(versions)
  /\ readersserver = IF writerslock = NoJob
                     THEN writersserver ELSE writersserver - 1

PublishedTrees ==
  /\ ReadersFollowWriters
  /\ LockHeldToPublish
  /\ PointersFromPast
  /\ PointerIsContent

(* Where there is no conflict, what the job started from on a leaf it      *)
(* replaced is what the latest tree holds there.                           *)
LEMMA NoConflictLatest ==
  ASSUME TypeOK, PointerIsContent, NEW j \in Job, ~Conflict(j),
         NEW o \in checkedOut[j]
  PROVE  versions[Base(j, o)].val[o] = versions[writersserver].val[o]
<1>1. o \in Obj
  BY DEF TypeOK
<1>2. versions[Base(j, o)].ptr[o] = versions[writersserver].ptr[o]
  BY DEF Conflict
<1>3. Base(j, o) \in 1 .. Len(versions) /\ writersserver \in 1 .. Len(versions)
  BY <1>1, BaseType DEF TypeOK
<1> QED
  BY <1>1, <1>2, <1>3 DEF PointerIsContent

(* So the merged tree is the latest one with the job's change added to the *)
(* leaves it replaced, and with nothing taken away.                        *)
LEMMA MergedContent ==
  ASSUME TypeOK, PointerIsContent, NEW j \in Job, ~Conflict(j)
  PROVE  Merged(j).val = [o \in Obj |->
           IF o \in checkedOut[j]
           THEN versions[writersserver].val[o] \union {j}
           ELSE versions[writersserver].val[o]]
BY NoConflictLatest DEF Merged

(* What an Append leaves where it was.                                     *)
LEMMA MergeVersions ==
  ASSUME TypeOK, NEW j \in Job, Merge(j)
  PROVE  /\ Len(versions') = Len(versions) + 1
         /\ \A i \in 1 .. Len(versions) : versions'[i] = versions[i]
         /\ versions'[Len(versions) + 1] = Merged(j)
         /\ Len(versions) \in Nat \ {0}
BY MergedType DEF Merge, TypeOK

LEMMA PublishedTreesStep ==
  ASSUME TypeOK, PublishedTrees, [Next]_vars
  PROVE  PublishedTrees'
<1> USE DEF PublishedTrees
<1>1. ASSUME NEW j \in Job, Merge(j) PROVE PublishedTrees'
  <2> DEFINE n == Len(versions)
  <2>1. /\ Len(versions') = n + 1
        /\ \A i \in 1 .. n : versions'[i] = versions[i]
        /\ versions'[n + 1] = Merged(j)
        /\ n \in Nat \ {0}
    BY <1>1, MergeVersions
  <2>2. writersserver = n /\ writersserver' = n + 1
    BY <1>1 DEF Merge, ReadersFollowWriters
  <2>3. ReadersFollowWriters'
    BY <1>1, <2>1, <2>2, JobAssumption DEF Merge, ReadersFollowWriters
  <2>4. LockHeldToPublish'
    BY <1>1, JobAssumption DEF Merge, LockHeldToPublish, TypeOK
  <2>5. \A o \in Obj : Merged(j).ptr[o] \in 1 .. n + 1
    BY <2>1, <2>2 DEF Merged, PointersFromPast
  <2>6. PointersFromPast'
    BY <2>1, <2>5 DEF PointersFromPast
  <2>7. ASSUME NEW i \in 1 .. n, NEW o \in Obj,
               Merged(j).ptr[o] = versions[i].ptr[o]
        PROVE  Merged(j).val[o] = versions[i].val[o]
    <3>1. versions[i].ptr[o] # n + 1
      BY <2>1 DEF PointersFromPast
    <3>2. o \notin checkedOut[j]
      BY <2>7, <3>1, <2>1 DEF Merged
    <3>3. versions[n].ptr[o] = versions[i].ptr[o]
      BY <2>7, <3>2, <2>2 DEF Merged
    <3>4. versions[n].val[o] = versions[i].val[o]
      BY <3>3, <2>1 DEF PointerIsContent
    <3> QED
      BY <3>2, <3>4, <2>2 DEF Merged
  <2>8. PointerIsContent'
    BY <2>1, <2>7 DEF PointerIsContent
  <2> QED
    BY <2>3, <2>4, <2>6, <2>8
<1>2. ASSUME NEW j \in Job, Publish(j) PROVE PublishedTrees'
  <2>1. ReadersFollowWriters' /\ LockHeldToPublish'
    BY <1>2, JobAssumption
    DEF Publish, ReadersFollowWriters, LockHeldToPublish, TypeOK
  <2>2. PointersFromPast' /\ PointerIsContent'
    BY <1>2 DEF Publish, PointersFromPast, PointerIsContent
  <2> QED
    BY <2>1, <2>2
<1>3. ASSUME NEW j \in Job, GetServerCopy(j) \/ Throw(j) \/ MergeFails(j)
      PROVE  PublishedTrees'
  <2>1. UNCHANGED <<versions, writersserver, readersserver, writerslock>>
    BY <1>3 DEF GetServerCopy, Throw, MergeFails
  <2>2. pc'[j] # "publishing" /\ pc[j] # "publishing"
        /\ \A k \in Job \ {j} : pc'[k] = pc[k]
    BY <1>3 DEF GetServerCopy, Throw, MergeFails, TypeOK
  <2>3. LockHeldToPublish'
    BY <2>1, <2>2 DEF LockHeldToPublish
  <2> QED
    BY <2>1, <2>3 DEF ReadersFollowWriters, PointersFromPast, PointerIsContent
<1>4. CASE UNCHANGED vars
  BY <1>4 DEF vars, ReadersFollowWriters, LockHeldToPublish, PointersFromPast,
              PointerIsContent
<1> QED
  BY <1>1, <1>2, <1>3, <1>4 DEF Next, Progress, Idle
LEMMA InitFacts ==
  ASSUME Init
  PROVE  /\ 1 .. Len(versions) = {1} /\ Len(versions) = 1
         /\ writersserver = 1 /\ readersserver = 1
         /\ writerslock = NoJob
         /\ \A o \in Obj : versions[1].ptr[o] = 1 /\ versions[1].val[o] = {}
         /\ \A j \in Job : pc[j] = "start" /\ commitTry[j] = 0 /\ begun[j] = 1
<1>1. PICK t \in StartTokens, d \in StartTokens :
        versions = << [ptr |-> [o \in Obj |-> 1], val |-> [o \in Obj |-> {}],
                       token |-> t, dataToken |-> d] >>
  BY DEF Init
<1> QED
  BY <1>1 DEF Init

(* Sharing is sound and readers are at most the commit in progress behind: *)
(* the merge may compare pointers.                                         *)
THEOREM PublishedTreesCorrect == Spec => []PublishedTrees
<1>1. ASSUME Init PROVE PublishedTrees
  <2>1. /\ 1 .. Len(versions) = {1} /\ Len(versions) = 1
        /\ writersserver = 1 /\ readersserver = 1
        /\ writerslock = NoJob
        /\ \A o \in Obj : versions[1].ptr[o] = 1 /\ versions[1].val[o] = {}
        /\ \A j \in Job : pc[j] = "start"
    BY <1>1, InitFacts
  <2> QED
    BY <2>1, JobAssumption
    DEF PublishedTrees, ReadersFollowWriters, LockHeldToPublish,
        PointersFromPast, PointerIsContent
<1>2. TypeOK /\ PublishedTrees /\ [Next]_vars => PublishedTrees'
  BY PublishedTreesStep
<1> QED
  BY <1>1, <1>2, TypeCorrect, PTL DEF Spec
-----------------------------------------------------------------------------
(* Which job changed what: a step of a job that is not its merge leaves    *)
(* the trees alone and commits nothing, and a job that committed keeps the *)
(* set of leaves it replaced.                                              *)
LEMMA OtherSteps ==
  ASSUME TypeOK, PublishedTrees, NEW j \in Job,
         GetServerCopy(j) \/ Throw(j) \/ MergeFails(j) \/ Publish(j)
  PROVE  /\ UNCHANGED <<versions, writersserver>>
         /\ \A k \in Job : Committed(k)' <=> Committed(k)
         /\ \A k \in Job : Committed(k) => checkedOut'[k] = checkedOut[k]
BY DEF GetServerCopy, Throw, MergeFails, Publish, Committed, TypeOK

Changes == NoLostUpdate /\ AtomicVersions /\ ReadYourWrites

LEMMA ChangesStep ==
  ASSUME TypeOK, PublishedTrees, Changes, [Next]_vars
  PROVE  Changes'
<1>1. ASSUME NEW j \in Job, Merge(j) PROVE Changes'
  <2> DEFINE n == Len(versions)
  <2>1. /\ Len(versions') = n + 1
        /\ \A i \in 1 .. n : versions'[i] = versions[i]
        /\ versions'[n + 1] = Merged(j)
        /\ n \in Nat \ {0}
    BY <1>1, MergeVersions
  <2>2. writersserver = n /\ writersserver' = n + 1
    BY <1>1 DEF Merge, PublishedTrees, ReadersFollowWriters
  <2>3. \A o \in Obj : Merged(j).val[o] =
          IF o \in checkedOut[j] THEN versions[n].val[o] \union {j}
                                 ELSE versions[n].val[o]
    BY <1>1, <2>2, MergedContent, ZenonT(40) DEF Merge, PublishedTrees
  <2>4. /\ checkedOut' = checkedOut /\ readersserver' = readersserver
        /\ ~Committed(j) /\ Committed(j)' /\ pc'[j] # "done"
        /\ \A k \in Job \ {j} : pc'[k] = pc[k]
    BY <1>1 DEF Merge, Committed, TypeOK
  <2>5. \A k \in Job \ {j} : Committed(k)' <=> Committed(k)
    BY <2>4 DEF Committed
  <2>6. \A k \in Job : checkedOut[k] \in SUBSET Obj
    BY DEF TypeOK
  <2>7. NoLostUpdate'
    <3> SUFFICES ASSUME NEW k \in Job, Committed(k)', NEW o \in checkedOut[k]
                 PROVE  k \in Merged(j).val[o]
      BY <2>1, <2>2, <2>4 DEF NoLostUpdate
    <3>1. CASE k = j
      BY <3>1, <2>3, <2>6
    <3>2. CASE k # j
      BY <3>2, <2>2, <2>3, <2>5, <2>6 DEF Changes, NoLostUpdate
    <3> QED
      BY <3>1, <3>2
  <2>8. ASSUME NEW k \in Job, NEW o \in Obj, k \in Merged(j).val[o]
        PROVE  /\ Committed(k)'
               /\ o \in checkedOut[k]
               /\ \A q \in checkedOut[k] : k \in Merged(j).val[q]
    <3>1. CASE k = j
      <4>1. k \notin versions[n].val[o]
        BY <3>1, <2>1, <2>4 DEF Changes, AtomicVersions
      <4> QED
        BY <3>1, <4>1, <2>3, <2>4, <2>6, <2>8
    <3>2. CASE k # j
      <4>1. k \in versions[n].val[o]
        BY <3>2, <2>3, <2>8
      <4>2. /\ Committed(k) /\ o \in checkedOut[k]
            /\ \A q \in checkedOut[k] : k \in versions[n].val[q]
        BY <4>1, <2>1 DEF Changes, AtomicVersions
      <4> QED
        BY <3>2, <4>2, <2>3, <2>5, <2>6
    <3> QED
      BY <3>1, <3>2
  <2>9. AtomicVersions'
    <3> SUFFICES ASSUME NEW i \in 1 .. n + 1, NEW k \in Job, NEW o \in Obj,
                        k \in versions'[i].val[o]
                 PROVE  /\ Committed(k)'
                        /\ o \in checkedOut[k]
                        /\ \A q \in checkedOut[k] : k \in versions'[i].val[q]
      BY <2>1, <2>4 DEF AtomicVersions
    <3>1. CASE i = n + 1
      BY <3>1, <2>1, <2>8
    <3>2. CASE i \in 1 .. n
      <4>1. /\ Committed(k) /\ o \in checkedOut[k]
            /\ \A q \in checkedOut[k] : k \in versions[i].val[q]
        BY <3>2, <2>1 DEF Changes, AtomicVersions
      <4> QED
        BY <3>2, <4>1, <2>1, <2>4, <2>5
    <3> QED
      BY <3>1, <3>2, <2>1
  <2>10. ReadYourWrites'
    <3>1. readersserver \in 1 .. n
      BY DEF TypeOK
    <3> QED
      BY <3>1, <2>1, <2>4 DEF Changes, ReadYourWrites
  <2> QED
    BY <2>7, <2>9, <2>10 DEF Changes
<1>2. ASSUME NEW j \in Job, Publish(j) PROVE Changes'
  <2>1. NoLostUpdate' /\ AtomicVersions'
    <3>1. /\ UNCHANGED <<versions, writersserver, checkedOut>>
          /\ \A k \in Job : Committed(k)' <=> Committed(k)
      BY <1>2, OtherSteps DEF Publish
    <3> QED
      BY <3>1 DEF Changes, NoLostUpdate, AtomicVersions
  <2>2. ReadYourWrites'
    BY <1>2 DEF Publish, Changes, NoLostUpdate, ReadYourWrites, Committed, TypeOK
  <2> QED
    BY <2>1, <2>2 DEF Changes
<1>3. ASSUME NEW j \in Job, GetServerCopy(j) \/ Throw(j) \/ MergeFails(j)
      PROVE  Changes'
  <2>1. /\ UNCHANGED <<versions, writersserver, readersserver>>
        /\ \A k \in Job : Committed(k)' <=> Committed(k)
        /\ \A k \in Job : Committed(k) => checkedOut'[k] = checkedOut[k]
    BY <1>3, OtherSteps DEF GetServerCopy, Throw, MergeFails
  <2>2. \A k \in Job : pc'[k] = "done" => pc[k] = "done"
    BY <1>3 DEF GetServerCopy, Throw, MergeFails, TypeOK
  <2>3. NoLostUpdate'
    BY <2>1 DEF Changes, NoLostUpdate
  <2>4. AtomicVersions'
    BY <2>1 DEF Changes, AtomicVersions
  <2>5. ReadYourWrites'
    BY <2>1, <2>2 DEF Changes, ReadYourWrites, Committed
  <2> QED
    BY <2>3, <2>4, <2>5 DEF Changes
<1>4. CASE UNCHANGED vars
  BY <1>4 DEF vars, Changes, NoLostUpdate, AtomicVersions, ReadYourWrites,
              Committed
<1> QED
  BY <1>1, <1>2, <1>3, <1>4 DEF Next, Progress, Idle

LEMMA ChangesCorrect == Spec => []Changes
<1>1. ASSUME Init PROVE Changes
  <2>1. /\ 1 .. Len(versions) = {1}
        /\ \A o \in Obj : versions[1].val[o] = {}
        /\ \A j \in Job : pc[j] = "start"
    BY <1>1, InitFacts
  <2> QED
    BY <2>1 DEF Changes, NoLostUpdate, AtomicVersions, ReadYourWrites, Committed
<1>2. TypeOK /\ PublishedTrees /\ Changes /\ [Next]_vars => Changes'
  BY ChangesStep
<1> QED
  BY <1>1, <1>2, TypeCorrect, PublishedTreesCorrect, PTL DEF Spec

(* No committed change is ever lost to a job with an older copy.           *)
THEOREM NoLostUpdateCorrect == Spec => []NoLostUpdate
BY ChangesCorrect, PTL DEF Changes

(* Every published tree holds whole commits and nothing else.              *)
THEOREM AtomicVersionsCorrect == Spec => []AtomicVersions
BY ChangesCorrect, PTL DEF Changes

(* The answer to a write is sent when readers see it.                      *)
THEOREM ReadYourWritesCorrect == Spec => []ReadYourWrites
BY ChangesCorrect, PTL DEF Changes
-----------------------------------------------------------------------------
(* A conflict needs a commit since the job's copy was made.                *)
LEMMA ConflictMeansCommit ==
  ASSUME TypeOK, PublishedTrees, NEW j \in Job, Conflict(j)
  PROVE  old[j] < writersserver
<1>1. PICK o \in checkedOut[j] :
        versions[Base(j, o)].ptr[o] # versions[writersserver].ptr[o]
  BY DEF Conflict
<1>2. Base(j, o) = old[j] /\ old[j] # writersserver
  BY <1>1 DEF Base
<1> QED
  BY <1>2 DEF TypeOK, PublishedTrees, ReadersFollowWriters

LEMMA RetriesStep ==
  ASSUME TypeOK, PublishedTrees, RetriesCovered, [Next]_vars
  PROVE  RetriesCovered'
<1> USE DEF RetriesCovered
<1>1. ASSUME NEW j \in Job, GetServerCopy(j) PROVE RetriesCovered'
  BY <1>1 DEF GetServerCopy, TypeOK
<1>2. ASSUME NEW j \in Job, Throw(j) PROVE RetriesCovered'
  BY <1>2 DEF Throw, TypeOK
<1>3. ASSUME NEW j \in Job, Merge(j) PROVE RetriesCovered'
  <2>1. writersserver' = writersserver + 1 /\ writersserver \in Nat
    BY <1>3 DEF Merge, PublishedTrees, ReadersFollowWriters, TypeOK
  <2>2. UNCHANGED <<commitTry, old, begun>>
    BY <1>3 DEF Merge
  <2>3. \A k \in Job : pc'[k] = "working" => pc[k] = "working"
    BY <1>3 DEF Merge, TypeOK
  <2> QED
    BY <2>1, <2>2, <2>3, SMTT(30) DEF TypeOK
<1>4. ASSUME NEW j \in Job, Publish(j) PROVE RetriesCovered'
  BY <1>4 DEF Publish, TypeOK
<1>5. ASSUME NEW j \in Job, MergeFails(j) PROVE RetriesCovered'
  <2>1. old[j] < writersserver
    BY <1>5, ConflictMeansCommit DEF MergeFails
  <2>2. commitTry[j] + 1 <= writersserver - begun[j]
    BY <1>5, <2>1 DEF MergeFails, TypeOK
  <2> QED
    BY <1>5, <2>2 DEF MergeFails, TypeOK
<1>6. CASE UNCHANGED vars
  BY <1>6 DEF vars
<1> QED
  BY <1>1, <1>2, <1>3, <1>4, <1>5, <1>6 DEF Next, Progress, Idle

(* A job starts again only because others committed.                       *)
THEOREM RetryMeansProgressCorrect == Spec => []RetryMeansProgress
<1>1. ASSUME Init PROVE RetriesCovered
  <2>1. /\ writersserver = 1
        /\ \A j \in Job : pc[j] = "start" /\ commitTry[j] = 0 /\ begun[j] = 1
    BY <1>1, InitFacts
  <2> QED
    BY <2>1 DEF RetriesCovered
<1>2. TypeOK /\ PublishedTrees /\ RetriesCovered /\ [Next]_vars
        => RetriesCovered'
  BY RetriesStep
<1>3. TypeOK /\ RetriesCovered => RetryMeansProgress
  BY DEF TypeOK, RetriesCovered, RetryMeansProgress
<1> QED
  BY <1>1, <1>2, <1>3, TypeCorrect, PublishedTreesCorrect, PTL DEF Spec
-----------------------------------------------------------------------------
(* A published tree stays what it is, and the pointers of writers and      *)
(* readers only move forward.                                              *)
THEOREM NeverBackCorrect == Spec => NeverBack
<1> DEFINE Forward ==
      /\ SubSeq(versions', 1, Len(versions)) = versions
      /\ writersserver' >= writersserver
      /\ readersserver' >= readersserver
<1>1. TypeOK /\ PublishedTrees /\ [Next]_vars => [Forward]_vars
  <2> SUFFICES ASSUME TypeOK, PublishedTrees, Next PROVE Forward
    BY DEF Forward
  <2>1. UNCHANGED versions => SubSeq(versions', 1, Len(versions)) = versions
    BY DEF TypeOK
  <2>2. ASSUME NEW j \in Job, Merge(j) PROVE Forward
    <3>1. SubSeq(versions', 1, Len(versions)) = versions
      BY <2>2, MergedType DEF Merge, TypeOK
    <3>2. writersserver' = writersserver + 1 /\ readersserver' = readersserver
      BY <2>2 DEF Merge, PublishedTrees, ReadersFollowWriters
    <3> QED
      BY <3>1, <3>2 DEF TypeOK
  <2>3. ASSUME NEW j \in Job, Publish(j) PROVE Forward
    <3>1. readersserver' = writersserver /\ UNCHANGED <<versions, writersserver>>
      BY <2>3 DEF Publish
    <3>2. readersserver <= writersserver
      BY DEF PublishedTrees, ReadersFollowWriters, TypeOK
    <3> QED
      BY <2>1, <3>1, <3>2 DEF TypeOK
  <2>4. ASSUME NEW j \in Job, GetServerCopy(j) \/ Throw(j) \/ MergeFails(j)
        PROVE  Forward
    BY <2>1, <2>4 DEF GetServerCopy, Throw, MergeFails, TypeOK
  <2>5. ASSUME Idle PROVE Forward
    BY <2>1, <2>5 DEF Idle, vars, TypeOK
  <2> QED
    BY <2>2, <2>3, <2>4, <2>5 DEF Next, Progress
<1> QED
  BY <1>1, TypeCorrect, PublishedTreesCorrect, PTL DEF Spec, NeverBack
-----------------------------------------------------------------------------
(* What one job's outcome becomes when only that job's pc changes.         *)
LEMMA OutcomeStep ==
  ASSUME TypeOK, NEW j \in Job, NEW p \in PC, pc' = [pc EXCEPT ![j] = p]
  PROVE  [k \in Job |-> Outcome(k)]'
           = [[k \in Job |-> Outcome(k)] EXCEPT ![j] =
                CASE p = "publishing" -> "applied"
                  [] p = "done" -> "answered"
                  [] p = "failed" -> "refused"
                  [] OTHER -> "pending"]
BY DEF Outcome, TypeOK

(* Each step of the protocol is a step of the server that applies every    *)
(* request at one instant, or does not concern it.                         *)
LEMMA AtomicStep ==
  ASSUME TypeOK, PublishedTrees, [Next]_vars
  PROVE  [Atomic!Next]_(Atomic!vars)
<1> DEFINE outcome == [k \in Job |-> Outcome(k)]
<1> DEFINE latest == versions[writersserver].val
<1> DEFINE visible == versions[readersserver].val
<1> USE DEF PC
<1>1. ASSUME NEW j \in Job, Merge(j) PROVE Atomic!Apply(j)
  <2>1. outcome[j] = "pending"
    BY <1>1 DEF Merge, Outcome
  <2>2. outcome' = [outcome EXCEPT ![j] = "applied"]
    BY <1>1, OutcomeStep DEF Merge
  <2>3. latest' = Merged(j).val
    BY <1>1, MergeVersions DEF Merge
  <2>4. Merged(j).val = [o \in Obj |-> IF o \in checkedOut[j]
                                       THEN latest[o] \union {j} ELSE latest[o]]
    BY <1>1, MergedContent DEF Merge, PublishedTrees
  <2>5. visible' = visible
    BY <1>1, MergeVersions DEF Merge, TypeOK
  <2>6. checkedOut[j] \in SUBSET Obj
    BY DEF TypeOK
  <2> QED
    BY <2>1, <2>2, <2>3, <2>4, <2>5, <2>6 DEF Atomic!Apply
<1>2. ASSUME NEW j \in Job, Publish(j) PROVE Atomic!Answer(j)
  <2>1. outcome[j] = "applied"
    BY <1>2 DEF Publish, Outcome
  <2>2. outcome' = [outcome EXCEPT ![j] = "answered"]
    BY <1>2, OutcomeStep DEF Publish
  <2>3. latest' = latest /\ visible' = latest
    BY <1>2 DEF Publish
  <2> QED
    BY <2>1, <2>2, <2>3 DEF Atomic!Answer
<1>3. ASSUME NEW j \in Job, GetServerCopy(j) \/ Throw(j) \/ MergeFails(j)
      PROVE  [Atomic!Next]_(Atomic!vars)
  <2>1. latest' = latest /\ visible' = visible
    BY <1>3 DEF GetServerCopy, Throw, MergeFails
  <2>2. outcome[j] = "pending"
    BY <1>3 DEF GetServerCopy, Throw, MergeFails, Outcome
  <2>3. PICK p \in {"start", "working", "failed"} : pc' = [pc EXCEPT ![j] = p]
    BY <1>3 DEF GetServerCopy, Throw, MergeFails
  <2>4. CASE p = "failed"
    <3>1. outcome' = [outcome EXCEPT ![j] = "refused"]
      BY <2>3, <2>4, OutcomeStep
    <3> QED
      BY <2>1, <2>2, <3>1 DEF Atomic!Next, Atomic!Refuse
  <2>5. CASE p # "failed"
    <3>1. outcome' = [outcome EXCEPT ![j] = "pending"]
      BY <2>3, <2>5, OutcomeStep
    <3>2. outcome' = outcome
      BY <2>2, <3>1
    <3> QED
      BY <2>1, <3>2 DEF Atomic!vars
  <2> QED
    BY <2>4, <2>5
<1>4. CASE UNCHANGED vars
  BY <1>4 DEF vars, Outcome, Atomic!vars
<1> QED
  BY <1>1, <1>2, <1>3, <1>4 DEF Next, Progress, Idle, Atomic!Next

(* The commit protocol implements the server of AtomicServer: between its  *)
(* request and its answer each write takes effect at one instant, on all   *)
(* its objects, or never.                                                  *)
THEOREM ImplementsAtomicServerCorrect == Spec => ImplementsAtomicServer
<1>1. Init => Atomic!Init
  <2> SUFFICES ASSUME Init PROVE Atomic!Init
    OBVIOUS
  <2>1. PICK t \in StartTokens, d \in StartTokens :
          versions = << [ptr |-> [o \in Obj |-> 1], val |-> [o \in Obj |-> {}],
                         token |-> t, dataToken |-> d] >>
    BY DEF Init
  <2>2. versions[writersserver].val = [o \in Obj |-> {}]
        /\ versions[readersserver].val = [o \in Obj |-> {}]
    BY <2>1 DEF Init
  <2>3. [j \in Job |-> Outcome(j)] = [j \in Job |-> "pending"]
    BY DEF Init, Outcome
  <2> QED
    BY <2>2, <2>3 DEF Atomic!Init
<1>2. TypeOK /\ PublishedTrees /\ [Next]_vars => [Atomic!Next]_(Atomic!vars)
  BY AtomicStep
<1> QED
  BY <1>1, <1>2, TypeCorrect, PublishedTreesCorrect, PTL
  DEF Spec, ImplementsAtomicServer, Atomic!Spec
-----------------------------------------------------------------------------
(* A second try of a cell write takes both what it changes and what it is  *)
(* compared with from the latest tree, so it cannot conflict.              *)
CellTries == \A j \in CellJob : commitTry[j] <= 1

LEMMA CellTriesStep ==
  ASSUME TypeOK, CellTries, [Next]_vars
  PROVE  CellTries'
<1> USE DEF CellTries
<1>1. ASSUME NEW j \in Job, MergeFails(j) PROVE CellTries'
  <2>1. \A k \in Job \ {j} : commitTry'[k] = commitTry[k]
    BY <1>1 DEF MergeFails, TypeOK
  <2>2. CASE j \in CellJob
    <3>1. PICK o \in checkedOut[j] : Base(j, o) # writersserver
      BY <1>1 DEF MergeFails, Conflict
    <3>2. ~Pessimistic(j)
      BY <2>2, <3>1 DEF Base
    <3>3. commitTry[j] = 0
      BY <2>2, <3>2, JobAssumption DEF Pessimistic, TypeOK
    <3>4. commitTry'[j] = 1
      BY <1>1, <3>3 DEF MergeFails, TypeOK
    <3> QED
      BY <2>1, <3>4 DEF Job
  <2>3. CASE j \notin CellJob
    BY <2>1, <2>3 DEF Job
  <2> QED
    BY <2>2, <2>3
<1>2. ASSUME NEW j \in Job,
             GetServerCopy(j) \/ Merge(j) \/ Publish(j) \/ Throw(j)
      PROVE  CellTries'
  BY <1>2 DEF GetServerCopy, Merge, Publish, Throw
<1>3. CASE UNCHANGED vars
  BY <1>3 DEF vars
<1> QED
  BY <1>1, <1>2, <1>3 DEF Next, Progress, Idle

(* A cell write is never refused for a conflict, as long as it has a       *)
(* second try: Commitable.h gives it two.                                  *)
THEOREM PessimisticCellSucceedsCorrect ==
  COMMIT_REPEATS_CELL_REPLACE > 1 => (Spec => []PessimisticCellSucceeds)
<1> SUFFICES ASSUME COMMIT_REPEATS_CELL_REPLACE > 1
             PROVE  Spec => []PessimisticCellSucceeds
  OBVIOUS
<1>1. Init => CellTries
  BY DEF Init, CellTries, Job
<1>2. TypeOK /\ CellTries /\ [Next]_vars => CellTries'
  BY CellTriesStep
<1>3. TypeOK /\ CellTries => PessimisticCellSucceeds
  BY RepeatsAssumption DEF CellTries, PessimisticCellSucceeds, TypeOK, Job
<1> QED
  BY <1>1, <1>2, <1>3, TypeCorrect, PTL DEF Spec
-----------------------------------------------------------------------------
(* Tokens go round: the structure token skips 0, the data token does not.  *)
TokenAfter(t, n) ==
  IF t + n < TokenModulus THEN t + n ELSE t + n - (TokenModulus - 1)

DataTokenAfter(d, n) ==
  IF d + n < TokenModulus THEN d + n ELSE d + n - TokenModulus

(* How far apart the tokens of two trees are that have m commits between   *)
(* them.  The data token counts every commit, the structure token n of     *)
(* them, and dimensions differ only when n is not 0.                       *)
TokensApart(v, w, m) ==
  /\ w.dataToken = DataTokenAfter(v.dataToken, m)
  /\ \E n \in 0 .. m :
       /\ w.token = TokenAfter(v.token, n)
       /\ n = 0 => \A d \in Dimension : w.val[d] = v.val[d]

TokensCountCommits ==
  Len(versions) < TokenModulus =>
    \A k \in 1 .. Len(versions) : \A i \in 1 .. k :
      TokensApart(versions[i], versions[k], k - i)

StructureTokensNotZero ==
  \A i \in 1 .. Len(versions) : versions[i].token \in 1 .. TokenModulus - 1

(* A cell write replaces no dimension.                                     *)
CellsInStorages == \A j \in CellJob : checkedOut[j] \subseteq Storage

TokensInv == StructureTokensNotZero /\ CellsInStorages /\ TokensCountCommits

LEMMA NextTokenAfter ==
  ASSUME NEW t \in 1 .. TokenModulus - 1
  PROVE  NextToken(t) = IF t + 1 < TokenModulus THEN t + 1 ELSE 1
<1>1. CASE t + 1 < TokenModulus
  <2>1. (t + 1) % TokenModulus = t + 1
    BY <1>1, TokenAssumption
  <2> QED
    BY <1>1, <2>1 DEF NextToken
<1>2. CASE ~(t + 1 < TokenModulus)
  <2>1. t + 1 = TokenModulus
    BY <1>2, TokenAssumption
  <2>2. TokenModulus % TokenModulus = 0
    BY TokenAssumption
  <2> QED
    BY <1>2, <2>1, <2>2 DEF NextToken
<1> QED
  BY <1>1, <1>2

LEMMA NextDataToken ==
  ASSUME NEW d \in Token
  PROVE  (d + 1) % TokenModulus = IF d + 1 < TokenModulus THEN d + 1 ELSE 0
<1>1. CASE d + 1 < TokenModulus
  BY <1>1, TokenAssumption DEF Token
<1>2. CASE ~(d + 1 < TokenModulus)
  <2>1. d + 1 = TokenModulus
    BY <1>2, TokenAssumption DEF Token
  <2>2. TokenModulus % TokenModulus = 0
    BY TokenAssumption
  <2> QED
    BY <1>2, <2>1, <2>2
<1> QED
  BY <1>1, <1>2

(* Within one round, tokens add up and come back to where they were only   *)
(* without a commit.                                                       *)
LEMMA TokenRound ==
  ASSUME NEW t \in 1 .. TokenModulus - 1, NEW n \in Nat, NEW m \in {0, 1},
         n + m < TokenModulus - 1
  PROVE  /\ TokenAfter(t, n) = t => n = 0
         /\ TokenAfter(TokenAfter(t, n), m) = TokenAfter(t, n + m)
BY TokenAssumption DEF TokenAfter

LEMMA DataTokenRound ==
  ASSUME NEW d \in Token, NEW n \in Nat, n < TokenModulus
  PROVE  /\ DataTokenAfter(d, n) = d => n = 0
         /\ n + 1 < TokenModulus =>
              DataTokenAfter(DataTokenAfter(d, n), 1) = DataTokenAfter(d, n + 1)
BY TokenAssumption DEF DataTokenAfter, Token

(* The tokens of a published tree.                                         *)
LEMMA TokenTypes ==
  ASSUME TypeOK, StructureTokensNotZero, NEW i \in 1 .. Len(versions)
  PROVE  /\ versions[i].token \in 1 .. TokenModulus - 1
         /\ versions[i].dataToken \in Token
         /\ TokenModulus \in Nat
<1>1. versions[i] \in Version
  BY DEF TypeOK
<1> QED
  BY <1>1, TokenAssumption DEF Version, StructureTokensNotZero

LEMMA TokensStep ==
  ASSUME TypeOK, PublishedTrees, TokensInv, [Next]_vars
  PROVE  TokensInv'
<1> USE DEF TokensInv
<1>1. ASSUME NEW j \in Job, Merge(j) PROVE TokensInv'
  <2> DEFINE n == Len(versions)
  <2> DEFINE last == versions[n]
  <2> DEFINE new == versions'[n + 1]
  <2>1. /\ Len(versions') = n + 1
        /\ \A i \in 1 .. n : versions'[i] = versions[i]
        /\ new = Merged(j)
        /\ n \in Nat \ {0}
    BY <1>1, MergeVersions
  <2>2. writersserver = n
    BY DEF PublishedTrees, ReadersFollowWriters
  <2>3. /\ last.token \in 1 .. TokenModulus - 1
        /\ last.dataToken \in Token
        /\ TokenModulus \in Nat
    BY <2>1, TokenTypes
  <2>4. new.dataToken = DataTokenAfter(last.dataToken, 1)
    <3>1. new.dataToken = (last.dataToken + 1) % TokenModulus
      BY <2>1, <2>2 DEF Merged
    <3>2. (last.dataToken + 1) % TokenModulus
            = IF last.dataToken + 1 < TokenModulus THEN last.dataToken + 1 ELSE 0
      BY <2>3, NextDataToken
    <3> QED
      BY <2>3, <3>1, <3>2 DEF DataTokenAfter, Token
  <2>5. PICK m \in {0, 1} :
          /\ new.token = TokenAfter(last.token, m)
          /\ m = 0 => \A d \in Dimension : new.val[d] = last.val[d]
    <3>1. CASE j \in CellJob
      <4>1. new.token = last.token
        BY <2>1, <2>2, <3>1 DEF Merged
      <4>2. last.token = TokenAfter(last.token, 0)
        BY <2>3 DEF TokenAfter
      <4>3. \A d \in Dimension : d \in Obj /\ d \notin checkedOut[j]
        BY <3>1, ObjAssumption DEF Obj, CellsInStorages
      <4>4. \A d \in Dimension : new.val[d] = last.val[d]
        BY <2>1, <2>2, <4>3 DEF Merged
      <4> QED
        BY <4>1, <4>2, <4>4
    <3>2. CASE j \notin CellJob
      <4>1. new.token = NextToken(last.token)
        BY <2>1, <2>2, <3>2 DEF Merged
      <4>2. NextToken(last.token) = TokenAfter(last.token, 1)
        BY <2>3, NextTokenAfter DEF TokenAfter
      <4> QED
        BY <4>1, <4>2
    <3> QED
      BY <3>1, <3>2
  <2>6. StructureTokensNotZero'
    <3>1. new.token \in 1 .. TokenModulus - 1
      BY <2>3, <2>5, TokenAssumption DEF TokenAfter
    <3> QED
      BY <2>1, <3>1 DEF StructureTokensNotZero
  <2>7. CellsInStorages'
    BY <1>1 DEF Merge, CellsInStorages
  <2>8. ASSUME n + 1 < TokenModulus, NEW i \in 1 .. n + 1
        PROVE  TokensApart(versions'[i], new, n + 1 - i)
    <3>1. CASE i = n + 1
      <4>1. new.dataToken \in Token /\ new.token \in 1 .. TokenModulus - 1
        BY <2>1, <2>3, <2>4, <2>6, SMTT(30) DEF StructureTokensNotZero, DataTokenAfter, Token
      <4>2. /\ new.dataToken = DataTokenAfter(new.dataToken, 0)
            /\ new.token = TokenAfter(new.token, 0)
        BY <2>3, <4>1, SMTT(30) DEF DataTokenAfter, TokenAfter, Token
      <4>3. n + 1 - i = 0 /\ 0 \in 0 .. n + 1 - i
        BY <2>1, <3>1
      <4> QED
        BY <2>1, <3>1, <4>2, <4>3 DEF TokensApart
    <3>2. CASE i \in 1 .. n
      <4> DEFINE v == versions[i]
      <4>1. /\ last.dataToken = DataTokenAfter(v.dataToken, n - i)
            /\ \E q \in 0 .. n - i :
                 /\ last.token = TokenAfter(v.token, q)
                 /\ q = 0 => \A d \in Dimension : last.val[d] = v.val[d]
        <5>1. n < TokenModulus /\ n \in 1 .. n /\ i \in 1 .. n
          BY <2>1, <2>3, <2>8, <3>2
        <5>2. TokensApart(versions[i], versions[n], n - i)
          BY <2>1, <5>1 DEF TokensCountCommits
        <5> QED
          BY <2>1, <5>2 DEF TokensApart
      <4>2. PICK q \in 0 .. n - i :
              /\ last.token = TokenAfter(v.token, q)
              /\ q = 0 => \A d \in Dimension : last.val[d] = v.val[d]
        BY <4>1
      <4>3. /\ v.token \in 1 .. TokenModulus - 1 /\ v.dataToken \in Token
            /\ versions'[i] = v
        BY <2>1, <3>2, TokenTypes
      <4>4. new.dataToken = DataTokenAfter(v.dataToken, n + 1 - i)
        <5>1. n - i \in Nat /\ n - i < TokenModulus
          BY <2>1, <2>3, <2>8, <3>2
        <5>2. n - i + 1 = n + 1 - i /\ n - i + 1 < TokenModulus
          BY <2>1, <2>3, <2>8, <3>2
        <5> QED
          BY <2>4, <4>1, <4>3, <5>1, <5>2, DataTokenRound
      <4>5. q + m \in 0 .. n + 1 - i
        BY <2>1, <3>2
      <4>6. new.token = TokenAfter(v.token, q + m)
        <5>1. q \in Nat /\ q + m < TokenModulus - 1
          BY <2>1, <2>3, <2>8, <3>2
        <5> QED
          BY <2>5, <4>2, <4>3, <5>1, TokenRound
      <4>7. q + m = 0 => \A d \in Dimension : new.val[d] = v.val[d]
        <5>1. q + m = 0 => q = 0 /\ m = 0
          BY <2>1, <3>2
        <5> QED
          BY <2>5, <4>2, <5>1
      <4> QED
        BY <4>3, <4>4, <4>5, <4>6, <4>7 DEF TokensApart
    <3> QED
      BY <2>1, <3>1, <3>2
  <2>9. TokensCountCommits'
    <3> SUFFICES ASSUME n + 1 < TokenModulus,
                        NEW k \in 1 .. n + 1, NEW i \in 1 .. k
                 PROVE  TokensApart(versions'[i], versions'[k], k - i)
      BY <2>1 DEF TokensCountCommits
    <3>1. CASE k = n + 1
      BY <2>1, <2>8, <3>1
    <3>2. CASE k \in 1 .. n
      <4>1. n < TokenModulus /\ i \in 1 .. n
        BY <2>1, <2>3, <3>2
      <4>2. versions'[k] = versions[k] /\ versions'[i] = versions[i]
        BY <2>1, <3>2, <4>1
      <4> QED
        BY <3>2, <4>1, <4>2 DEF TokensCountCommits
    <3> QED
      BY <2>1, <3>1, <3>2
  <2> QED
    BY <2>6, <2>7, <2>9
<1>2. ASSUME NEW j \in Job, GetServerCopy(j) PROVE TokensInv'
  <2>1. j \in CellJob => \A W \in Footprints(j) : W \subseteq Storage
    BY DEF Footprints
  <2>2. CellsInStorages'
    BY <1>2, <2>1 DEF GetServerCopy, CellsInStorages, TypeOK, Job
  <2>3. versions' = versions
    BY <1>2 DEF GetServerCopy
  <2>4. StructureTokensNotZero'
    BY <2>3 DEF StructureTokensNotZero
  <2>5. TokensCountCommits'
    BY <2>3 DEF TokensCountCommits
  <2> QED
    BY <2>2, <2>4, <2>5
<1>3. ASSUME NEW j \in Job, Throw(j) \/ Publish(j) \/ MergeFails(j)
      PROVE  TokensInv'
  <2>1. UNCHANGED <<versions, checkedOut>>
    BY <1>3 DEF Throw, Publish, MergeFails
  <2>2. CellsInStorages' /\ StructureTokensNotZero'
    BY <2>1 DEF CellsInStorages, StructureTokensNotZero
  <2>3. TokensCountCommits'
    BY <2>1 DEF TokensCountCommits
  <2> QED
    BY <2>2, <2>3
<1>4. CASE UNCHANGED vars
  <2>1. UNCHANGED <<versions, checkedOut>>
    BY <1>4 DEF vars
  <2>2. CellsInStorages' /\ StructureTokensNotZero'
    BY <2>1 DEF CellsInStorages, StructureTokensNotZero
  <2>3. TokensCountCommits'
    BY <2>1 DEF TokensCountCommits
  <2> QED
    BY <2>2, <2>3
<1> QED
  BY <1>1, <1>2, <1>3, <1>4 DEF Next, Progress, Idle

(* Fewer commits than tokens: a pair of tokens names one tree, and the     *)
(* structure token the dimensions of a tree.                               *)
THEOREM TokensIdentifyVersionsCorrect == Spec => []TokensIdentifyVersions
<1>1. ASSUME Init PROVE TokensInv
  <2>1. PICK t \in StartTokens, d \in StartTokens :
          versions = << [ptr |-> [o \in Obj |-> 1], val |-> [o \in Obj |-> {}],
                         token |-> t, dataToken |-> d] >>
    BY <1>1 DEF Init
  <2>2. /\ Len(versions) = 1 /\ 1 .. 1 = {1} /\ 1 - 1 = 0 /\ 0 .. 0 = {0}
        /\ versions[1].token = t /\ versions[1].dataToken = d
    BY <2>1
  <2>3. t \in 1 .. TokenModulus - 1 /\ d \in 1 .. TokenModulus - 1
    BY TokenAssumption
  <2>4. t = TokenAfter(t, 0) /\ d = DataTokenAfter(d, 0)
    BY <2>3, TokenAssumption DEF TokenAfter, DataTokenAfter
  <2>5. TokensCountCommits
    BY <2>2, <2>4 DEF TokensCountCommits, TokensApart
  <2> QED
    BY <1>1, <2>2, <2>3, <2>5
    DEF Init, TokensInv, StructureTokensNotZero, CellsInStorages, Job
<1>2. TypeOK /\ PublishedTrees /\ TokensInv /\ [Next]_vars => TokensInv'
  BY TokensStep
<1>3. ASSUME TypeOK, TokensInv PROVE TokensIdentifyVersions
  <2> SUFFICES ASSUME Len(versions) < TokenModulus,
                      NEW k \in 1 .. Len(versions), NEW i \in 1 .. k,
                      versions[i].token = versions[k].token
               PROVE  /\ \A d \in Dimension :
                           versions[i].val[d] = versions[k].val[d]
                      /\ versions[i].dataToken = versions[k].dataToken => i = k
    <3>1. \A i, k \in 1 .. Len(versions) : i \in 1 .. k \/ k \in 1 .. i
      BY <1>3 DEF TypeOK
    <3> QED
      BY <3>1 DEF TokensIdentifyVersions
  <2>a. Len(versions) \in Nat /\ i \in 1 .. Len(versions)
    BY <1>3 DEF TypeOK
  <2>1. /\ versions[i].token \in 1 .. TokenModulus - 1
        /\ versions[i].dataToken \in Token
        /\ TokenModulus \in Nat /\ Len(versions) \in Nat
        /\ i \in 1 .. Len(versions)
    BY <1>3, <2>a, TokenTypes DEF TokensInv
  <2>b. TokensApart(versions[i], versions[k], k - i)
    BY <1>3, <2>1 DEF TokensInv, TokensCountCommits
  <2>2. PICK n \in 0 .. k - i :
          /\ versions[k].token = TokenAfter(versions[i].token, n)
          /\ n = 0 => \A d \in Dimension : versions[k].val[d] = versions[i].val[d]
    BY <2>b DEF TokensApart
  <2>3. n = 0
    <3>1. n \in Nat /\ n + 0 < TokenModulus - 1 /\ 0 \in {0, 1}
      BY <2>1
    <3> QED
      BY <2>1, <2>2, <3>1, TokenRound
  <2>4. versions[k].dataToken = DataTokenAfter(versions[i].dataToken, k - i)
    BY <2>b DEF TokensApart
  <2>5. versions[i].dataToken = versions[k].dataToken => i = k
    <3>1. k - i \in Nat /\ k - i < TokenModulus /\ (k - i = 0 => i = k)
      BY <2>1
    <3> QED
      BY <2>1, <2>4, <3>1, DataTokenRound
  <2> QED
    BY <2>2, <2>3, <2>5
<1> QED
  BY <1>1, <1>2, <1>3, TypeCorrect, PublishedTreesCorrect, PTL DEF Spec
=============================================================================
