--------------------------- MODULE StorageFragments ---------------------------
(***************************************************************************)
(* The parallel commit of many cell changes to one storage of the CPU      *)
(* engine: StorageCpuCommitWorker::start, operator(), storeSegment and     *)
(* mergeParts.                                                             *)
(*                                                                         *)
(* The calling thread cuts the sorted changes into bulks.  Each bulk is    *)
(* merged with its segment of the old page list, by the caller itself or   *)
(* by a thread of the pool, whatever ThreadPool::hasFreeCore answers.  A   *)
(* worker that has a merged segment looks under collMutex for the stored   *)
(* fragment that ends before it or the one that starts after it, takes     *)
(* that out, appends one to the other outside of the mutex and looks       *)
(* again; when there is neither it stores what it has.  The fragments come *)
(* in any order, and at the end there must be one.                         *)
(*                                                                         *)
(* A merged segment is the number of its bulk, the content of a fragment   *)
(* the sequence of its segments.  The two maps of StorageFragments are     *)
(* sets of fragments, with the from or the to of a fragment as the key.    *)
(***************************************************************************)
EXTENDS Integers, Sequences, FiniteSets

CONSTANT Last  \* the number of the last bulk, the first is 0

ASSUME LastAssumption == Last \in Nat

Bulk == 0 .. Last

VARIABLES
  caller,        \* "cutting", "merging", "joining", "returned" or "thrown"
  seqNr,         \* the next bulk to cut
  pc,            \* what happens to each bulk
  held,          \* startSeqNr, endSeqNr and mergedSegmentSP of its worker
  taken,         \* the neighbour it took out
  startingWith,  \* storagesStartingWith
  endingWith,    \* storagesEndingWith
  errors         \* the group of the workers has errors

workers == <<pc, held, taken>>
vars == <<caller, seqNr, workers, startingWith, endingWith, errors>>
-----------------------------------------------------------------------------
Fragment == [from : Bulk, to : Bulk, segments : Seq(Bulk)]

(* The bulks of a worker at work.                                          *)
Active == {"queued", "merging", "storing", "previous", "next"}

PC == Active \union {"none", "stored", "skipped", "failed"}

Segment(b) == [from |-> b, to |-> b, segments |-> <<b>>]

Init ==
  /\ caller = "cutting"
  /\ seqNr = 0
  /\ pc = [b \in Bulk |-> "none"]
  /\ held = [b \in Bulk |-> Segment(b)]
  /\ taken = [b \in Bulk |-> Segment(b)]
  /\ startingWith = {}
  /\ endingWith = {}
  /\ errors = FALSE

(* The caller cuts the next bulk and gives it to the pool or does it       *)
(* itself.  The last one is always its own.                                *)
CutForPool ==
  /\ caller = "cutting"
  /\ seqNr < Last
  /\ pc' = [pc EXCEPT ![seqNr] = "queued"]
  /\ seqNr' = seqNr + 1
  /\ UNCHANGED <<caller, held, taken, startingWith, endingWith, errors>>

CutForMyself ==
  /\ caller = "cutting"
  /\ seqNr <= Last
  /\ pc' = [pc EXCEPT ![seqNr] = "merging"]
  /\ seqNr' = seqNr + 1
  /\ caller' = "merging"
  /\ UNCHANGED <<held, taken, startingWith, endingWith, errors>>

Inline(b) == caller = "merging" /\ b = seqNr - 1

GoOn ==
  /\ caller = "merging"
  /\ pc[seqNr - 1] = "stored"
  /\ caller' = "cutting"
  /\ UNCHANGED <<seqNr, workers, startingWith, endingWith, errors>>

(* All bulks were cut, or Context::check(false) says the job was stopped.  *)
EndCutting ==
  /\ caller = "cutting"
  /\ caller' = "joining"
  /\ UNCHANGED <<seqNr, workers, startingWith, endingWith, errors>>

(* ThreadPool::join throws the error of a worker and the second            *)
(* Context::check the one of a job that was stopped.                       *)
Join ==
  /\ caller = "joining"
  /\ \A b \in Bulk : pc[b] \notin Active
  /\ \/ ~errors /\ seqNr > Last /\ caller' = "returned"
     \/ caller' = "thrown"
  /\ UNCHANGED <<seqNr, workers, startingWith, endingWith, errors>>
-----------------------------------------------------------------------------
(* Mutant: the job of a group with errors is put back.                     *)
BeginOrPutBack(b) ==
  /\ pc[b] = "queued"
  /\ IF errors THEN UNCHANGED pc ELSE pc' = [pc EXCEPT ![b] = "merging"]
  /\ UNCHANGED <<caller, seqNr, held, taken, startingWith, endingWith, errors>>

(* ThreadPool::operator() skips the jobs of a group that has errors.       *)
Begin(b) ==
  /\ pc[b] = "queued"
  /\ pc' = [pc EXCEPT ![b] = IF errors THEN "skipped" ELSE "merging"]
  /\ UNCHANGED <<caller, seqNr, held, taken, startingWith, endingWith, errors>>

MergeSegment(b) ==
  /\ pc[b] = "merging"
  /\ held' = [held EXCEPT ![b] = Segment(b)]
  /\ pc' = [pc EXCEPT ![b] = "storing"]
  /\ UNCHANGED <<caller, seqNr, taken, startingWith, endingWith, errors>>

(* An exception in mergeSegment or mergeParts.  The pool keeps it for the  *)
(* group; in the caller it leaves start without waiting for the workers,   *)
(* and what they do afterwards is undefined.                               *)
Fail(b) ==
  /\ pc[b] \in {"merging", "previous", "next"}
  /\ pc' = [pc EXCEPT ![b] = "failed"]
  /\ IF Inline(b) THEN caller' = "thrown" /\ UNCHANGED errors
                  ELSE errors' = TRUE /\ UNCHANGED caller
  /\ UNCHANGED <<seqNr, held, taken, startingWith, endingWith>>

EraseFrom(frags, k) == {f \in frags : f.from # k}
EraseTo(frags, k) == {f \in frags : f.to # k}

(* std::map::insert keeps an entry the map has.                            *)
InsertFrom(frags, f) ==
  IF \E g \in frags : g.from = f.from THEN frags ELSE frags \union {f}
InsertTo(frags, f) ==
  IF \E g \in frags : g.to = f.to THEN frags ELSE frags \union {f}

HasPrevious(b) == \E f \in endingWith : f.to = held[b].from - 1
HasNext(b) == \E f \in startingWith : f.from = held[b].to + 1

(* storeSegment: under collMutex the worker takes the fragment before its  *)
(* own out of both maps, or the one after it, or stores its own.           *)
TakePrevious(b) ==
  /\ pc[b] = "storing"
  /\ \E f \in endingWith :
       /\ f.to = held[b].from - 1
       /\ taken' = [taken EXCEPT ![b] = f]
       /\ startingWith' = EraseFrom(startingWith, f.from)
       /\ endingWith' = EraseTo(endingWith, held[b].from - 1)
  /\ pc' = [pc EXCEPT ![b] = "previous"]
  /\ UNCHANGED <<caller, seqNr, held, errors>>

TakeNext(b) ==
  /\ pc[b] = "storing"
  /\ ~HasPrevious(b)
  /\ \E f \in startingWith :
       /\ f.from = held[b].to + 1
       /\ taken' = [taken EXCEPT ![b] = f]
       /\ startingWith' = EraseFrom(startingWith, held[b].to + 1)
       /\ endingWith' = EraseTo(endingWith, f.to)
  /\ pc' = [pc EXCEPT ![b] = "next"]
  /\ UNCHANGED <<caller, seqNr, held, errors>>

(* Mutant: the worker does not look behind its fragment.                   *)
StoreAfterOneLook(b) ==
  /\ pc[b] = "storing"
  /\ ~HasPrevious(b)
  /\ startingWith' = InsertFrom(startingWith, held[b])
  /\ endingWith' = InsertTo(endingWith, held[b])
  /\ pc' = [pc EXCEPT ![b] = "stored"]
  /\ UNCHANGED <<caller, seqNr, held, taken, errors>>

Store(b) ==
  /\ pc[b] = "storing"
  /\ ~HasPrevious(b)
  /\ ~HasNext(b)
  /\ startingWith' = InsertFrom(startingWith, held[b])
  /\ endingWith' = InsertTo(endingWith, held[b])
  /\ pc' = [pc EXCEPT ![b] = "stored"]
  /\ UNCHANGED <<caller, seqNr, held, taken, errors>>

(* Mutant: the fragments are taken in the order of their threads.          *)
AppendedBefore(f, g) ==
  [from |-> f.from, to |-> g.to, segments |-> g.segments \o f.segments]

(* mergeParts: the pages of g are moved behind those of f.                 *)
Appended(f, g) ==
  [from |-> f.from, to |-> g.to, segments |-> f.segments \o g.segments]

(* Mutant: what was merged is not stored.                                  *)
MergePartsAndStop(b) ==
  /\ pc[b] \in {"previous", "next"}
  /\ held' = [held EXCEPT ![b] = IF pc[b] = "previous"
                                 THEN Appended(taken[b], held[b])
                                 ELSE Appended(held[b], taken[b])]
  /\ pc' = [pc EXCEPT ![b] = "stored"]
  /\ UNCHANGED <<caller, seqNr, taken, startingWith, endingWith, errors>>

MergeParts(b) ==
  /\ pc[b] \in {"previous", "next"}
  /\ held' = [held EXCEPT ![b] = IF pc[b] = "previous"
                                 THEN Appended(taken[b], held[b])
                                 ELSE Appended(held[b], taken[b])]
  /\ pc' = [pc EXCEPT ![b] = "storing"]
  /\ UNCHANGED <<caller, seqNr, taken, startingWith, endingWith, errors>>

Work(b) ==
  \/ Begin(b) \/ MergeSegment(b) \/ TakePrevious(b) \/ TakeNext(b)
  \/ Store(b) \/ MergeParts(b)

Cut == CutForPool \/ CutForMyself \/ GoOn \/ EndCutting \/ Join

Finished == caller \in {"returned", "thrown"} /\ \A b \in Bulk : pc[b] \notin Active

Idle == Finished /\ UNCHANGED vars

Next == Cut \/ (\E b \in Bulk : Work(b) \/ Fail(b)) \/ Idle

Spec == Init /\ [][Next]_vars

(* The caller and the threads of the pool run on; the pool starts every    *)
(* job it was given (ThreadPool.tla).                                      *)
FairSpec == Spec /\ WF_vars(Cut) /\ \A b \in Bulk : WF_vars(Work(b))
-----------------------------------------------------------------------------
TypeOK ==
  /\ caller \in {"cutting", "merging", "joining", "returned", "thrown"}
  /\ seqNr \in 0 .. Last + 1
  /\ pc \in [Bulk -> PC]
  /\ held \in [Bulk -> Fragment]
  /\ taken \in [Bulk -> Fragment]
  /\ startingWith \subseteq Fragment
  /\ endingWith \subseteq Fragment
  /\ errors \in BOOLEAN

(* The bulks whose changes a worker holds on its way to the maps.          *)
Held(b) ==
  CASE pc[b] = "storing" -> held[b].from .. held[b].to
    [] pc[b] = "previous" -> taken[b].from .. held[b].to
    [] pc[b] = "next" -> held[b].from .. taken[b].to
    [] OTHER -> {}

Stored(f) == f.from .. f.to

(* No change is in two fragments: a worker that took a fragment out has it *)
(* for itself, though it appends to it outside of the mutex.               *)
FragmentsDisjoint ==
  /\ \A b, c \in Bulk : b # c => Held(b) \intersect Held(c) = {}
  /\ \A b \in Bulk, f \in startingWith : Held(b) \intersect Stored(f) = {}
  /\ \A f, g \in startingWith : f # g => Stored(f) \intersect Stored(g) = {}

(* No change is lost between the workers unless one of them fails.         *)
NothingLost ==
  ~errors /\ caller # "thrown" =>
    \A b \in Bulk : pc[b] \in {"storing", "previous", "next", "stored"} =>
      \/ \E c \in Bulk : b \in Held(c)
      \/ \E f \in startingWith : b \in Stored(f)

(* Whichever worker is last finds what is left to be merged: the fragments *)
(* in the maps never touch each other, and both maps hold the same ones.   *)
NoneLeftToMerge ==
  /\ startingWith = endingWith
  /\ \A f, g \in startingWith : f.to + 1 # g.from

Run(m, n) == [i \in 1 .. n - m + 1 |-> m + i - 1]

(* "parallel commit failed" (StorageCpu.cpp:1009) is never logged: when    *)
(* start returns there is one fragment and it holds the segments of all    *)
(* bulks in their order.                                                   *)
ResultWhole ==
  caller = "returned" =>
    startingWith =
      {[from |-> 0, to |-> Last, segments |-> Run(0, Last)]}

(* The commit ends, with a result or with an exception.                    *)
CommitEnds == <>(caller \in {"returned", "thrown"})
=============================================================================
