----------------------- MODULE StorageFragmentsProofs -----------------------
(***************************************************************************)
(* Theorems about the parallel commit to a storage, for any number of      *)
(* bulks.                                                                  *)
(***************************************************************************)
EXTENDS StorageFragments, TLAPS

(* A fragment holds the segments of its bulks in their order.              *)
Whole(f) == f.from <= f.to /\ f.segments = Run(f.from, f.to)

AllWhole ==
  /\ \A f \in startingWith : Whole(f)
  /\ \A b \in Bulk :
       pc[b] \in {"storing", "previous", "next"} => Whole(held[b])
  /\ \A b \in Bulk : pc[b] = "previous" =>
       Whole(taken[b]) /\ taken[b].to + 1 = held[b].from
  /\ \A b \in Bulk : pc[b] = "next" =>
       Whole(taken[b]) /\ held[b].to + 1 = taken[b].from

(* The bulks behind seqNr and no other ones are still to be cut.           *)
CutInOrder == \A b \in Bulk : pc[b] = "none" <=> b >= seqNr

(* What was not merged yet is in no fragment.                              *)
Merged(b) == pc[b] \notin {"none", "queued", "merging"}

OnlyMergedHeld ==
  /\ \A b, c \in Bulk : b \in Held(c) => Merged(b)
  /\ \A b \in Bulk, f \in startingWith : b \in Stored(f) => Merged(b)

(* A bulk that is left undone makes the commit throw.                      *)
FailuresKnown ==
  /\ \A b \in Bulk : pc[b] \in {"skipped", "failed"} =>
       errors \/ caller = "thrown"
  /\ caller = "returned" =>
       ~errors /\ seqNr > Last /\ \A b \in Bulk : pc[b] \notin Active

IInv ==
  /\ TypeOK
  /\ AllWhole
  /\ CutInOrder
  /\ OnlyMergedHeld
  /\ FailuresKnown
  /\ FragmentsDisjoint
  /\ NothingLost
  /\ NoneLeftToMerge
-----------------------------------------------------------------------------
(* The elements of a run.                                                  *)
LEMMA RunElements ==
  ASSUME NEW a \in Int, NEW b \in Int, a <= b + 1
  PROVE  /\ Run(a, b) \in Seq(Int)
         /\ Len(Run(a, b)) = b - a + 1
         /\ \A i \in 1 .. b - a + 1 : Run(a, b)[i] = a + i - 1
BY DEF Run

(* A sequence whose elements are those of a run is the run.                *)
LEMMA IsRun ==
  ASSUME NEW a \in Int, NEW b \in Int, a <= b + 1, NEW s \in Seq(Int),
         Len(s) = b - a + 1,
         \A i \in 1 .. b - a + 1 : s[i] = a + i - 1
  PROVE  s = Run(a, b)
<1>1. s = [i \in 1 .. Len(s) |-> s[i]]
  OBVIOUS
<1>2. Run(a, b) = [i \in 1 .. b - a + 1 |-> a + i - 1]
  BY DEF Run
<1> QED
  BY <1>1, <1>2

(* Two sequences, one behind the other.                                    *)
LEMMA ElementsOfBoth ==
  ASSUME NEW s \in Seq(Int), NEW t \in Seq(Int)
  PROVE  /\ s \o t \in Seq(Int)
         /\ Len(s \o t) = Len(s) + Len(t)
         /\ \A i \in 1 .. Len(s) : (s \o t)[i] = s[i]
         /\ \A i \in 1 .. Len(t) : (s \o t)[Len(s) + i] = t[i]
OBVIOUS

(* Two runs that meet make one run.                                        *)
LEMMA RunsMeet ==
  ASSUME NEW a \in Int, NEW b \in Int, NEW c \in Int, a <= b, b + 1 <= c
  PROVE  Run(a, b) \o Run(b + 1, c) = Run(a, c)
<1>1. PICK s \in Seq(Int) : /\ s = Run(a, b) /\ Len(s) = b - a + 1
                            /\ \A i \in 1 .. b - a + 1 : s[i] = a + i - 1
  BY RunElements
<1>2. PICK t \in Seq(Int) : /\ t = Run(b + 1, c) /\ Len(t) = c - b
                            /\ \A i \in 1 .. c - b : t[i] = b + i
  <2>1. b + 1 \in Int /\ b + 1 <= c + 1 /\ c - (b + 1) + 1 = c - b
    OBVIOUS
  <2>2. /\ Run(b + 1, c) \in Seq(Int)
        /\ Len(Run(b + 1, c)) = c - (b + 1) + 1
        /\ \A i \in 1 .. c - (b + 1) + 1 :
             Run(b + 1, c)[i] = (b + 1) + i - 1
    BY <2>1, RunElements
  <2>3. \A i \in 1 .. c - b : (b + 1) + i - 1 = b + i
    OBVIOUS
  <2> QED
    BY <2>1, <2>2, <2>3
<1>3. PICK u \in Seq(Int) : u = s \o t
  BY ElementsOfBoth
<1>4. Len(u) = c - a + 1
  <2>1. Len(u) = Len(s) + Len(t)
    BY <1>3, ElementsOfBoth
  <2> QED
    BY <1>1, <1>2, <2>1
<1>5. ASSUME NEW i \in 1 .. c - a + 1 PROVE u[i] = a + i - 1
  <2>1. CASE i <= Len(s)
    <3>1. i \in 1 .. Len(s)
      BY <2>1
    <3> QED
      BY <1>1, <1>3, <3>1, ElementsOfBoth
  <2>2. CASE i > Len(s)
    <3>1. PICK k \in 1 .. Len(t) : i = Len(s) + k
      <4>1. i - Len(s) \in 1 .. Len(t)
        BY <1>1, <1>2, <2>2
      <4> QED
        BY <1>1, <4>1
    <3>2. u[i] = t[k]
      BY <1>3, <3>1, ElementsOfBoth
    <3>3. k \in 1 .. c - b
      BY <1>2, <3>1
    <3>4. t[k] = b + k
      BY <1>2, <3>3
    <3>5. i = (b - a + 1) + k /\ k \in Int
      BY <1>1, <3>1, <3>3
    <3>6. b + k = a + i - 1
      BY <3>5
    <3> QED
      BY <3>2, <3>4, <3>6
  <2> QED
    BY <1>1, <2>1, <2>2
<1>6. u = Run(a, c)
  BY <1>4, <1>5, IsRun
<1> QED
  BY <1>1, <1>2, <1>3, <1>6

(* So one whole fragment appended to the one before it is whole.           *)
LEMMA AppendedWhole ==
  ASSUME NEW f \in Fragment, NEW g \in Fragment,
         Whole(f), Whole(g), f.to + 1 = g.from
  PROVE  Appended(f, g) \in Fragment /\ Whole(Appended(f, g))
<1>1. f.from \in Int /\ f.to \in Int /\ g.from \in Int /\ g.to \in Int
  BY LastAssumption DEF Fragment, Bulk
<1>2. Run(f.from, f.to) \o Run(g.from, g.to) = Run(f.from, g.to)
  <2>1. f.from <= f.to /\ f.to + 1 <= g.to
    BY DEF Whole
  <2>2. Run(f.from, f.to) \o Run(f.to + 1, g.to) = Run(f.from, g.to)
    BY <1>1, <2>1, RunsMeet
  <2> QED
    BY <2>2
<1>3. f.segments \o g.segments \in Seq(Bulk)
  BY DEF Fragment
<1>4. f.from <= g.to
  BY <1>1 DEF Whole
<1> QED
  BY <1>2, <1>3, <1>4 DEF Whole, Appended, Fragment

(* A merged segment is a whole fragment.                                   *)
LEMMA SegmentWhole ==
  ASSUME NEW b \in Bulk
  PROVE  Segment(b) \in Fragment /\ Whole(Segment(b))
<1>1. b \in Int
  BY LastAssumption DEF Bulk
<1>2. Run(b, b) = <<b>>
  <2>1. Run(b, b) = [i \in 1 .. 1 |-> b + i - 1]
    BY <1>1 DEF Run
  <2>2. \A i \in 1 .. 1 : b + i - 1 = b
    BY <1>1
  <2>3. Run(b, b) \in Seq(Int) /\ Len(Run(b, b)) = 1 /\ Run(b, b)[1] = b
    BY <1>1, <2>1, <2>2
  <2> QED
    BY <1>1, <2>3
<1> QED
  BY <1>1, <1>2 DEF Segment, Whole, Fragment

(* The from and the to of a stored fragment are keys, so that it leaves    *)
(* both maps.                                                              *)
LEMMA KeysUnique ==
  ASSUME IInv, NEW f \in startingWith
  PROVE  /\ EraseFrom(startingWith, f.from) = startingWith \ {f}
         /\ EraseTo(endingWith, f.to) = endingWith \ {f}
<1>1. ASSUME NEW g \in startingWith, g.from = f.from \/ g.to = f.to
      PROVE  g = f
  <2>1. f \in Fragment /\ g \in Fragment /\ Whole(f) /\ Whole(g)
    BY DEF IInv, TypeOK, AllWhole
  <2>2. Stored(f) \intersect Stored(g) # {}
    <3>1. f.from \in Int /\ f.to \in Int /\ g.from \in Int /\ g.to \in Int
      BY <2>1, LastAssumption DEF Fragment, Bulk
    <3>2. /\ f.from <= f.to /\ f.from \in Stored(f) /\ f.to \in Stored(f)
          /\ g.from <= g.to /\ g.from \in Stored(g) /\ g.to \in Stored(g)
      BY <2>1, <3>1 DEF Whole, Stored
    <3> QED
      BY <1>1, <3>2
  <2> QED
    BY <2>2 DEF IInv, FragmentsDisjoint
<1> QED
  BY <1>1 DEF EraseFrom, EraseTo, IInv, NoneLeftToMerge
-----------------------------------------------------------------------------
(* What a worker holds in each of its states.                              *)
LEMMA HeldWhat ==
  ASSUME IInv, NEW b \in Bulk
  PROVE  /\ pc[b] = "storing" => Held(b) = Stored(held[b])
         /\ pc[b] = "previous" =>
              Held(b) = Stored(taken[b]) \union Stored(held[b])
         /\ pc[b] = "next" =>
              Held(b) = Stored(held[b]) \union Stored(taken[b])
         /\ pc[b] \notin {"storing", "previous", "next"} => Held(b) = {}
<1>1. /\ held[b].from \in Int /\ held[b].to \in Int
      /\ taken[b].from \in Int /\ taken[b].to \in Int
  <2>1. held[b] \in Fragment /\ taken[b] \in Fragment
    BY DEF IInv, TypeOK
  <2> QED
    BY <2>1, LastAssumption DEF Fragment, Bulk
<1>2. CASE pc[b] = "storing"
  BY <1>2 DEF Held, Stored
<1>3. CASE pc[b] = "previous"
  BY <1>1, <1>3 DEF Held, Stored, IInv, AllWhole, Whole
<1>4. CASE pc[b] = "next"
  BY <1>1, <1>4 DEF Held, Stored, IInv, AllWhole, Whole
<1>5. CASE pc[b] \notin {"storing", "previous", "next"}
  BY <1>5 DEF Held
<1> QED
  BY <1>2, <1>3, <1>4, <1>5

(* It depends on nothing else than the worker's own variables.             *)
LEMMA HeldUnchanged ==
  ASSUME NEW c \in Bulk,
         UNCHANGED <<pc[c], held[c], taken[c]>>
  PROVE  Held(c)' = Held(c)
BY DEF Held

(* The caller cuts a bulk: nobody holds it yet.                            *)
LEMMA CutKeeps ==
  ASSUME IInv, CutForPool \/ CutForMyself
  PROVE  IInv'
<1>1. PICK x \in {"queued", "merging"}, b \in Bulk :
        /\ pc' = [pc EXCEPT ![b] = x]
        /\ seqNr = b /\ pc[b] = "none" /\ seqNr' = seqNr + 1
        /\ caller = "cutting" /\ caller' \in {"cutting", "merging"}
        /\ UNCHANGED <<held, taken, startingWith, endingWith, errors>>
  BY LastAssumption
     DEF IInv, TypeOK, CutInOrder, CutForPool, CutForMyself, Bulk
<1>2. TypeOK'
  BY <1>1, LastAssumption DEF IInv, TypeOK, PC, Active, Bulk
<1>3. AllWhole'
  BY <1>1 DEF IInv, AllWhole, TypeOK
<1>4. CutInOrder'
  BY <1>1, LastAssumption DEF IInv, TypeOK, CutInOrder, Bulk
<1>5. \A c \in Bulk : Held(c)' = Held(c)
  <2>1. pc'[b] = x
    BY <1>1 DEF IInv, TypeOK
  <2>2. Held(b)' = Held(b)
    BY <1>1, <2>1 DEF Held
  <2>3. \A c \in Bulk : c # b => pc'[c] = pc[c]
    BY <1>1 DEF IInv, TypeOK
  <2> QED
    BY <1>1, <2>2, <2>3, HeldUnchanged
<1>6. OnlyMergedHeld'
  BY <1>1, <1>5 DEF IInv, TypeOK, OnlyMergedHeld, Merged
<1>7. FailuresKnown'
  BY <1>1 DEF IInv, TypeOK, FailuresKnown
<1>8. FragmentsDisjoint'
  BY <1>1, <1>5 DEF IInv, FragmentsDisjoint
<1>9. NothingLost'
  BY <1>1, <1>5 DEF IInv, TypeOK, NothingLost
<1>10. NoneLeftToMerge'
  BY <1>1 DEF IInv, NoneLeftToMerge
<1> QED
  BY <1>2, <1>3, <1>4, <1>6, <1>7, <1>8, <1>9, <1>10 DEF IInv

(* The other steps of the caller.                                          *)
LEMMA CallerKeeps ==
  ASSUME IInv, GoOn \/ EndCutting \/ Join
  PROVE  IInv'
<1>1. /\ UNCHANGED <<seqNr, pc, held, taken, startingWith, endingWith, errors>>
      /\ caller # "thrown"
      /\ caller' \in {"cutting", "joining", "returned", "thrown"}
      /\ caller' = "returned" =>
           ~errors /\ seqNr > Last /\ \A b \in Bulk : pc[b] \notin Active
  BY DEF GoOn, EndCutting, Join, workers
<1>2. \A c \in Bulk : Held(c)' = Held(c)
  BY <1>1 DEF Held
<1>3. TypeOK' /\ AllWhole' /\ CutInOrder'
  BY <1>1 DEF IInv, TypeOK, AllWhole, CutInOrder
<1>4. OnlyMergedHeld' /\ FragmentsDisjoint' /\ NoneLeftToMerge'
  BY <1>1, <1>2
     DEF IInv, OnlyMergedHeld, Merged, FragmentsDisjoint, NoneLeftToMerge
<1>5. FailuresKnown'
  BY <1>1 DEF IInv, FailuresKnown
<1>6. NothingLost'
  BY <1>1, <1>2 DEF IInv, NothingLost
<1> QED
  BY <1>3, <1>4, <1>5, <1>6 DEF IInv
-----------------------------------------------------------------------------
(* A step of a worker that leaves the maps alone and after which it holds  *)
(* no more than before, or only its own bulk, newly merged.                *)
LEMMA WorkerKeeps ==
  ASSUME IInv, NEW b \in Bulk,
         Begin(b) \/ MergeSegment(b) \/ MergeParts(b) \/ Fail(b)
  PROVE  IInv'
<1>1. /\ UNCHANGED <<seqNr, taken, startingWith, endingWith>>
      /\ pc[b] \in {"queued", "merging", "previous", "next"}
      /\ pc'[b] \in {"skipped", "merging", "storing", "failed"}
      /\ pc'[b] = "merging" => pc[b] = "queued"
      /\ pc'[b] = "storing" => pc[b] # "queued"
      /\ pc' = [pc EXCEPT ![b] = pc'[b]]
  BY DEF Begin, MergeSegment, MergeParts, Fail, IInv, TypeOK
<1>2. /\ errors => errors'
      /\ caller = "thrown" => caller' = "thrown"
      /\ caller' \in {caller, "thrown"}
      /\ errors' \in BOOLEAN
      /\ pc'[b] \in {"skipped", "failed"} => errors' \/ caller' = "thrown"
  BY DEF Begin, MergeSegment, MergeParts, Fail, IInv, TypeOK
<1>3. /\ held'[b] \in Fragment
      /\ held' = [held EXCEPT ![b] = held'[b]]
      /\ pc'[b] = "storing" => Whole(held'[b])
      /\ \/ Held(b)' \subseteq Held(b)
         \/ pc[b] = "merging" /\ Held(b)' = {b}
      /\ pc'[b] = "storing" => Held(b)' = Held(b) \union {b} \/ Held(b)' = Held(b)
      /\ pc[b] = "merging" /\ pc'[b] = "storing" => Held(b)' = {b}
  <2>1. held[b] \in Fragment /\ taken[b] \in Fragment
    BY DEF IInv, TypeOK
  <2>2. pc'[b] # "storing" => Held(b)' = {}
    BY <1>1 DEF Held
  <2>3. CASE Begin(b) \/ Fail(b)
    <3>1. held' = held /\ pc'[b] # "storing"
      BY <2>3, <1>1 DEF Begin, Fail, IInv, TypeOK
    <3> QED
      BY <2>1, <2>2, <3>1 DEF IInv, TypeOK
  <2>4. CASE MergeSegment(b)
    <3>1. /\ held' = [held EXCEPT ![b] = Segment(b)] /\ held'[b] = Segment(b)
          /\ pc[b] = "merging" /\ pc'[b] = "storing"
      BY <2>4 DEF MergeSegment, IInv, TypeOK
    <3>2. Held(b)' = b .. b
      <4>1. Held(b)' = held'[b].from .. held'[b].to
        BY <3>1 DEF Held
      <4>2. held'[b].from = b /\ held'[b].to = b
        BY <3>1 DEF Segment
      <4> QED
        BY <4>1, <4>2
    <3>3. b .. b = {b}
      BY LastAssumption DEF Bulk
    <3>4. Held(b) = {}
      BY <3>1 DEF Held
    <3> QED
      BY <3>1, <3>2, <3>3, <3>4, SegmentWhole
  <2>5. CASE MergeParts(b)
    <3> DEFINE h == IF pc[b] = "previous" THEN Appended(taken[b], held[b])
                                          ELSE Appended(held[b], taken[b])
    <3>1. /\ held' = [held EXCEPT ![b] = h] /\ held'[b] = h
          /\ pc[b] \in {"previous", "next"} /\ pc'[b] = "storing"
      BY <2>5 DEF MergeParts, IInv, TypeOK
    <3>2. h \in Fragment /\ Whole(h)
      BY <2>1, <3>1, AppendedWhole DEF IInv, AllWhole
    <3>3. Held(b)' = h.from .. h.to
      BY <3>1 DEF Held
    <3>4. Held(b) = h.from .. h.to
      BY <3>1 DEF Held, Appended
    <3> QED
      BY <3>1, <3>2, <3>3, <3>4
  <2> QED
    BY <2>3, <2>4, <2>5
<1>4. \A c \in Bulk : c # b => pc'[c] = pc[c] /\ held'[c] = held[c]
  BY <1>1, <1>3 DEF IInv, TypeOK
<1>5. \A c \in Bulk : c # b => Held(c)' = Held(c)
  BY <1>1, <1>4, HeldUnchanged
<1>6. pc[b] = "merging" =>
        /\ \A c \in Bulk : b \notin Held(c)
        /\ \A f \in startingWith : b \notin Stored(f)
  BY DEF IInv, OnlyMergedHeld, Merged
<1>7. TypeOK'
  <2>1. pc'[b] \in PC
    BY <1>1 DEF PC, Active
  <2>2. pc' \in [Bulk -> PC] /\ held' \in [Bulk -> Fragment]
    BY <1>1, <1>3, <2>1 DEF IInv, TypeOK
  <2> QED
    BY <1>1, <1>2, <2>2 DEF IInv, TypeOK
<1>8. AllWhole'
  <2>1. pc'[b] \notin {"previous", "next"}
    BY <1>1
  <2> QED
    BY <1>1, <1>3, <1>4, <2>1 DEF IInv, AllWhole
<1>9. CutInOrder'
  BY <1>1, <1>4 DEF IInv, CutInOrder
<1>10. OnlyMergedHeld'
  <2>1. \A c \in Bulk : Merged(c) => Merged(c)'
    BY <1>1, <1>4 DEF Merged
  <2>2. ASSUME NEW a \in Bulk, NEW c \in Bulk, a \in Held(c)'
        PROVE  Merged(a)'
    <3>1. CASE a \in Held(c)
      BY <2>1, <3>1 DEF IInv, OnlyMergedHeld
    <3>2. CASE a \notin Held(c)
      <4>1. c = b /\ a = b /\ pc[b] = "merging"
        BY <1>3, <1>5, <2>2, <3>2
      <4> QED
        BY <1>1, <4>1 DEF Merged
    <3> QED
      BY <3>1, <3>2
  <2> QED
    BY <1>1, <2>1, <2>2 DEF IInv, OnlyMergedHeld
<1>11. FailuresKnown'
  <2>1. pc[b] \in Active
    BY <1>1 DEF Active
  <2>2. caller # "returned"
    BY <2>1 DEF IInv, FailuresKnown
  <2> QED
    BY <1>1, <1>2, <1>4, <2>2 DEF IInv, FailuresKnown
<1>12. FragmentsDisjoint'
  BY <1>1, <1>3, <1>5, <1>6 DEF IInv, FragmentsDisjoint
<1>13. NothingLost'
  <2> SUFFICES ASSUME ~errors', caller' # "thrown", NEW a \in Bulk,
                      pc'[a] \in {"storing", "previous", "next", "stored"}
               PROVE  \/ \E c \in Bulk : a \in Held(c)'
                      \/ \E f \in startingWith' : a \in Stored(f)
    BY DEF NothingLost, Stored
  <2>1. pc'[b] # "failed" /\ pc'[b] # "skipped" /\ ~errors /\ caller # "thrown"
    BY <1>2
  <2>2. CASE a = b /\ pc[b] = "merging"
    BY <1>1, <1>3, <2>1, <2>2
  <2>3. CASE ~(a = b /\ pc[b] = "merging")
    <3>1. pc[a] \in {"storing", "previous", "next", "stored"}
      BY <1>1, <1>4, <2>1, <2>3
    <3>2. Held(b) \subseteq Held(b)'
      <4>1. CASE pc'[b] = "storing"
        BY <1>3, <4>1
      <4>2. CASE pc'[b] # "storing"
        <5>1. pc[b] = "queued"
          BY <1>1, <2>1, <4>2
        <5> QED
          BY <5>1 DEF Held
      <4> QED
        BY <4>1, <4>2
    <3> QED
      BY <1>1, <1>5, <2>1, <3>1, <3>2 DEF IInv, NothingLost
  <2> QED
    BY <2>2, <2>3
<1>14. NoneLeftToMerge'
  BY <1>1 DEF IInv, NoneLeftToMerge
<1> QED
  BY <1>7, <1>8, <1>9, <1>10, <1>11, <1>12, <1>13, <1>14 DEF IInv

(* A worker takes a neighbour out of the maps: what it holds grows by what *)
(* the maps lose.                                                          *)
LEMMA TakeKeeps ==
  ASSUME IInv, NEW b \in Bulk, TakePrevious(b) \/ TakeNext(b)
  PROVE  IInv'
<1>1. PICK f \in startingWith :
        /\ pc[b] = "storing"
        /\ UNCHANGED <<caller, seqNr, held, errors>>
        /\ taken' = [taken EXCEPT ![b] = f]
        /\ startingWith' = startingWith \ {f}
        /\ endingWith' = endingWith \ {f}
        /\ \/ pc' = [pc EXCEPT ![b] = "previous"] /\ f.to = held[b].from - 1
           \/ pc' = [pc EXCEPT ![b] = "next"] /\ f.from = held[b].to + 1
  <2>1. startingWith = endingWith
    BY DEF IInv, NoneLeftToMerge
  <2>2. CASE TakePrevious(b)
    <3>1. PICK f \in endingWith :
            /\ f.to = held[b].from - 1
            /\ taken' = [taken EXCEPT ![b] = f]
            /\ startingWith' = EraseFrom(startingWith, f.from)
            /\ endingWith' = EraseTo(endingWith, f.to)
      BY <2>2 DEF TakePrevious
    <3> QED
      BY <2>1, <2>2, <3>1, KeysUnique DEF TakePrevious
  <2>3. CASE TakeNext(b)
    <3>1. PICK f \in startingWith :
            /\ f.from = held[b].to + 1
            /\ taken' = [taken EXCEPT ![b] = f]
            /\ startingWith' = EraseFrom(startingWith, f.from)
            /\ endingWith' = EraseTo(endingWith, f.to)
      BY <2>3 DEF TakeNext
    <3> QED
      BY <2>1, <2>3, <3>1, KeysUnique DEF TakeNext
  <2> QED
    BY <2>2, <2>3
<1>2. /\ f \in Fragment /\ held[b] \in Fragment
      /\ Whole(f) /\ Whole(held[b])
  BY <1>1 DEF IInv, TypeOK, AllWhole
<1>3. /\ f.from \in Int /\ f.to \in Int
      /\ held[b].from \in Int /\ held[b].to \in Int
  BY <1>2, LastAssumption DEF Fragment, Bulk
<1>4. /\ taken'[b] = f /\ pc'[b] \in {"previous", "next"}
      /\ \A c \in Bulk : c # b => pc'[c] = pc[c] /\ taken'[c] = taken[c]
      /\ pc'[b] = "previous" => f.to + 1 = held[b].from
      /\ pc'[b] = "next" => held[b].to + 1 = f.from
  BY <1>1, <1>3 DEF IInv, TypeOK
<1>5. \A c \in Bulk : c # b => Held(c)' = Held(c)
  BY <1>1, <1>4, HeldUnchanged
<1>6. Held(b)' = Held(b) \union Stored(f)
  <2>1. Held(b) = held[b].from .. held[b].to
    BY <1>1 DEF Held
  <2>2. CASE pc'[b] = "previous"
    <3>1. Held(b)' = f.from .. held[b].to
      BY <1>1, <1>4, <2>2 DEF Held
    <3> QED
      BY <1>2, <1>3, <1>4, <2>1, <2>2, <3>1 DEF Stored, Whole
  <2>3. CASE pc'[b] = "next"
    <3>1. Held(b)' = held[b].from .. f.to
      BY <1>1, <1>4, <2>3 DEF Held
    <3> QED
      BY <1>2, <1>3, <1>4, <2>1, <2>3, <3>1 DEF Stored, Whole
  <2> QED
    BY <1>4, <2>2, <2>3
<1>7. TypeOK'
  <2>1. pc' \in [Bulk -> PC]
    BY <1>1 DEF IInv, TypeOK, PC, Active
  <2> QED
    BY <1>1, <1>2, <2>1 DEF IInv, TypeOK
<1>8. AllWhole'
  BY <1>1, <1>2, <1>4 DEF IInv, AllWhole
<1>9. CutInOrder'
  BY <1>1, <1>4 DEF IInv, CutInOrder
<1>10. OnlyMergedHeld'
  <2>1. \A c \in Bulk : Merged(c) => Merged(c)'
    BY <1>1, <1>4 DEF Merged
  <2> QED
    BY <1>1, <1>5, <1>6, <2>1 DEF IInv, OnlyMergedHeld, Stored
<1>11. FailuresKnown'
  <2>1. caller # "returned"
    BY <1>1 DEF IInv, FailuresKnown, Active
  <2> QED
    BY <1>1, <1>4, <2>1 DEF IInv, FailuresKnown
<1>12. FragmentsDisjoint'
  <2>1. ASSUME NEW c \in Bulk, NEW d \in Bulk, c # d
        PROVE  Held(c)' \intersect Held(d)' = {}
    BY <1>1, <1>5, <1>6, <2>1 DEF IInv, FragmentsDisjoint
  <2>2. ASSUME NEW c \in Bulk, NEW g \in startingWith'
        PROVE  Held(c)' \intersect Stored(g) = {}
    BY <1>1, <1>5, <1>6, <2>2 DEF IInv, FragmentsDisjoint
  <2>3. \A g, h \in startingWith' :
          g # h => Stored(g) \intersect Stored(h) = {}
    BY <1>1 DEF IInv, FragmentsDisjoint
  <2> QED
    BY <2>1, <2>2, <2>3 DEF FragmentsDisjoint, Stored
<1>13. NothingLost'
  <2> SUFFICES ASSUME ~errors, caller # "thrown", NEW a \in Bulk,
                      pc'[a] \in {"storing", "previous", "next", "stored"}
               PROVE  \/ \E c \in Bulk : a \in Held(c)'
                      \/ \E g \in startingWith' : a \in Stored(g)
    BY <1>1 DEF NothingLost, Stored
  <2>1. pc[a] \in {"storing", "previous", "next", "stored"}
    BY <1>1, <1>4
  <2>2. \/ \E c \in Bulk : a \in Held(c)
        \/ \E g \in startingWith : a \in Stored(g)
    BY <2>1 DEF IInv, NothingLost
  <2> QED
    BY <1>1, <1>5, <1>6, <2>2
<1>14. NoneLeftToMerge'
  BY <1>1 DEF IInv, NoneLeftToMerge
<1> QED
  BY <1>7, <1>8, <1>9, <1>10, <1>11, <1>12, <1>13, <1>14 DEF IInv

(* A worker stores what it holds when neither neighbour is in the maps.    *)
LEMMA StoreKeeps ==
  ASSUME IInv, NEW b \in Bulk, Store(b)
  PROVE  IInv'
<1>1. held[b] \in Fragment /\ Whole(held[b]) /\ pc[b] = "storing"
  BY DEF Store, IInv, TypeOK, AllWhole
<1>2. /\ held[b].from \in Int /\ held[b].to \in Int
      /\ held[b].from \in Stored(held[b]) /\ held[b].to \in Stored(held[b])
  BY <1>1, LastAssumption DEF Fragment, Bulk, Whole, Stored
<1>3. Held(b) = Stored(held[b])
  BY <1>1 DEF Held, Stored
<1>4. \A g \in startingWith :
        /\ g.from \in Int /\ g.to \in Int
        /\ g.from \in Stored(g) /\ g.to \in Stored(g)
  <2>1. \A g \in startingWith : g \in Fragment /\ Whole(g)
    BY DEF IInv, TypeOK, AllWhole
  <2> QED
    BY <2>1, LastAssumption DEF Fragment, Bulk, Whole, Stored
<1>5. \A g \in startingWith : Stored(held[b]) \intersect Stored(g) = {}
  BY <1>3 DEF IInv, FragmentsDisjoint
<1>6. startingWith = endingWith
  BY DEF IInv, NoneLeftToMerge
<1>7. /\ startingWith' = startingWith \union {held[b]}
      /\ endingWith' = startingWith \union {held[b]}
  BY <1>2, <1>4, <1>5, <1>6 DEF Store, InsertFrom, InsertTo
<1>8. /\ pc' = [pc EXCEPT ![b] = "stored"] /\ pc'[b] = "stored"
      /\ \A c \in Bulk : c # b => pc'[c] = pc[c]
      /\ UNCHANGED <<caller, seqNr, held, taken, errors>>
  BY DEF Store, IInv, TypeOK
<1>9. Held(b)' = {} /\ \A c \in Bulk : c # b => Held(c)' = Held(c)
  <2>1. Held(b)' = {}
    BY <1>8 DEF Held
  <2> QED
    BY <1>8, <2>1, HeldUnchanged
<1>10. TypeOK'
  <2>1. pc' \in [Bulk -> PC]
    BY <1>8 DEF IInv, TypeOK, PC
  <2> QED
    BY <1>1, <1>6, <1>7, <1>8, <2>1 DEF IInv, TypeOK
<1>11. AllWhole'
  BY <1>1, <1>7, <1>8 DEF IInv, AllWhole
<1>12. CutInOrder'
  BY <1>1, <1>8 DEF IInv, CutInOrder
<1>13. OnlyMergedHeld'
  <2>1. \A c \in Bulk : Merged(c) => Merged(c)'
    BY <1>8 DEF Merged
  <2>2. \A a \in Bulk : a \in Stored(held[b]) => Merged(a)
    BY <1>3 DEF IInv, OnlyMergedHeld
  <2>3. ASSUME NEW a \in Bulk, NEW c \in Bulk, a \in Held(c)'
        PROVE  Merged(a)'
    BY <1>9, <2>1, <2>3 DEF IInv, OnlyMergedHeld
  <2>4. ASSUME NEW a \in Bulk, NEW g \in startingWith', a \in Stored(g)
        PROVE  Merged(a)'
    BY <1>7, <2>1, <2>2, <2>4 DEF IInv, OnlyMergedHeld
  <2> QED
    BY <2>3, <2>4 DEF OnlyMergedHeld, Stored
<1>14. FailuresKnown'
  <2>1. caller # "returned"
    BY <1>1 DEF IInv, FailuresKnown, Active
  <2> QED
    BY <1>8, <2>1 DEF IInv, FailuresKnown
<1>15. FragmentsDisjoint'
  <2>1. ASSUME NEW c \in Bulk, NEW d \in Bulk, c # d
        PROVE  Held(c)' \intersect Held(d)' = {}
    BY <1>9, <2>1 DEF IInv, FragmentsDisjoint
  <2>2. ASSUME NEW c \in Bulk, NEW g \in startingWith'
        PROVE  Held(c)' \intersect Stored(g) = {}
    BY <1>3, <1>7, <1>9, <2>2 DEF IInv, FragmentsDisjoint
  <2>3. ASSUME NEW g \in startingWith', NEW h \in startingWith', g # h
        PROVE  Stored(g) \intersect Stored(h) = {}
    BY <1>5, <1>7, <2>3 DEF IInv, FragmentsDisjoint
  <2> QED
    BY <2>1, <2>2, <2>3 DEF FragmentsDisjoint, Stored
<1>16. NothingLost'
  <2> SUFFICES ASSUME ~errors, caller # "thrown", NEW a \in Bulk,
                      pc'[a] \in {"storing", "previous", "next", "stored"}
               PROVE  \/ \E c \in Bulk : a \in Held(c)'
                      \/ \E g \in startingWith' : a \in Stored(g)
    BY <1>8 DEF NothingLost, Stored
  <2>1. pc[a] \in {"storing", "previous", "next", "stored"}
    BY <1>1, <1>8
  <2>2. \/ \E c \in Bulk : a \in Held(c)
        \/ \E g \in startingWith : a \in Stored(g)
    BY <2>1 DEF IInv, NothingLost
  <2> QED
    BY <1>3, <1>7, <1>9, <2>2
<1>17. NoneLeftToMerge'
  <2>1. /\ \A g \in startingWith : g.to # held[b].from - 1
        /\ \A g \in startingWith : g.from # held[b].to + 1
    BY <1>6 DEF Store, HasPrevious, HasNext
  <2>2. held[b].to + 1 # held[b].from
    BY <1>1, <1>2 DEF Whole
  <2>3. \A g, h \in startingWith : g.to + 1 # h.from
    BY DEF IInv, NoneLeftToMerge
  <2>4. ASSUME NEW g \in startingWith', NEW h \in startingWith'
        PROVE  g.to + 1 # h.from
    <3>1. CASE g = held[b]
      BY <1>7, <2>1, <2>2, <3>1
    <3>2. CASE h = held[b] /\ g # held[b]
      BY <1>2, <1>4, <1>7, <2>1, <3>2
    <3>3. CASE h # held[b] /\ g # held[b]
      BY <1>7, <2>3, <3>3
    <3> QED
      BY <3>1, <3>2, <3>3
  <2> QED
    BY <1>7, <2>4 DEF NoneLeftToMerge
<1> QED
  BY <1>10, <1>11, <1>12, <1>13, <1>14, <1>15, <1>16, <1>17 DEF IInv
-----------------------------------------------------------------------------
(* The strengthening holds throughout.                                     *)
THEOREM Invariance == Spec => []IInv
<1>1. Init => IInv
  <2> SUFFICES ASSUME Init PROVE IInv
    OBVIOUS
  <2>1. \A b \in Bulk : pc[b] = "none" /\ Held(b) = {}
    BY DEF Init, Held
  <2>2. TypeOK
    <3>1. \A b \in Bulk : Segment(b) \in Fragment
      BY SegmentWhole
    <3>2. held \in [Bulk -> Fragment] /\ taken \in [Bulk -> Fragment]
      BY <3>1 DEF Init
    <3>3. 0 \in 0 .. Last + 1
      BY LastAssumption
    <3> QED
      BY <3>2, <3>3 DEF Init, TypeOK, PC
  <2>3. AllWhole /\ FailuresKnown
    BY <2>1 DEF Init, AllWhole, FailuresKnown
  <2>4. CutInOrder
    BY <2>1, LastAssumption DEF Init, CutInOrder, Bulk
  <2>5. OnlyMergedHeld /\ FragmentsDisjoint /\ NothingLost /\ NoneLeftToMerge
    BY <2>1
       DEF Init, OnlyMergedHeld, FragmentsDisjoint, NothingLost, NoneLeftToMerge
  <2> QED
    BY <2>2, <2>3, <2>4, <2>5 DEF IInv
<1>2. IInv /\ [Next]_vars => IInv'
  <2> SUFFICES ASSUME IInv, [Next]_vars PROVE IInv'
    OBVIOUS
  <2>1. CASE Cut
    BY <2>1, CutKeeps, CallerKeeps DEF Cut
  <2>2. ASSUME NEW b \in Bulk, Work(b) \/ Fail(b) PROVE IInv'
    BY <2>2, WorkerKeeps, TakeKeeps, StoreKeeps DEF Work
  <2>3. CASE UNCHANGED vars
    <3>1. \A b \in Bulk : Held(b)' = Held(b)
      BY <2>3, HeldUnchanged DEF vars, workers
    <3>2. TypeOK' /\ AllWhole' /\ CutInOrder' /\ FailuresKnown'
      BY <2>3
         DEF vars, workers, IInv, TypeOK, AllWhole, CutInOrder, FailuresKnown
    <3>3. OnlyMergedHeld' /\ FragmentsDisjoint' /\ NothingLost'
      BY <2>3, <3>1 DEF vars, workers, IInv, OnlyMergedHeld, Merged,
                        FragmentsDisjoint, NothingLost
    <3>4. NoneLeftToMerge'
      BY <2>3 DEF vars, IInv, NoneLeftToMerge
    <3> QED
      BY <3>2, <3>3, <3>4 DEF IInv
  <2> QED
    BY <2>1, <2>2, <2>3 DEF Next, Idle
<1> QED
  BY <1>1, <1>2, PTL DEF Spec

(* When all bulks were merged and none is held, the maps hold them all, in *)
(* fragments that neither overlap nor touch: there is only one.            *)
LEMMA OneFragment ==
  ASSUME IInv, caller = "returned"
  PROVE  ResultWhole
<1>1. \A b \in Bulk : pc[b] = "stored"
  <2>1. \A b \in Bulk : pc[b] \in PC /\ b <= Last /\ b \in Int
    BY LastAssumption DEF IInv, TypeOK, Bulk
  <2>2. seqNr > Last /\ seqNr \in Int
    BY LastAssumption DEF IInv, TypeOK, FailuresKnown
  <2>3. \A b \in Bulk : pc[b] # "none"
    BY <2>1, <2>2, LastAssumption DEF IInv, CutInOrder
  <2> QED
    BY <2>1, <2>3 DEF IInv, FailuresKnown, PC
<1>2. \A b \in Bulk : \E f \in startingWith : b \in Stored(f)
  <2>1. \A b \in Bulk : Held(b) = {}
    BY <1>1 DEF Held
  <2> QED
    BY <1>1, <2>1 DEF IInv, NothingLost, FailuresKnown
<1>3. \A f \in startingWith :
        /\ f \in Fragment /\ Whole(f)
        /\ f.from \in 0 .. Last /\ f.to \in 0 .. Last /\ f.from <= f.to
  <2>1. \A f \in startingWith : f \in Fragment /\ Whole(f)
    BY DEF IInv, TypeOK, AllWhole
  <2> QED
    BY <2>1 DEF Fragment, Bulk, Whole
<1>4. \A f, g \in startingWith : f # g => Stored(f) \intersect Stored(g) = {}
  BY DEF IInv, FragmentsDisjoint
<1>5. PICK f \in startingWith : 0 \in Stored(f)
  BY <1>2, LastAssumption DEF Bulk
<1>6. f.from = 0
  BY <1>3, <1>5, LastAssumption DEF Stored
<1>7. f.to = Last
  <2> SUFFICES ASSUME f.to # Last PROVE FALSE
    OBVIOUS
  <2>1. f.to + 1 \in Bulk
    BY <1>3, LastAssumption DEF Bulk
  <2>2. PICK g \in startingWith : f.to + 1 \in Stored(g)
    BY <1>2, <2>1
  <2>3. g # f /\ g.from <= f.to + 1 /\ g.from # f.to + 1
    <3>1. f.to + 1 \notin Stored(f)
      BY <1>3, LastAssumption DEF Stored
    <3> QED
      BY <1>3, <2>2, <3>1, LastAssumption
         DEF Stored, IInv, NoneLeftToMerge
  <2>4. f.to \in Stored(f) /\ f.to \in Stored(g)
    <3>1. f.to + 1 <= g.to
      BY <2>2 DEF Stored
    <3> QED
      BY <1>3, <2>3, <3>1, LastAssumption DEF Stored
  <2> QED
    BY <1>4, <2>3, <2>4
<1>8. startingWith = {f}
  <2> SUFFICES ASSUME NEW g \in startingWith, g # f PROVE FALSE
    OBVIOUS
  <2>1. g.from \in Stored(g) /\ g.from \in Stored(f)
    BY <1>3, <1>6, <1>7, LastAssumption DEF Stored
  <2> QED
    BY <1>4, <2>1
<1>9. f = [from |-> 0, to |-> Last, segments |-> Run(0, Last)]
  BY <1>3, <1>6, <1>7 DEF Whole, Fragment
<1> QED
  BY <1>8, <1>9 DEF ResultWhole

(* No change is merged twice: workers never share a fragment.              *)
THEOREM FragmentsDisjointCorrect == Spec => []FragmentsDisjoint
BY Invariance, PTL DEF IInv

(* The maps never hold two fragments that could be merged.                 *)
THEOREM NoneLeftToMergeCorrect == Spec => []NoneLeftToMerge
BY Invariance, PTL DEF IInv

(* While no worker has failed, every merged change is in the maps or in    *)
(* the hands of a worker.                                                  *)
THEOREM NothingLostCorrect == Spec => []NothingLost
BY Invariance, PTL DEF IInv

(* The state is well formed throughout.                                    *)
THEOREM TypeCorrect == Spec => []TypeOK
BY Invariance, PTL DEF IInv

(* When start returns it returns all changes, in their order, however many *)
(* bulks they were cut into: "parallel commit failed" (StorageCpu.cpp:     *)
(* 1009) cannot happen.                                                    *)
THEOREM ResultWholeCorrect == Spec => []ResultWhole
<1>1. IInv => ResultWhole
  BY OneFragment DEF ResultWhole
<1> QED
  BY <1>1, Invariance, PTL
=============================================================================
