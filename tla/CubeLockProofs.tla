---------------------------- MODULE CubeLockProofs ----------------------------
(***************************************************************************)
(* Theorems about the locks of a cube, for any requests of any number of   *)
(* jobs.                                                                   *)
(***************************************************************************)
EXTENDS CubeLock, SequenceTheorems, NaturalsInduction, WellFoundedInduction, TLAPS

(* A set of numbers that is not empty has a least one.                     *)
LEMMA LeastNumber ==
  ASSUME NEW T \in SUBSET Nat, T # {}
  PROVE  \E x \in T : \A y \in T : x <= y
<1> DEFINE R == {p \in Nat \X Nat : p[1] < p[2]}
<1>1. IsWellFoundedOn(R, Nat)
  BY NatLessThanWellFounded, Zenon DEF OpToRel
<1>2. \A x, y \in Nat : y < x => <<y, x>> \in R
  OBVIOUS
<1> HIDE DEF R
<1>3. PICK x \in T : \A y \in T : ~ (<<y, x>> \in R)
  BY <1>1, WFMin
<1>4. ASSUME NEW y \in T PROVE x <= y
  <2>1. ~ (y < x)
    BY <1>2, <1>3
  <2> QED
    BY <2>1
<1> QED
  BY <1>4
-----------------------------------------------------------------------------
(* Steps of a rollback storage and maps of changed cells.                  *)
LEMMA StepDef ==
  /\ \A f \in Step : DOMAIN f \subseteq Cell /\ \A c \in DOMAIN f : f[c] \in Value
  /\ \A C \in SUBSET Cell : [C -> Value] \subseteq Step
BY DEF Step

LEMMA OverType ==
  ASSUME NEW f \in Step
  PROVE  /\ \A g \in Step : Over(f, g) \in Step
         /\ \A g \in [Cell -> Value] : Over(f, g) \in [Cell -> Value]
<1>1. ASSUME NEW g \in Step PROVE Over(f, g) \in Step
  <2>1. Over(f, g) \in [DOMAIN f \union DOMAIN g -> Value]
    BY StepDef DEF Over
  <2>2. DOMAIN f \union DOMAIN g \in SUBSET Cell
    BY StepDef
  <2> QED
    BY <2>1, <2>2, StepDef
<1>2. ASSUME NEW g \in [Cell -> Value] PROVE Over(f, g) \in [Cell -> Value]
  <2>1. DOMAIN f \union DOMAIN g = Cell
    BY StepDef
  <2> QED
    BY <2>1, StepDef DEF Over
<1> QED
  BY <1>1, <1>2

(* What a rollback brings back is a value the storage was given.           *)
LEMMA UndoneType ==
  ASSUME NEW steps \in Seq(Step), NEW n \in Nat
  PROVE  Undone(steps, n) \in Step
<1> DEFINE last == {i \in 1 .. Len(steps) : i > Len(steps) - n}
<1> DEFINE Least(c, i) == /\ c \in DOMAIN steps[i]
                          /\ \A k \in last : c \in DOMAIN steps[k] => i <= k
<1> DEFINE D == UNION {DOMAIN steps[i] : i \in last}
<1>1. \A i \in last : steps[i] \in Step
  OBVIOUS
<1>2. ASSUME NEW c \in D
      PROVE  steps[CHOOSE i \in last : Least(c, i)][c] \in Value
  <2> DEFINE T == {i \in last : c \in DOMAIN steps[i]}
  <2>1. T # {} /\ T \in SUBSET Nat
    OBVIOUS
  <2>2. PICK t \in T : \A k \in T : t <= k
    BY <2>1, LeastNumber
  <2>3. \E k \in last : Least(c, k)
    BY <2>2
  <2>4. PICK k \in last : /\ k = (CHOOSE i \in last : Least(c, i))
                          /\ Least(c, k)
    BY <2>3
  <2> QED
    BY <2>4, <1>1, StepDef
<1>3. D \in SUBSET Cell
  BY <1>1, StepDef
<1>4. Undone(steps, n) \in [D -> Value]
  BY <1>2 DEF Undone
<1> QED
  BY <1>3, <1>4, StepDef
-----------------------------------------------------------------------------
(* What a version refers to: a map of changed cells, and the rollback      *)
(* storages of its locks.                                                  *)
Refers(v) ==
  /\ v.changedCells <= Len(changed)
  /\ \A l \in v.locks : l.id <= Len(rollback)

References ==
  /\ Refers(cube)
  /\ \A j \in Job : Refers(old[j]) /\ Refers(copy[j].v)
  /\ \A j \in Job : target[j] <= Len(rollback)

TypeInv == TypeOK /\ References

(* What the requests carry.                                                *)
LEMMA RequestType ==
  ASSUME TypeOK, NEW j \in Job
  PROVE  /\ request[j].user \in User
         /\ request[j].op = "lock" => request[j].area \in SUBSET Cell
         /\ request[j].op = "replace" => request[j].cell \in Cell
         /\ request[j].op = "rollback" => request[j].steps \in Nat
         /\ request[j].op \in {"lock", "lock_complete", "commit", "rename",
                               "clear", "rollback", "replace"}
<1>1. request[j] \in Request
  BY AssignmentsAssumption DEF TypeOK
<1> QED
  BY <1>1 DEF Request

LEMMA PendingType ==
  ASSUME TypeOK, NEW v \in Version, Refers(v)
  PROVE  Pending(v) \in Step
<1>1. CASE v.changedCells = 0
  <2>1. Pending(v) \in [{} -> Value]
    BY <1>1 DEF Pending
  <2> QED
    BY <2>1, StepDef
<1>2. CASE v.changedCells # 0
  <2>1. v.changedCells \in 1 .. Len(changed)
    BY <1>2 DEF Version, Refers, TypeOK
  <2> QED
    BY <1>2, <2>1 DEF Pending, TypeOK
<1> QED
  BY <1>1, <1>2

LEMMA StoredType ==
  ASSUME TypeOK, NEW v \in Version, Refers(v), NEW m \in Step
  PROVE  /\ Stored(v, m) \in Version
         /\ Stored(v, m).locks = v.locks
         /\ Stored(v, m).changedCells = 0
<1>1. v.cells \in [Cell -> Value]
  BY DEF Version
<1>2. Over(m, Over(Pending(v), v.cells)) \in [Cell -> Value]
  BY <1>1, PendingType, OverType
<1> QED
  BY <1>2 DEF Stored, Version

LEMMA GatheredType ==
  ASSUME TypeOK, NEW v \in Version, Refers(v), NEW m \in Step
  PROVE  Gathered(v, m) \in Seq(Step) /\ Len(Gathered(v, m)) = Len(changed)
<1>1. CASE v.changedCells = 0
  BY <1>1 DEF Gathered, TypeOK
<1>2. CASE v.changedCells # 0
  <2>1. v.changedCells \in 1 .. Len(changed)
    BY <1>2 DEF Version, Refers, TypeOK
  <2>2. Over(m, changed[v.changedCells]) \in Step
    BY <2>1, OverType DEF TypeOK
  <2> QED
    BY <1>2, <2>1, <2>2 DEF Gathered, TypeOK
<1> QED
  BY <1>1, <1>2

LEMMA RemoveLockType ==
  ASSUME NEW v \in Version, NEW id
  PROVE  /\ RemoveLock(v, id) \in Version
         /\ RemoveLock(v, id).locks = {l \in v.locks : l.id # id}
         /\ RemoveLock(v, id).changedCells = v.changedCells
BY DEF RemoveLock, Version

LEMMA RecordType ==
  ASSUME TypeOK, NEW v \in Version, NEW C \in SUBSET Cell
  PROVE  Record(v, C) \in Seq(Seq(Step)) /\ Len(Record(v, C)) = Len(rollback)
<1>1. ASSUME NEW id \in Issued
      PROVE  Record(v, C)[id] \in Seq(Step)
  <2>1. rollback[id] \in Seq(Step)
    BY DEF Issued, TypeOK
  <2>2. Recorded(v, id, C) \in SUBSET Cell
    BY DEF Recorded
  <2>3. [c \in Recorded(v, id, C) |-> v.cells[c]]
           \in [Recorded(v, id, C) -> Value]
    BY <2>2 DEF Version
  <2>4. [c \in Recorded(v, id, C) |-> v.cells[c]] \in Step
    BY <2>2, <2>3, StepDef
  <2> QED
    BY <2>1, <2>4 DEF Record
<1>2. Len(rollback) \in Nat
  BY DEF TypeOK
<1>3. Record(v, C) \in [1 .. Len(rollback) -> Seq(Step)]
  BY <1>1 DEF Record, Issued
<1> QED
  BY <1>2, <1>3, SeqDef

(* A write leaves well formed what it changes, and the locks alone.        *)
LEMMA SetCellValueType ==
  ASSUME TypeOK, NEW v \in Version, Refers(v), NEW j \in Job,
         request[j].op = "replace", SetCellValue(j, v).ok
  PROVE  LET w == SetCellValue(j, v) IN
         /\ w.v \in Version /\ w.out \in SUBSET {"storage", "pages"}
         /\ w.v.locks = v.locks
         /\ w.changed \in Seq(Step) /\ Len(w.changed) >= Len(changed)
         /\ w.v.changedCells <= Len(w.changed)
         /\ w.rollback \in Seq(Seq(Step)) /\ Len(w.rollback) = Len(rollback)
<1> DEFINE m == [c \in {request[j].cell} |-> j]
<1> DEFINE C == DOMAIN m \union DOMAIN Pending(v)
<1>1. m \in Step
  <2>1. m \in [{request[j].cell} -> Value] /\ {request[j].cell} \in SUBSET Cell
    BY RequestType DEF Value
  <2> QED
    BY <2>1, StepDef
<1>2. C \in SUBSET Cell
  BY <1>1, PendingType, StepDef
<1>3. Gathered(v, m) \in Seq(Step) /\ Len(Gathered(v, m)) = Len(changed)
  BY <1>1, GatheredType
<1>4. Written(v, m) \in SUBSET {"storage", "pages"}
  BY DEF Written
<1>5. CASE v.wholeCubeLocked
  <2>1. /\ Append(changed, m) \in Seq(Step)
        /\ Len(Append(changed, m)) = Len(changed) + 1
        /\ Len(changed) \in Nat
    BY <1>1 DEF TypeOK
  <2>2. SetCellValue(j, v) =
          [ok |-> TRUE, out |-> {"storage"}, rollback |-> rollback,
           v |-> [v EXCEPT !.changedCells = IF @ = 0 THEN Len(changed) + 1 ELSE @],
           changed |-> IF v.changedCells = 0 THEN Append(changed, m)
                                             ELSE Gathered(v, m)]
    BY <1>5 DEF SetCellValue
  <2> DEFINE n == IF v.changedCells = 0 THEN Len(changed) + 1 ELSE v.changedCells
  <2> DEFINE next == [v EXCEPT !.changedCells = n]
  <2>3. v.changedCells <= Len(changed) /\ v.changedCells \in Nat
    BY DEF Version, Refers
  <2>4. n \in Nat /\ (v.changedCells = 0 => n = Len(changed) + 1)
                 /\ (v.changedCells # 0 => n <= Len(changed))
    BY <2>1, <2>3
  <2>5. [v EXCEPT !.changedCells = IF @ = 0 THEN Len(changed) + 1 ELSE @] = next
    OBVIOUS
  <2> HIDE DEF n
  <2>6. next \in Version /\ next.locks = v.locks /\ next.changedCells = n
    BY <2>4 DEF Version
  <2>7. rollback \in Seq(Seq(Step))
    BY DEF TypeOK
  <2> DEFINE map == IF v.changedCells = 0 THEN Append(changed, m) ELSE Gathered(v, m)
  <2>8. map \in Seq(Step) /\ Len(map) >= Len(changed) /\ n <= Len(map)
    BY <1>3, <2>1, <2>4
  <2> HIDE DEF map, next
  <2>9. SetCellValue(j, v) = [ok |-> TRUE, out |-> {"storage"},
                              rollback |-> rollback, v |-> next, changed |-> map]
    BY <2>2, <2>5 DEF map
  <2> QED
    BY <2>6, <2>7, <2>8, <2>9
<1>6. CASE ~v.wholeCubeLocked
  <2>1. SetCellValue(j, v) =
          [ok |-> TRUE, out |-> Written(v, m), rollback |-> Record(v, C),
           v |-> Stored(v, m), changed |-> Gathered(v, m)]
    BY <1>6, Zenon DEF SetCellValue
  <2>2. Record(v, C) \in Seq(Seq(Step)) /\ Len(Record(v, C)) = Len(rollback)
    BY <1>2, RecordType
  <2>3. /\ Stored(v, m) \in Version
        /\ Stored(v, m).locks = v.locks
        /\ Stored(v, m).changedCells = 0
    BY <1>1, StoredType
  <2> QED
    BY <1>3, <1>4, <2>1, <2>2, <2>3 DEF TypeOK
<1> QED
  BY <1>5, <1>6
-----------------------------------------------------------------------------
(* A version that referred to something before refers to it after lists    *)
(* grew.                                                                   *)
LEMMA StillRefers ==
  ASSUME TypeOK, NEW v \in Version, Refers(v),
         Len(changed') \in Nat, Len(changed') >= Len(changed),
         Len(rollback') \in Nat, Len(rollback') >= Len(rollback)
  PROVE  /\ v.changedCells <= Len(changed')
         /\ \A l \in v.locks : l.id <= Len(rollback')
<1>1. v.changedCells \in Nat /\ \A l \in v.locks : l.id \in Nat
  BY DEF Version, Lock
<1>2. Len(changed) \in Nat /\ Len(rollback) \in Nat
  BY DEF TypeOK
<1> QED
  BY <1>1, <1>2 DEF Refers

(* The copies of all jobs but j stay as they are, j's is v.                *)
LEMMA ReturnsType ==
  ASSUME TypeInv, NEW j \in Job, NEW v \in Version, NEW out \in SUBSET Parts,
         Returns(j, v, out),
         changed' \in Seq(Step), Len(changed') >= Len(changed),
         rollback' \in Seq(Seq(Step)), Len(rollback') >= Len(rollback),
         v.changedCells <= Len(changed'),
         \A l \in v.locks : l.id <= Len(rollback'),
         unrecorded' \subseteq Nat
  PROVE  TypeInv'
<1>1. TypeOK'
  BY DEF TypeInv, TypeOK, Returns
<1>2. Len(changed') \in Nat /\ Len(rollback') \in Nat
  OBVIOUS
<1>3. UNCHANGED <<cube, old, target>> /\ copy' = [copy EXCEPT ![j] = [v |-> v, out |-> out]]
  BY DEF Returns
<1>4. cube \in Version /\ \A k \in Job : old[k] \in Version /\ copy[k].v \in Version
  BY DEF TypeInv, TypeOK
<1>5. Refers(cube)'
  BY <1>2, <1>3, <1>4, StillRefers DEF TypeInv, References, Refers
<1>6. ASSUME NEW k \in Job PROVE Refers(old[k])' /\ Refers(copy[k].v)'
  <2>1. Refers(old[k])'
    BY <1>2, <1>3, <1>4, StillRefers DEF TypeInv, References, Refers
  <2>2. CASE k = j
    <3>1. copy'[j].v = v
      BY <1>3 DEF TypeInv, TypeOK
    <3> QED
      BY <2>1, <2>2, <3>1 DEF Refers
  <2>3. CASE k # j
    <3>1. copy'[k] = copy[k]
      BY <1>3, <2>3 DEF TypeInv, TypeOK
    <3>2. Refers(copy[k].v)'
      BY <1>2, <1>4, <3>1, StillRefers DEF TypeInv, References, Refers
    <3> QED
      BY <2>1, <3>2
  <2> QED
    BY <2>2, <2>3
<1>7. \A k \in Job : target'[k] <= Len(rollback')
  BY <1>2, <1>3 DEF TypeInv, References, TypeOK
<1> QED
  BY <1>1, <1>5, <1>6, <1>7 DEF TypeInv, References

(* Steps that move a job and leave what it made alone.                     *)
LEMMA MovesType ==
  ASSUME TypeInv, NEW j \in Job,
         \E p \in {"start", "found", "changed", "failed"} : pc' = [pc EXCEPT ![j] = p],
         UNCHANGED <<request, cube, shared, old, copy, target, up, auxiliary>>,
         commitTry' \in [Job -> Nat]
  PROVE  TypeInv'
BY DEF TypeInv, TypeOK, References, Refers, shared, auxiliary

LEMMA ThrowType ==
  ASSUME TypeInv, NEW j \in Job, Throw(j)
  PROVE  TypeInv'
BY MovesType DEF Throw, TypeInv, TypeOK

LEMMA CrashType ==
  ASSUME TypeInv, Crash
  PROVE  TypeInv'
BY DEF Crash, TypeInv, TypeOK, References, Refers, shared, auxiliary

(* What a call is given: the copy of its job.                              *)
LEMMA CopyType ==
  ASSUME TypeInv, NEW j \in Job
  PROVE  /\ copy[j].v \in Version /\ Refers(copy[j].v)
         /\ copy[j].out \in SUBSET Parts
         /\ old[j] \in Version /\ Refers(old[j])
         /\ cube \in Version /\ Refers(cube)
BY DEF TypeInv, TypeOK, References

LEMMA AddLockType ==
  ASSUME TypeInv, NEW j \in Job, NEW area \in SUBSET Cell, NEW whole \in BOOLEAN,
         AddLock(j, area, whole)
  PROVE  TypeInv'
<1> DEFINE v == copy[j].v
<1> DEFINE l == [id |-> Len(rollback) + 1, user |-> request[j].user,
                 area |-> area, whole |-> whole]
<1> DEFINE w == [v EXCEPT !.locks = @ \union {l}, !.hasLock = TRUE,
                          !.wholeCubeLocked = whole]
<1>1. CASE Crash \/ Throw(j)
  BY <1>1, CrashType, ThrowType
<1>2. CASE /\ rollback' = Append(rollback, <<>>)
           /\ Returns(j, w, {"locks"})
           /\ UNCHANGED <<changed, unrecorded>>
  <2>1. v \in Version /\ Refers(v)
    BY CopyType
  <2>2. Len(rollback) \in Nat /\ changed \in Seq(Step) /\ unrecorded \subseteq Nat
        /\ rollback \in Seq(Seq(Step))
    BY DEF TypeInv, TypeOK
  <2>3. l \in Lock
    BY <2>2, RequestType DEF Lock, TypeInv
  <2>4. /\ w \in Version /\ w.locks = v.locks \union {l}
        /\ w.changedCells = v.changedCells
    BY <2>1, <2>3 DEF Version
  <2>5. <<>> \in Seq(Step)
    OBVIOUS
  <2>6. rollback' \in Seq(Seq(Step)) /\ Len(rollback') = Len(rollback) + 1
    BY <1>2, <2>2, <2>5
  <2>7. \A m \in v.locks : m.id \in Nat /\ m.id <= Len(rollback)
    BY <2>1 DEF Version, Lock, Refers
  <2>8. \A m \in w.locks : m.id <= Len(rollback')
    BY <2>2, <2>4, <2>6, <2>7
  <2>9. w.changedCells <= Len(changed')
    BY <1>2, <2>1, <2>4 DEF Refers
  <2>10. Len(rollback') >= Len(rollback) /\ Len(changed') >= Len(changed)
    BY <1>2, <2>2, <2>6
  <2>11. {"locks"} \in SUBSET Parts /\ Returns(j, w, {"locks"})
    BY <1>2 DEF Parts
  <2> HIDE DEF w
  <2> QED
    BY <1>2, <2>2, <2>4, <2>6, <2>8, <2>9, <2>10, <2>11, ReturnsType
<1> QED
  BY <1>1, <1>2, Zenon DEF AddLock

LEMMA CommitCubeType ==
  ASSUME TypeInv, NEW j \in Job, CommitCube(j)
  PROVE  TypeInv'
<1> DEFINE v == copy[j].v
<1> DEFINE w == RemoveLock(v, target[j])
<1> DEFINE s == Stored(w, << >>)
<1> DEFINE x == [s EXCEPT !.wholeCubeLocked = FALSE]
<1>1. v \in Version /\ Refers(v)
  BY CopyType
<1>2. /\ w \in Version /\ w.changedCells = v.changedCells
      /\ w.locks = {l \in v.locks : l.id # target[j]}
  BY <1>1, RemoveLockType
<1>3. Refers(w)
  BY <1>1, <1>2 DEF Refers
<1>4. /\ changed \in Seq(Step) /\ rollback \in Seq(Seq(Step))
      /\ unrecorded \subseteq Nat /\ Len(changed) \in Nat /\ Len(rollback) \in Nat
      /\ TypeOK
  BY DEF TypeInv, TypeOK
<1>5. CASE Throw(j)
  BY <1>5, ThrowType
<1>6. CASE Returns(j, w, {"locks"}) /\ UNCHANGED <<shared, unrecorded>>
  <2>1. UNCHANGED <<changed, rollback, unrecorded>>
    BY <1>6 DEF shared
  <2>2. {"locks"} \in SUBSET Parts
    BY DEF Parts
  <2> HIDE DEF w
  <2> QED
    BY <1>2, <1>3, <1>4, <1>6, <2>1, <2>2, ReturnsType DEF Refers
<1>7. CASE /\ Returns(j, x, {"locks"} \union Written(v, << >>))
           /\ UNCHANGED <<shared, unrecorded>>
  <2>1. UNCHANGED <<changed, rollback, unrecorded>>
    BY <1>7 DEF shared
  <2>2. {"locks"} \union Written(v, << >>) \in SUBSET Parts
    BY DEF Parts, Written
  <2>3. << >> \in Step
    <3>1. << >> \in [{} -> Value]
      OBVIOUS
    <3> QED
      BY <3>1, StepDef
  <2>4. s \in Version /\ s.locks = w.locks /\ s.changedCells = 0
    BY <1>2, <1>3, <1>4, <2>3, StoredType
  <2> HIDE DEF s
  <2>5. x \in Version /\ x.locks = w.locks /\ x.changedCells = 0
    BY <2>4 DEF Version
  <2> HIDE DEF x, w
  <2> QED
    BY <1>3, <1>4, <1>7, <2>1, <2>2, <2>5, ReturnsType DEF Refers
<1> QED
  BY <1>5, <1>6, <1>7, Zenon DEF CommitCube

(* The lock a job may remove is in its copy.                               *)
LEMMA TargetIssued ==
  ASSUME TypeInv, NEW j \in Job, MayUnlock(j)
  PROVE  target[j] \in Issued
<1>1. PICK l \in copy[j].v.locks : l.id = target[j]
  BY DEF MayUnlock
<1>2. l.id \in Nat \ {0} /\ l.id <= Len(rollback)
  BY CopyType DEF Version, Lock, Refers
<1> QED
  BY <1>1, <1>2 DEF Issued, TypeInv, TypeOK

LEMMA RollbackCubeType ==
  ASSUME TypeInv, NEW j \in Job, RollbackCube(j)
  PROVE  TypeInv'
<1> DEFINE v == copy[j].v
<1> DEFINE id == target[j]
<1> DEFINE n == IF request[j].steps = 0 \/ request[j].steps > Len(rollback[id])
                THEN Len(rollback[id]) ELSE request[j].steps
<1> DEFINE undo == Undone(rollback[id], n)
<1> DEFINE w == IF request[j].steps = 0 THEN RemoveLock(v, id) ELSE v
<1> DEFINE s == Stored(w, undo)
<1> DEFINE out == Written(v, undo) \union
                    (IF request[j].steps = 0 THEN {"locks"} ELSE {})
<1>1. CASE Throw(j)
  BY <1>1, ThrowType
<1>2. CASE /\ MayUnlock(j)
           /\ rollback' = [rollback EXCEPT ![id] = SubSeq(@, 1, Len(@) - n)]
           /\ changed' = Gathered(v, undo)
           /\ Returns(j, s, out)
           /\ UNCHANGED unrecorded
  <2>1. v \in Version /\ Refers(v)
    BY CopyType
  <2>2. /\ changed \in Seq(Step) /\ rollback \in Seq(Seq(Step))
        /\ unrecorded \subseteq Nat /\ Len(changed) \in Nat /\ Len(rollback) \in Nat
        /\ TypeOK
    BY DEF TypeInv, TypeOK
  <2>3. id \in Issued
    BY <1>2, TargetIssued
  <2>4. rollback[id] \in Seq(Step)
    BY <2>2, <2>3 DEF Issued
  <2>5. request[j].op = "rollback"
    BY DEF RollbackCube, Call
  <2>6. n \in Nat /\ n <= Len(rollback[id])
    BY <2>2, <2>4, <2>5, RequestType
  <2>7. undo \in Step
    BY <2>4, <2>6, UndoneType
  <2>8. SubSeq(rollback[id], 1, Len(rollback[id]) - n) \in Seq(Step)
    BY <2>4, <2>6
  <2>9. rollback' \in Seq(Seq(Step)) /\ Len(rollback') = Len(rollback)
    BY <1>2, <2>2, <2>3, <2>8 DEF Issued
  <2>10. changed' \in Seq(Step) /\ Len(changed') = Len(changed)
    BY <1>2, <2>1, <2>2, <2>7, GatheredType
  <2>11. w \in Version /\ Refers(w)
    <3>1. /\ RemoveLock(v, id) \in Version /\ Refers(RemoveLock(v, id))
      BY <2>1, RemoveLockType DEF Refers
    <3> QED
      BY <2>1, <3>1
  <2> HIDE DEF w, undo
  <2>12. s \in Version /\ s.locks = w.locks /\ s.changedCells = 0
    BY <2>2, <2>7, <2>11, StoredType
  <2>13. out \in SUBSET Parts
    BY DEF Parts, Written
  <2> HIDE DEF s, out
  <2>14. \A l \in s.locks : l.id <= Len(rollback')
    BY <2>9, <2>11, <2>12 DEF Refers
  <2>15. /\ Len(changed') >= Len(changed) /\ Len(rollback') >= Len(rollback)
         /\ s.changedCells <= Len(changed') /\ unrecorded' \subseteq Nat
    BY <1>2, <2>2, <2>9, <2>10, <2>12
  <2> QED
    BY <1>2, <2>9, <2>10, <2>12, <2>13, <2>14, <2>15, ReturnsType
<1> QED
  BY <1>1, <1>2, Zenon DEF RollbackCube

LEMMA ReplaceType ==
  ASSUME TypeInv, NEW j \in Job, Replace(j)
  PROVE  TypeInv'
<1> DEFINE v == copy[j].v
<1> DEFINE w == SetCellValue(j, v)
<1>1. CASE Throw(j)
  BY <1>1, ThrowType
<1>2. CASE /\ w.ok
           /\ changed' = w.changed
           /\ rollback' = w.rollback
           /\ unrecorded' = unrecorded \union Outdated(j, v)
           /\ Returns(j, w.v, w.out)
  <2>1. v \in Version /\ Refers(v) /\ TypeOK
    BY CopyType DEF TypeInv
  <2>2. request[j].op = "replace"
    BY DEF Replace, Call
  <2>3. /\ w.v \in Version /\ w.out \in SUBSET {"storage", "pages"}
        /\ w.v.locks = v.locks
        /\ w.changed \in Seq(Step) /\ Len(w.changed) >= Len(changed)
        /\ w.v.changedCells <= Len(w.changed)
        /\ w.rollback \in Seq(Seq(Step)) /\ Len(w.rollback) = Len(rollback)
    BY <1>2, <2>1, <2>2, SetCellValueType
  <2>4. unrecorded' \subseteq Nat
    <3>1. Outdated(j, v) \subseteq Issued
      BY DEF Outdated
    <3>2. Issued \subseteq Nat
      BY DEF Issued
    <3> QED
      BY <1>2, <2>1, <3>1, <3>2 DEF TypeOK
  <2>5. w.out \in SUBSET Parts
    BY <2>3 DEF Parts
  <2>6. Len(rollback) \in Nat
    BY <2>1 DEF TypeOK
  <2> HIDE DEF w
  <2> QED
    BY <1>2, <2>1, <2>3, <2>4, <2>5, <2>6, ReturnsType DEF Refers
<1> QED
  BY <1>1, <1>2, Zenon DEF Replace

LEMMA ClearOrRenameType ==
  ASSUME TypeInv, NEW j \in Job, ClearCells(j) \/ RenameCube(j)
  PROVE  TypeInv'
<1> DEFINE v == copy[j].v
<1> DEFINE w == [v EXCEPT !.cells = [c \in Cell |-> Loaded], !.changedCells = 0]
<1>1. v \in Version /\ Refers(v)
  BY CopyType
<1>2. /\ changed \in Seq(Step) /\ rollback \in Seq(Seq(Step))
      /\ unrecorded \subseteq Nat /\ Len(changed) \in Nat /\ Len(rollback) \in Nat
  BY DEF TypeInv, TypeOK
<1>3. CASE Throw(j)
  BY <1>3, ThrowType
<1>4. CASE Returns(j, w, {"storage", "pages"}) /\ UNCHANGED <<shared, unrecorded>>
  <2>1. UNCHANGED <<changed, rollback, unrecorded>>
    BY <1>4 DEF shared
  <2>2. w \in Version /\ w.locks = v.locks /\ w.changedCells = 0
    BY <1>1 DEF Version, Value
  <2>3. {"storage", "pages"} \in SUBSET Parts
    BY DEF Parts
  <2> HIDE DEF w
  <2>4. /\ Len(changed') >= Len(changed) /\ Len(rollback') >= Len(rollback)
        /\ w.changedCells <= Len(changed')
        /\ \A l \in w.locks : l.id <= Len(rollback')
    BY <1>1, <1>2, <2>1, <2>2 DEF Refers
  <2> QED
    BY <1>2, <1>4, <2>1, <2>2, <2>3, <2>4, ReturnsType
<1>5. CASE Returns(j, v, {}) /\ UNCHANGED <<shared, unrecorded>>
  <2>1. UNCHANGED <<changed, rollback, unrecorded>>
    BY <1>5 DEF shared
  <2>2. {} \in SUBSET Parts
    OBVIOUS
  <2> QED
    BY <1>1, <1>2, <1>5, <2>1, <2>2, ReturnsType DEF Refers
<1> QED
  BY <1>3, <1>4, <1>5, Zenon DEF ClearCells, RenameCube

LEMMA GetServerCopyType ==
  ASSUME TypeInv, NEW j \in Job, GetServerCopy(j)
  PROVE  TypeInv'
<1>1. cube \in Version /\ Refers(cube)
  BY CopyType
<1>2. \A l \in cube.locks : l.id \in Nat /\ l.id <= Len(rollback)
  BY <1>1 DEF Version, Lock, Refers
<1>3. target' = target \/ \E l \in cube.locks : target' = [target EXCEPT ![j] = l.id]
  BY DEF GetServerCopy
<1>4. /\ target' \in [Job -> Nat]
      /\ \A k \in Job : target'[k] <= Len(rollback)
  BY <1>2, <1>3 DEF TypeInv, TypeOK, References
<1>5. /\ old' = [old EXCEPT ![j] = cube]
      /\ copy' = [copy EXCEPT ![j] = [v |-> cube, out |-> {}]]
      /\ pc' = [pc EXCEPT ![j] = "copied"]
      /\ UNCHANGED <<request, cube, rollback, changed, commitTry, up, before, unrecorded>>
  BY DEF GetServerCopy, shared, auxiliary
<1>6. TypeOK'
  BY <1>1, <1>4, <1>5 DEF TypeInv, TypeOK, Parts
<1>7. References'
  BY <1>1, <1>4, <1>5 DEF TypeInv, TypeOK, References, Refers
<1> QED
  BY <1>6, <1>7 DEF TypeInv

LEMMA FindCubeType ==
  ASSUME TypeInv, NEW j \in Job, FindCube(j)
  PROVE  TypeInv'
<1>1. CASE Crash \/ Throw(j)
  BY <1>1, CrashType, ThrowType
<1>2. CASE /\ pc' = [pc EXCEPT ![j] = IF Pessimistic(j) THEN "changed" ELSE "found"]
           /\ UNCHANGED <<request, cube, shared, commitTry, old, copy, target, up, auxiliary>>
  BY <1>2, MovesType DEF TypeInv, TypeOK
<1> QED
  BY <1>1, <1>2 DEF FindCube

LEMMA CommitType ==
  ASSUME TypeInv, NEW j \in Job, Commit(j)
  PROVE  TypeInv'
<1> DEFINE mine == copy[j].v
<1>1. /\ cube \in Version /\ Refers(cube) /\ mine \in Version /\ Refers(mine)
      /\ old[j] \in Version
  BY CopyType
<1>2. MergedLocks(j) \subseteq mine.locks \union cube.locks
  BY DEF MergedLocks
<1>3. /\ Merged(j) \in Version
      /\ Merged(j).locks \subseteq mine.locks \union cube.locks
      /\ Merged(j).changedCells \in {mine.changedCells, cube.changedCells}
  BY <1>1, <1>2 DEF Merged, Version
<1>4. cube' = Merged(j) /\ UNCHANGED <<request, rollback, changed, commitTry, old, copy, target, up>>
  BY DEF Commit, shared
<1>5. cube' \in Version /\ Refers(cube)'
  BY <1>1, <1>3, <1>4 DEF Refers
<1>6. /\ before' \in [Job -> [Cell -> Value]]
      /\ unrecorded' \subseteq Nat
  <2>1. before' = [before EXCEPT ![j] = cube'.cells]
    BY DEF Commit, Observe
  <2>2. cube'.cells \in [Cell -> Value]
    BY <1>5 DEF Version
  <2>3. unrecorded' \subseteq unrecorded \union {l.id : l \in cube.locks}
    BY DEF Commit, Observe
  <2>4. {l.id : l \in cube.locks} \subseteq Nat
    BY <1>1 DEF Version, Lock
  <2> QED
    BY <2>1, <2>2, <2>3, <2>4 DEF TypeInv, TypeOK
<1>7. pc' = [pc EXCEPT ![j] = "done"]
  BY DEF Commit
<1>8. TypeOK'
  BY <1>4, <1>5, <1>6, <1>7 DEF TypeInv, TypeOK
<1> QED
  BY <1>4, <1>5, <1>8 DEF TypeInv, References, Refers

LEMMA CommitPessimisticType ==
  ASSUME TypeInv, NEW j \in Job, CommitPessimistic(j)
  PROVE  TypeInv'
<1> DEFINE w == SetCellValue(j, cube)
<1> DEFINE new == [w.v EXCEPT !.number = @ + 1,
                     !.pagesVersion = IF "pages" \in w.out
                                      THEN cube.number + 1 ELSE @]
<1>1. CASE Throw(j)
  BY <1>1, ThrowType
<1>2. CASE /\ w.ok
           /\ changed' = w.changed
           /\ rollback' = w.rollback
           /\ cube' = new
           /\ Observe(j, cube)
           /\ pc' = [pc EXCEPT ![j] = "done"]
           /\ UNCHANGED <<request, commitTry, old, copy, target, up>>
  <2>1. cube \in Version /\ Refers(cube) /\ TypeOK
    BY CopyType DEF TypeInv
  <2>2. request[j].op = "replace"
    BY DEF CommitPessimistic, Pessimistic
  <2>3. /\ w.v \in Version
        /\ w.v.locks = cube.locks
        /\ w.changed \in Seq(Step) /\ Len(w.changed) >= Len(changed)
        /\ w.v.changedCells <= Len(w.changed)
        /\ w.rollback \in Seq(Seq(Step)) /\ Len(w.rollback) = Len(rollback)
    BY <1>2, <2>1, <2>2, SetCellValueType
  <2> HIDE DEF w
  <2>4. /\ new \in Version /\ new.locks = cube.locks
        /\ new.changedCells = w.v.changedCells
    <3> DEFINE p == IF "pages" \in w.out THEN cube.number + 1 ELSE w.v.pagesVersion
    <3>1. p \in Nat /\ w.v.number + 1 \in Nat
      <4>1. cube.number \in Nat
        BY <2>1 DEF Version
      <4>2. w.v.number \in Nat /\ w.v.pagesVersion \in Nat
        BY <2>3 DEF Version
      <4> QED
        BY <4>1, <4>2
    <3>2. new = [w.v EXCEPT !.number = w.v.number + 1, !.pagesVersion = p]
      BY <2>3 DEF Version
    <3> HIDE DEF p
    <3> QED
      BY <2>3, <3>1, <3>2 DEF Version
  <2> HIDE DEF new
  <2>5. /\ changed' \in Seq(Step) /\ rollback' \in Seq(Seq(Step))
        /\ Len(changed') \in Nat /\ Len(rollback') \in Nat
        /\ Len(changed') >= Len(changed) /\ Len(rollback') = Len(rollback)
        /\ Len(rollback') >= Len(rollback)
    BY <1>2, <2>1, <2>3 DEF TypeOK
  <2>6. cube' \in Version /\ Refers(cube)'
    BY <1>2, <2>1, <2>3, <2>4, <2>5 DEF Refers
  <2>7. /\ before' \in [Job -> [Cell -> Value]]
        /\ unrecorded' \subseteq Nat
    <3>1. before' = [before EXCEPT ![j] = cube'.cells]
      BY <1>2 DEF Observe
    <3>2. cube'.cells \in [Cell -> Value]
      BY <2>6 DEF Version
    <3>3. unrecorded' \subseteq unrecorded \union {l.id : l \in cube.locks}
      BY <1>2 DEF Observe
    <3>4. {l.id : l \in cube.locks} \subseteq Nat
      BY <2>1 DEF Version, Lock
    <3> QED
      BY <2>1, <3>1, <3>2, <3>3, <3>4 DEF TypeOK
  <2>8. TypeOK'
    BY <1>2, <2>1, <2>5, <2>6, <2>7 DEF TypeOK
  <2>9. ASSUME NEW k \in Job PROVE Refers(old[k])' /\ Refers(copy[k].v)'
    <3>1. /\ old[k] \in Version /\ Refers(old[k])
          /\ copy[k].v \in Version /\ Refers(copy[k].v)
      BY CopyType
    <3>2. old' = old /\ copy' = copy
      BY <1>2
    <3> QED
      BY <2>1, <2>5, <3>1, <3>2, StillRefers DEF Refers
  <2>10. \A k \in Job : target'[k] <= Len(rollback')
    BY <1>2, <2>5 DEF TypeInv, References
  <2> QED
    BY <2>6, <2>8, <2>9, <2>10 DEF TypeInv, References
<1> QED
  BY <1>1, <1>2, Zenon DEF CommitPessimistic

LEMMA CommitFailsType ==
  ASSUME TypeInv, NEW j \in Job, CommitFails(j)
  PROVE  TypeInv'
<1>1. \E p \in {"start", "found", "changed", "failed"} : pc' = [pc EXCEPT ![j] = p]
  BY DEF CommitFails
<1>2. commitTry' \in [Job -> Nat]
  BY DEF CommitFails, TypeInv, TypeOK
<1> QED
  BY <1>1, <1>2, MovesType DEF CommitFails

(* The variables keep their types, and a version never refers to a map of  *)
(* changed cells or a rollback storage that does not exist.                *)
THEOREM TypeCorrect == Spec => []TypeInv
<1>1. Init => TypeInv
  <2> SUFFICES ASSUME Init PROVE TypeInv
    OBVIOUS
  <2>1. cube \in Version /\ cube.locks = {} /\ cube.changedCells = 0
    BY DEF Init, Version, Value
  <2>2. rollback = <<>> /\ changed = <<>> /\ Len(rollback) = 0 /\ Len(changed) = 0
    BY DEF Init
  <2>3. /\ cube.cells \in [Cell -> Value]
        /\ rollback \in Seq(Seq(Step)) /\ changed \in Seq(Step)
    BY <2>1, <2>2 DEF Version
  <2>4. TypeOK
    BY <2>1, <2>3 DEF Init, TypeOK, Parts
  <2>5. References
    BY <2>1, <2>2 DEF Init, References, Refers
  <2> QED
    BY <2>4, <2>5 DEF TypeInv
<1>2. TypeInv /\ [Next]_vars => TypeInv'
  <2> SUFFICES ASSUME TypeInv, [Next]_vars PROVE TypeInv'
    OBVIOUS
  <2>1. ASSUME NEW j \in Job, LockCube(j) PROVE TypeInv'
    <3>1. CASE Call(j, "lock") /\ AddLock(j, request[j].area, FALSE)
      BY <3>1, AddLockType, RequestType DEF Call, TypeInv
    <3>2. CASE Call(j, "lock_complete") /\ AddLock(j, {}, TRUE)
      BY <3>2, AddLockType
    <3> QED
      BY <2>1, <3>1, <3>2 DEF LockCube
  <2>2. CASE UNCHANGED vars
    BY <2>2 DEF vars, shared, auxiliary, TypeInv, TypeOK, References, Refers
  <2> QED
    BY <2>1, <2>2, GetServerCopyType, FindCubeType, CommitCubeType,
       RollbackCubeType, ReplaceType, ClearOrRenameType, CommitType,
       CommitFailsType, CommitPessimisticType DEF Next
<1> QED
  BY <1>1, <1>2, PTL DEF Spec
-----------------------------------------------------------------------------
(* The strengthening for LocksHeld.  A lock is in the list of the latest   *)
(* version from the commit of the job that added it to the commit of one   *)
(* that removes it.                                                        *)
Locking(j) == request[j].op \in {"lock", "lock_complete"}

LockIds == {l.id : l \in cube.locks}

Removed == UNION {RemovedBy(j) : j \in Job}

(* The lock of a job that is on its way to the commit.                     *)
Fresh(j) ==
  IF pc[j] = "changed" /\ Locking(j) THEN copy[j].v.locks \ old[j].locks ELSE {}

(* What a job did to the list of its copy.                                 *)
Follows(j) ==
  /\ pc[j] \in {"copied", "found"} =>
       copy[j].v.locks = old[j].locks /\ copy[j].out = {}
  /\ pc[j] \in {"changed", "done"} =>
       /\ "locks" \in copy[j].out <=> Locking(j) \/ Unlocks(j)
       /\ Locking(j) => \E l \in copy[j].v.locks \ old[j].locks :
                          copy[j].v.locks = old[j].locks \union {l}
       /\ Unlocks(j) =>
            /\ \E l \in old[j].locks : l.id = target[j]
            /\ copy[j].v.locks = {l \in old[j].locks : l.id # target[j]}

CopyFollows == \A j \in Job : Follows(j)

(* An identifier names one lock.                                           *)
IdsNameLocks ==
  /\ \A l, m \in cube.locks : l.id = m.id => l = m
  /\ \A j \in Job : \A l \in old[j].locks, m \in cube.locks : l.id = m.id => l = m

(* Locks that were in the list once are there or were removed.             *)
NoneForgotten ==
  \A j \in Job :
    /\ \A l \in old[j].locks \union Added(j) : l \in cube.locks \/ l.id \in Removed
    /\ target[j] # 0 => target[j] \in LockIds \union Removed

NoneReturns == \A l \in cube.locks : l.id \notin Removed

FreshIsNew ==
  /\ \A j \in Job : \A l \in Fresh(j) : l.id \notin LockIds \union Removed
  /\ \A j, k \in Job : \A l \in Fresh(j), m \in Fresh(k) : j # k => l.id # m.id

LocksInv ==
  CopyFollows /\ IdsNameLocks /\ NoneForgotten /\ NoneReturns /\ FreshIsNew

(* A step of j that neither is nor was its commit.                         *)
OtherJobsStay(j) ==
  /\ pc[j] # "done" /\ pc'[j] # "done"
  /\ request' = request
  /\ \A k \in Job \ {j} : /\ pc'[k] = pc[k] /\ copy'[k] = copy[k]
                          /\ old'[k] = old[k] /\ target'[k] = target[k]

LEMMA NothingCommitted ==
  ASSUME NEW j \in Job, OtherJobsStay(j)
  PROVE  /\ \A k \in Job : RemovedBy(k)' = RemovedBy(k) /\ Added(k)' = Added(k)
         /\ \A k \in Job \ {j} : Fresh(k)' = Fresh(k)
         /\ Removed' = Removed
<1>1. ASSUME NEW k \in Job
      PROVE  RemovedBy(k)' = RemovedBy(k) /\ Added(k)' = Added(k)
  BY DEF OtherJobsStay, RemovedBy, Added, Unlocks
<1>2. ASSUME NEW k \in Job \ {j} PROVE Fresh(k)' = Fresh(k)
  BY DEF OtherJobsStay, Fresh, Locking
<1>3. Removed' = Removed
  BY <1>1 DEF Removed
<1> QED
  BY <1>1, <1>2, <1>3

(* Without a commit the history of the locks is what it was; a new copy    *)
(* and the lock a job names come from the latest version.                  *)
LEMMA HistoryKept ==
  ASSUME LocksInv, NEW j \in Job, OtherJobsStay(j), cube' = cube,
         old'[j] = old[j] \/ old'[j] = cube,
         target'[j] = target[j] \/ target'[j] \in LockIds
  PROVE  IdsNameLocks' /\ NoneForgotten' /\ NoneReturns'
<1>1. /\ \A k \in Job : Added(k)' = Added(k)
      /\ Removed' = Removed
  BY NothingCommitted
<1>2. LockIds' = LockIds
  BY DEF LockIds
<1>3. \A k \in Job : old'[k] = old[k] \/ old'[k] = cube
  BY DEF OtherJobsStay
<1>4. \A k \in Job : target'[k] = target[k] \/ target'[k] \in LockIds
  BY DEF OtherJobsStay
<1>5. IdsNameLocks'
  BY <1>3 DEF LocksInv, IdsNameLocks
<1>6. NoneForgotten'
  BY <1>1, <1>2, <1>3, <1>4 DEF LocksInv, NoneForgotten
<1>7. NoneReturns'
  BY <1>1 DEF LocksInv, NoneReturns
<1> QED
  BY <1>5, <1>6, <1>7

LEMMA FreshKept ==
  ASSUME LocksInv, NEW j \in Job, OtherJobsStay(j), cube' = cube,
         Fresh(j)' \subseteq Fresh(j)
  PROVE  FreshIsNew'
<1>1. /\ \A k \in Job \ {j} : Fresh(k)' = Fresh(k)
      /\ Removed' = Removed /\ LockIds' = LockIds
  BY NothingCommitted DEF LockIds
<1>2. \A k \in Job : Fresh(k)' \subseteq Fresh(k)
  BY <1>1
<1> QED
  BY <1>1, <1>2 DEF LocksInv, FreshIsNew

(* A job that moves without a commit and keeps its copy.                   *)
LEMMA LocksMove ==
  ASSUME TypeInv, LocksInv, NEW j \in Job, NEW p, pc' = [pc EXCEPT ![j] = p],
         pc[j] # "done", UNCHANGED <<request, cube, old, copy, target>>,
         \/ p \in {"start", "failed"}
         \/ p = "found" /\ pc[j] = "copied"
         \/ p = "changed" /\ pc[j] = "copied" /\ request[j].op = "replace"
  PROVE  LocksInv'
<1>1. pc'[j] = p /\ \A k \in Job \ {j} : pc'[k] = pc[k]
  BY DEF TypeInv, TypeOK
<1>2. OtherJobsStay(j)
  BY <1>1 DEF OtherJobsStay
<1>3. Fresh(j)' \subseteq Fresh(j)
  BY <1>1 DEF Fresh, Locking
<1>4. CopyFollows'
  <2>1. \A k \in Job \ {j} : pc'[k] = pc[k]
    BY <1>1
  <2>2. request[j].op = "replace" => ~Locking(j) /\ ~Unlocks(j)
    BY DEF Locking, Unlocks
  <2>3. ASSUME NEW k \in Job
        PROVE  Locking(k)' = Locking(k) /\ Unlocks(k)' = Unlocks(k)
    BY DEF Locking, Unlocks
  <2> QED
    BY <1>1, <2>1, <2>2, <2>3 DEF LocksInv, CopyFollows, Follows
<1> QED
  BY <1>2, <1>3, <1>4, HistoryKept, FreshKept DEF LocksInv

LEMMA LocksThrow ==
  ASSUME TypeInv, LocksInv, NEW j \in Job, Throw(j), pc[j] # "done"
  PROVE  LocksInv'
<1>1. /\ pc' = [pc EXCEPT ![j] = "failed"]
      /\ UNCHANGED <<request, cube, old, copy, target>>
  BY DEF Throw
<1> QED
  BY <1>1, LocksMove

LEMMA LocksStay ==
  ASSUME LocksInv, UNCHANGED <<request, cube, pc, old, copy, target>>
  PROVE  LocksInv'
<1>1. ASSUME NEW k \in Job
      PROVE  /\ RemovedBy(k)' = RemovedBy(k) /\ Added(k)' = Added(k)
             /\ Fresh(k)' = Fresh(k) /\ Locking(k)' = Locking(k)
             /\ Unlocks(k)' = Unlocks(k)
  BY DEF RemovedBy, Added, Unlocks, Fresh, Locking
<1>2. Removed' = Removed /\ LockIds' = LockIds
  BY <1>1 DEF Removed, LockIds
<1> QED
  BY <1>1, <1>2 DEF LocksInv, CopyFollows, Follows, IdsNameLocks, NoneForgotten,
                    NoneReturns, FreshIsNew

LEMMA LocksGetServerCopy ==
  ASSUME TypeInv, LocksInv, NEW j \in Job, GetServerCopy(j)
  PROVE  LocksInv'
<1>1. /\ pc[j] = "start" /\ pc' = [pc EXCEPT ![j] = "copied"]
      /\ old' = [old EXCEPT ![j] = cube]
      /\ copy' = [copy EXCEPT ![j] = [v |-> cube, out |-> {}]]
      /\ request' = request /\ cube' = cube
      /\ target' = target \/ \E l \in cube.locks : target' = [target EXCEPT ![j] = l.id]
  BY DEF GetServerCopy
<1>2. /\ pc'[j] = "copied" /\ old'[j] = cube /\ copy'[j].v = cube /\ copy'[j].out = {}
      /\ target'[j] = target[j] \/ target'[j] \in LockIds
      /\ \A k \in Job \ {j} : /\ pc'[k] = pc[k] /\ copy'[k] = copy[k]
                              /\ old'[k] = old[k] /\ target'[k] = target[k]
  BY <1>1 DEF TypeInv, TypeOK, LockIds
<1>3. OtherJobsStay(j)
  BY <1>1, <1>2 DEF OtherJobsStay
<1>4. Fresh(j)' \subseteq Fresh(j)
  BY <1>2 DEF Fresh
<1>5. CopyFollows'
  <2>1. ASSUME NEW k \in Job
        PROVE  Locking(k)' = Locking(k) /\ Unlocks(k)' = (Unlocks(k))
    BY <1>1 DEF Locking, Unlocks
  <2> QED
    BY <1>2, <2>1 DEF LocksInv, CopyFollows, Follows
<1> QED
  BY <1>1, <1>2, <1>3, <1>4, <1>5, HistoryKept, FreshKept DEF LocksInv

(* What the return of a call changes.                                      *)
LEMMA ReturnsMoves ==
  ASSUME TypeInv, NEW j \in Job, NEW v, NEW out, Returns(j, v, out),
         pc[j] = "found"
  PROVE  /\ OtherJobsStay(j) /\ cube' = cube
         /\ pc'[j] = "changed" /\ copy'[j].v = v /\ copy'[j].out = out
         /\ old'[j] = old[j] /\ target'[j] = target[j]
BY DEF Returns, TypeInv, TypeOK, OtherJobsStay

LEMMA LocksReturns ==
  ASSUME TypeInv, LocksInv, NEW j \in Job, NEW v, NEW out, Returns(j, v, out),
         pc[j] = "found", ~Locking(j),
         "locks" \in out <=> Unlocks(j),
         Unlocks(j) => /\ \E l \in copy[j].v.locks : l.id = target[j]
                       /\ v.locks = {l \in copy[j].v.locks : l.id # target[j]}
  PROVE  LocksInv'
<1>1. /\ OtherJobsStay(j) /\ cube' = cube
      /\ pc'[j] = "changed" /\ copy'[j].v = v /\ copy'[j].out = out
      /\ old'[j] = old[j] /\ target'[j] = target[j]
  BY ReturnsMoves
<1>2. ASSUME NEW k \in Job
      PROVE  Locking(k)' = Locking(k) /\ Unlocks(k)' = (Unlocks(k))
  BY <1>1 DEF OtherJobsStay, Locking, Unlocks
<1>3. Fresh(j)' \subseteq Fresh(j)
  BY <1>2 DEF Fresh
<1>4. copy[j].v.locks = old[j].locks
  BY DEF LocksInv, CopyFollows, Follows
<1>5. CopyFollows'
  BY <1>1, <1>2, <1>4 DEF LocksInv, CopyFollows, Follows, OtherJobsStay
<1> QED
  BY <1>1, <1>3, <1>5, HistoryKept, FreshKept DEF LocksInv

(* The identifiers given so far do not reach beyond the storages.          *)
LEMMA IdsIssued ==
  ASSUME TypeInv, LocksInv
  PROVE  /\ \A id \in LockIds \union Removed : id \in Nat /\ id <= Len(rollback)
         /\ \A j \in Job : \A l \in old[j].locks \union copy[j].v.locks :
              l.id \in Nat /\ l.id <= Len(rollback)
<1>1. ASSUME NEW v \in Version, Refers(v), NEW l \in v.locks
      PROVE  l.id \in Nat /\ l.id <= Len(rollback)
  BY <1>1 DEF Version, Lock, Refers
<1>2. \A j \in Job : target[j] \in Nat /\ target[j] <= Len(rollback)
  BY DEF TypeInv, TypeOK, References
<1>3. \A id \in Removed : \E j \in Job : id = target[j]
  BY DEF Removed, RemovedBy
<1>4. cube \in Version /\ Refers(cube)
  BY DEF TypeInv, TypeOK, References
<1> QED
  BY <1>1, <1>2, <1>3, <1>4, CopyType DEF LockIds

LEMMA LocksAddLock ==
  ASSUME TypeInv, LocksInv, NEW j \in Job, NEW area, NEW whole \in BOOLEAN,
         AddLock(j, area, whole), pc[j] = "found", Locking(j)
  PROVE  LocksInv'
<1> DEFINE v == copy[j].v
<1> DEFINE l == [id |-> Len(rollback) + 1, user |-> request[j].user,
                 area |-> area, whole |-> whole]
<1> DEFINE w == [v EXCEPT !.locks = @ \union {l}, !.hasLock = TRUE,
                          !.wholeCubeLocked = whole]
<1>1. CASE Crash
  BY <1>1, LocksStay DEF Crash
<1>2. CASE Throw(j)
  BY <1>2, LocksThrow
<1>3. CASE Returns(j, w, {"locks"})
  <2>1. /\ OtherJobsStay(j) /\ cube' = cube
        /\ pc'[j] = "changed" /\ copy'[j].v = w /\ copy'[j].out = {"locks"}
        /\ old'[j] = old[j] /\ target'[j] = target[j]
    <3> HIDE DEF w
    <3> QED
      BY <1>3, ReturnsMoves
  <2>2. v.locks = old[j].locks
    BY DEF LocksInv, CopyFollows, Follows
  <2>3. w.locks = old[j].locks \union {l}
    BY <2>2, CopyType DEF Version
  <2>4. l.id = Len(rollback) + 1 /\ Len(rollback) \in Nat
    BY DEF TypeInv, TypeOK
  <2>5. l \notin old[j].locks
    BY <2>4, IdsIssued
  <2>6. Locking(j)' /\ ~Unlocks(j)'
    BY <2>1 DEF OtherJobsStay, Locking, Unlocks
  <2>7. Fresh(j)' = {l}
    BY <2>1, <2>3, <2>5, <2>6 DEF Fresh
  <2>8. CopyFollows'
    <3>1. ASSUME NEW k \in Job \ {j}
          PROVE  Locking(k)' = Locking(k) /\ Unlocks(k)' = (Unlocks(k))
      BY <2>1 DEF OtherJobsStay, Locking, Unlocks
    <3>2. /\ "locks" \in copy'[j].out
          /\ l \in copy'[j].v.locks \ old'[j].locks
          /\ copy'[j].v.locks = old'[j].locks \union {l}
      BY <2>1, <2>3, <2>5
    <3> HIDE DEF l, w
    <3>3. Follows(j)'
      BY <2>1, <2>6, <3>2 DEF Follows
    <3>4. ASSUME NEW k \in Job \ {j} PROVE Follows(k)'
      BY <2>1, <3>1 DEF LocksInv, CopyFollows, Follows, OtherJobsStay
    <3> QED
      BY <3>3, <3>4 DEF CopyFollows
  <2>9. /\ \A k \in Job \ {j} : Fresh(k)' = Fresh(k)
        /\ Removed' = Removed /\ LockIds' = LockIds
    BY <2>1, NothingCommitted DEF LockIds
  <2>10. l.id \notin LockIds \union Removed
    BY <2>4, IdsIssued
  <2>11. \A k \in Job : \A m \in Fresh(k) : l.id # m.id
    <3>1. \A k \in Job : Fresh(k) \subseteq copy[k].v.locks
      BY DEF Fresh
    <3> QED
      BY <2>4, <3>1, IdsIssued
  <2>12. FreshIsNew'
    <3> HIDE DEF l
    <3> QED
      BY <2>7, <2>9, <2>10, <2>11 DEF LocksInv, FreshIsNew
  <2> QED
    BY <2>1, <2>8, <2>12, HistoryKept DEF LocksInv
<1> QED
  BY <1>1, <1>2, <1>3, Zenon DEF AddLock

(* The other calls.                                                        *)
LEMMA LocksCalls ==
  ASSUME TypeInv, LocksInv, NEW j \in Job,
         \/ CommitCube(j) \/ RollbackCube(j) \/ Replace(j)
         \/ ClearCells(j) \/ RenameCube(j)
  PROVE  LocksInv'
<1> DEFINE v == copy[j].v
<1>1. pc[j] = "found" /\ ~Locking(j)
  BY DEF CommitCube, RollbackCube, Replace, ClearCells, RenameCube, Call, Locking
<1>2. CASE Throw(j)
  BY <1>1, <1>2, LocksThrow
<1>3. v \in Version /\ Refers(v) /\ TypeOK
  BY CopyType DEF TypeInv
<1>4. MayUnlock(j) => \E l \in v.locks : l.id = target[j]
  BY DEF MayUnlock
<1>5. \A m, x : "locks" \notin Written(m, x)
  BY DEF Written
<1>6. ASSUME CommitCube(j), ~Throw(j) PROVE LocksInv'
  <2> DEFINE w == RemoveLock(v, target[j])
  <2>1. Unlocks(j) /\ MayUnlock(j)
    BY <1>6 DEF CommitCube, Call, Unlocks
  <2>2. w.locks = {l \in v.locks : l.id # target[j]}
    BY <1>3, RemoveLockType
  <2>3. CASE Returns(j, w, {"locks"})
    <3> HIDE DEF w
    <3> QED
      BY <1>1, <1>4, <2>1, <2>2, <2>3, LocksReturns
  <2>4. CASE Returns(j, [Stored(w, << >>) EXCEPT !.wholeCubeLocked = FALSE],
                     {"locks"} \union Written(v, << >>))
    <3>1. [Stored(w, << >>) EXCEPT !.wholeCubeLocked = FALSE].locks = w.locks
      <4>1. w \in Version
        BY <1>3, RemoveLockType
      <4> HIDE DEF w
      <4> QED
        BY <4>1 DEF Stored, Version
    <3> HIDE DEF w
    <3> QED
      BY <1>1, <1>4, <2>1, <2>2, <2>4, <3>1, LocksReturns
  <2> QED
    BY <1>6, <2>3, <2>4, Zenon DEF CommitCube
<1>7. ASSUME RollbackCube(j), ~Throw(j) PROVE LocksInv'
  <2> DEFINE id == target[j]
  <2> DEFINE n == IF request[j].steps = 0 \/ request[j].steps > Len(rollback[id])
                  THEN Len(rollback[id]) ELSE request[j].steps
  <2> DEFINE undo == Undone(rollback[id], n)
  <2> DEFINE w == IF request[j].steps = 0 THEN RemoveLock(v, id) ELSE v
  <2> DEFINE out == Written(v, undo) \union
                      (IF request[j].steps = 0 THEN {"locks"} ELSE {})
  <2>1. /\ MayUnlock(j) /\ request[j].op = "rollback"
        /\ Returns(j, Stored(w, undo), out)
    BY <1>7, Zenon DEF RollbackCube, Call
  <2>2. Unlocks(j) <=> request[j].steps = 0
    BY <2>1 DEF Unlocks
  <2>3. "locks" \in out <=> Unlocks(j)
    BY <1>5, <2>2
  <2>4. w \in Version /\ (Unlocks(j) => w.locks = {l \in v.locks : l.id # id})
    BY <1>3, <2>2, RemoveLockType
  <2>5. Stored(w, undo).locks = w.locks
    <3> HIDE DEF w, undo
    <3> QED
      BY <2>4 DEF Stored, Version
  <2> HIDE DEF w, undo, out
  <2> QED
    BY <1>1, <1>4, <2>1, <2>3, <2>4, <2>5, LocksReturns
<1>8. ASSUME Replace(j), ~Throw(j) PROVE LocksInv'
  <2> DEFINE w == SetCellValue(j, v)
  <2>1. w.ok /\ Returns(j, w.v, w.out) /\ request[j].op = "replace"
    BY <1>8, Zenon DEF Replace, Call
  <2>2. w.out \in SUBSET {"storage", "pages"}
    BY <1>3, <2>1, SetCellValueType
  <2>3. ~Unlocks(j)
    BY <2>1 DEF Unlocks
  <2> HIDE DEF w
  <2> QED
    BY <1>1, <2>1, <2>2, <2>3, LocksReturns
<1>9. ASSUME ClearCells(j), ~Throw(j) PROVE LocksInv'
  <2>1. /\ Returns(j, [v EXCEPT !.cells = [c \in Cell |-> Loaded],
                                !.changedCells = 0], {"storage", "pages"})
        /\ request[j].op = "clear"
    BY <1>9, Zenon DEF ClearCells, Call
  <2>2. ~Unlocks(j)
    BY <2>1 DEF Unlocks
  <2> QED
    BY <1>1, <2>1, <2>2, LocksReturns
<1>10. ASSUME RenameCube(j) PROVE LocksInv'
  <2>1. Returns(j, v, {}) /\ request[j].op = "rename"
    BY <1>10 DEF RenameCube, Call
  <2>2. ~Unlocks(j)
    BY <2>1 DEF Unlocks
  <2> QED
    BY <1>1, <2>1, <2>2, LocksReturns
<1> QED
  BY <1>2, <1>6, <1>7, <1>8, <1>9, <1>10

(* What a commit does to the list of the latest version: the merge adds    *)
(* the job's lock, or removes the lock the job names, and nothing else.    *)
LockListAfter(j) ==
  IF Locking(j) THEN cube.locks \union Fresh(j)
  ELSE IF Unlocks(j) THEN {l \in cube.locks : l.id # target[j]}
  ELSE cube.locks

LEMMA MergedLocksAre ==
  ASSUME TypeInv, LocksInv, NEW j \in Job, pc[j] = "changed"
  PROVE  Merged(j).locks = LockListAfter(j)
<1>1. Follows(j)
  BY DEF LocksInv, CopyFollows
<1>2. Merged(j).locks = IF "locks" \in copy[j].out THEN MergedLocks(j) ELSE cube.locks
  BY DEF Merged
<1>3. ~(Locking(j) /\ Unlocks(j))
  BY DEF Locking, Unlocks
<1>4. CASE Locking(j)
  <2>1. PICK l \in copy[j].v.locks \ old[j].locks :
          copy[j].v.locks = old[j].locks \union {l}
    BY <1>1, <1>4 DEF Follows
  <2>2. MergedLocks(j) = cube.locks \union {l}
    BY <2>1 DEF MergedLocks
  <2>3. Fresh(j) = {l}
    BY <1>4, <2>1 DEF Fresh
  <2> QED
    BY <1>1, <1>2, <1>4, <2>2, <2>3 DEF Follows, LockListAfter
<1>5. CASE Unlocks(j)
  <2>1. PICK t \in old[j].locks : t.id = target[j]
    BY <1>1, <1>5 DEF Follows
  <2>2. copy[j].v.locks = {l \in old[j].locks : l.id # target[j]}
    BY <1>1, <1>5 DEF Follows
  <2>3. \A l \in cube.locks : l.id = target[j] => l \in old[j].locks
    BY <2>1 DEF LocksInv, IdsNameLocks
  <2>4. MergedLocks(j) = {l \in cube.locks : l.id # target[j]}
    BY <2>2, <2>3 DEF MergedLocks
  <2> QED
    BY <1>1, <1>2, <1>3, <1>5, <2>4 DEF Follows, LockListAfter
<1>6. CASE ~Locking(j) /\ ~Unlocks(j)
  BY <1>1, <1>2, <1>6 DEF Follows, LockListAfter
<1> QED
  BY <1>4, <1>5, <1>6

LEMMA LocksDone ==
  ASSUME TypeInv, LocksInv, NEW j \in Job, pc[j] = "changed",
         pc' = [pc EXCEPT ![j] = "done"],
         UNCHANGED <<request, old, copy, target>>,
         cube'.locks = LockListAfter(j)
  PROVE  LocksInv'
<1>1. pc'[j] = "done" /\ \A k \in Job \ {j} : pc'[k] = pc[k]
  BY DEF TypeInv, TypeOK
<1>2. ASSUME NEW k \in Job
      PROVE  Locking(k)' = Locking(k) /\ Unlocks(k)' = Unlocks(k)
  BY DEF Locking, Unlocks
<1>3. ~(Locking(j) /\ Unlocks(j))
  BY DEF Locking, Unlocks
<1>4. ASSUME NEW k \in Job \ {j}
      PROVE  /\ RemovedBy(k)' = RemovedBy(k) /\ Added(k)' = Added(k)
             /\ Fresh(k)' = Fresh(k)
  BY <1>1, <1>2 DEF RemovedBy, Added, Fresh
<1>5. /\ RemovedBy(j) = {} /\ RemovedBy(j)' = IF Unlocks(j) THEN {target[j]} ELSE {}
      /\ Added(j)' = Fresh(j) /\ Fresh(j)' = {}
      /\ Locking(j) \/ Fresh(j) = {}
  BY <1>1, <1>2 DEF RemovedBy, Added, Fresh, Locking
<1>6. Removed' = Removed \union (IF Unlocks(j) THEN {target[j]} ELSE {})
  BY <1>4, <1>5 DEF Removed
<1>7. /\ \A l \in cube.locks : l \in cube'.locks \/ l.id \in Removed'
      /\ \A l \in cube'.locks : l \in cube.locks \/ l \in Fresh(j)
      /\ Fresh(j) \subseteq cube'.locks
  BY <1>3, <1>5, <1>6 DEF LockListAfter
<1>8. Removed \subseteq Removed' /\ LockIds \subseteq LockIds' \union Removed'
  BY <1>6, <1>7 DEF LockIds
<1>9. /\ \A k \in Job : \A l \in old[k].locks : l.id \in LockIds \union Removed
      /\ \A l \in Fresh(j) : l.id \notin LockIds \union Removed
  BY DEF LocksInv, NoneForgotten, FreshIsNew, LockIds
<1>10. \A l, m \in Fresh(j) : l = m
  BY DEF Fresh, LocksInv, CopyFollows, Follows
<1>11. CopyFollows'
  <2>1. Follows(j)
    BY DEF LocksInv, CopyFollows
  <2>2. Follows(j)'
    BY <1>1, <1>2, <2>1 DEF Follows
  <2>3. ASSUME NEW k \in Job \ {j} PROVE Follows(k)'
    <3>1. Follows(k)
      BY DEF LocksInv, CopyFollows
    <3> QED
      BY <1>1, <1>2, <3>1 DEF Follows
  <2> QED
    BY <2>2, <2>3 DEF CopyFollows
<1>12. IdsNameLocks'
  <2>1. \A l, m \in cube'.locks : l.id = m.id => l = m
    BY <1>7, <1>9, <1>10 DEF LocksInv, IdsNameLocks, LockIds
  <2>2. ASSUME NEW k \in Job, NEW l \in old[k].locks, NEW m \in cube'.locks, l.id = m.id
        PROVE  l = m
    <3>1. m \in cube.locks
      BY <1>7, <1>9, <2>2
    <3> QED
      BY <2>2, <3>1 DEF LocksInv, IdsNameLocks
  <2> QED
    BY <2>1, <2>2 DEF IdsNameLocks
<1>13. NoneForgotten'
  <2>1. ASSUME NEW k \in Job, NEW l \in old[k].locks \union Added(k)'
        PROVE  l \in cube'.locks \/ l.id \in Removed'
    <3>1. CASE l \in old[k].locks \union Added(k)
      BY <1>7, <1>8, <3>1 DEF LocksInv, NoneForgotten
    <3>2. CASE l \in Fresh(j)
      BY <1>7, <3>2
    <3> QED
      BY <1>4, <1>5, <3>1, <3>2
  <2>2. ASSUME NEW k \in Job, target[k] # 0
        PROVE  target[k] \in LockIds' \union Removed'
    BY <1>8, <2>2 DEF LocksInv, NoneForgotten
  <2> QED
    BY <2>1, <2>2 DEF NoneForgotten
<1>14. NoneReturns'
  <2> SUFFICES ASSUME NEW l \in cube'.locks PROVE l.id \notin Removed'
    BY DEF NoneReturns
  <2>1. CASE l \in cube.locks
    <3>1. l.id \notin Removed
      BY <2>1 DEF LocksInv, NoneReturns
    <3>2. Unlocks(j) => l.id # target[j]
      BY <1>3 DEF LockListAfter
    <3> QED
      BY <1>6, <3>1, <3>2
  <2>2. CASE l \in Fresh(j)
    BY <1>3, <1>5, <1>6, <1>9, <2>2
  <2> QED
    BY <1>7, <2>1, <2>2
<1>15. FreshIsNew'
  <2>1. ASSUME NEW k \in Job, NEW l \in Fresh(k)'
        PROVE  /\ k # j /\ l \in Fresh(k) /\ l.id \notin LockIds \union Removed
    BY <1>4, <1>5 DEF LocksInv, FreshIsNew
  <2>2. ASSUME NEW k \in Job, NEW l \in Fresh(k)'
        PROVE  l.id \notin LockIds' \union Removed'
    <3>1. \A m \in Fresh(j) : l.id # m.id
      BY <2>1 DEF LocksInv, FreshIsNew
    <3>2. l.id \notin LockIds'
      BY <1>7, <2>1, <3>1 DEF LockIds
    <3>3. Unlocks(j) => target[j] \in LockIds \union Removed
      <4>1. Unlocks(j) => \E t \in old[j].locks : t.id = target[j]
        BY DEF LocksInv, CopyFollows, Follows
      <4> QED
        BY <1>9, <4>1
    <3> QED
      BY <1>6, <2>1, <3>2, <3>3
  <2> QED
    BY <2>1, <2>2 DEF LocksInv, FreshIsNew
<1> QED
  BY <1>11, <1>12, <1>13, <1>14, <1>15 DEF LocksInv

LEMMA LocksCommit ==
  ASSUME TypeInv, LocksInv, NEW j \in Job, Commit(j) \/ CommitPessimistic(j)
  PROVE  LocksInv'
<1>1. CASE Commit(j)
  <2>1. /\ pc[j] = "changed" /\ pc' = [pc EXCEPT ![j] = "done"]
        /\ UNCHANGED <<request, old, copy, target>> /\ cube' = Merged(j)
    BY <1>1 DEF Commit
  <2> QED
    BY <2>1, MergedLocksAre, LocksDone
<1>2. CASE Throw(j)
  BY <1>2, LocksThrow DEF Commit, CommitPessimistic
<1>3. CASE CommitPessimistic(j) /\ ~Throw(j)
  <2> DEFINE w == SetCellValue(j, cube)
  <2> DEFINE new == [w.v EXCEPT !.number = @ + 1,
                       !.pagesVersion = IF "pages" \in w.out
                                        THEN cube.number + 1 ELSE @]
  <2>1. /\ pc[j] = "changed" /\ request[j].op = "replace" /\ w.ok
        /\ pc' = [pc EXCEPT ![j] = "done"]
        /\ UNCHANGED <<request, old, copy, target>> /\ cube' = new
    BY <1>3, Zenon DEF CommitPessimistic, Pessimistic
  <2>2. w.v \in Version /\ w.v.locks = cube.locks
    BY <2>1, CopyType, SetCellValueType DEF TypeInv
  <2>3. new.locks = cube.locks
    <3> HIDE DEF w
    <3> QED
      BY <2>2 DEF Version
  <2>4. LockListAfter(j) = cube.locks
    BY <2>1 DEF LockListAfter, Locking, Unlocks
  <2> HIDE DEF new
  <2> QED
    BY <2>1, <2>3, <2>4, LocksDone
<1> QED
  BY <1>1, <1>2, <1>3

LEMMA LocksStep ==
  ASSUME TypeInv, LocksInv, [Next]_vars
  PROVE  LocksInv'
<1>1. ASSUME NEW j \in Job, FindCube(j) PROVE LocksInv'
  <2>1. CASE Crash
    BY <2>1, LocksStay DEF Crash
  <2>2. CASE Throw(j)
    BY <1>1, <2>2, LocksThrow DEF FindCube
  <2>3. CASE /\ pc' = [pc EXCEPT ![j] = IF Pessimistic(j) THEN "changed" ELSE "found"]
             /\ UNCHANGED <<request, cube, shared, commitTry, old, copy, target, up, auxiliary>>
    BY <1>1, <2>3, LocksMove DEF FindCube, Pessimistic
  <2> QED
    BY <1>1, <2>1, <2>2, <2>3, Zenon DEF FindCube
<1>2. ASSUME NEW j \in Job, LockCube(j) PROVE LocksInv'
  <2>1. CASE Call(j, "lock") /\ AddLock(j, request[j].area, FALSE)
    BY <2>1, LocksAddLock DEF Call, Locking
  <2>2. CASE Call(j, "lock_complete") /\ AddLock(j, {}, TRUE)
    BY <2>2, LocksAddLock DEF Call, Locking
  <2> QED
    BY <1>2, <2>1, <2>2 DEF LockCube
<1>3. ASSUME NEW j \in Job, CommitFails(j) PROVE LocksInv'
  <2>1. PICK p \in {"start", "failed"} : pc' = [pc EXCEPT ![j] = p]
    BY <1>3 DEF CommitFails
  <2> QED
    BY <1>3, <2>1, LocksMove DEF CommitFails
<1>4. CASE UNCHANGED vars
  BY <1>4, LocksStay DEF vars
<1> QED
  BY <1>1, <1>2, <1>3, <1>4, LocksGetServerCopy, LocksCalls, LocksCommit DEF Next

LEMMA LocksStart == Init => LocksInv
<1> SUFFICES ASSUME Init PROVE LocksInv
  OBVIOUS
<1>1. /\ cube.locks = {}
      /\ \A j \in Job : pc[j] = "start" /\ target[j] = 0 /\ old[j].locks = {}
  BY DEF Init
<1>2. /\ \A j \in Job : RemovedBy(j) = {} /\ Added(j) = {} /\ Fresh(j) = {}
  BY <1>1 DEF RemovedBy, Added, Fresh
<1> QED
  BY <1>1, <1>2 DEF LocksInv, CopyFollows, Follows, IdsNameLocks, NoneForgotten,
                    NoneReturns, FreshIsNew

(* A lock that was answered is held until its removal is answered, and     *)
(* does not come back, whatever requests are merged.                       *)
THEOREM LocksHeldCorrect == Spec => []LocksHeld
<1>1. Init => LocksInv
  BY LocksStart
<1>2. TypeInv /\ LocksInv /\ [Next]_vars => LocksInv'
  BY LocksStep
<1>3. LocksInv => LocksHeld
  <2> SUFFICES ASSUME LocksInv, NEW j \in Job, NEW l \in Added(j)
               PROVE  l \in cube.locks <=> \A k \in Job : l.id \notin RemovedBy(k)
    BY DEF LocksHeld
  <2>1. l.id \in Removed <=> \E k \in Job : l.id \in RemovedBy(k)
    BY DEF Removed
  <2> QED
    BY <2>1 DEF LocksInv, NoneForgotten, NoneReturns
<1> QED
  BY <1>1, <1>2, <1>3, TypeCorrect, PTL DEF Spec
-----------------------------------------------------------------------------
(* The strengthening for UndoRestoresArea, first what needs no rollback    *)
(* storage.  Changed cells wait in a version only while it is locked as a  *)
(* whole, and then the lock is in its list, unless the list is empty.      *)
Regular(v) ==
  /\ v.changedCells # 0 => v.wholeCubeLocked
  /\ v.wholeCubeLocked => v.locks = {} \/ \E l \in v.locks : l.whole
  /\ \A l \in v.locks : l.whole => l.area = {}

(* The numbers of commits tell lists of locks and pages apart.             *)
NumbersNameParts ==
  /\ cube.pagesVersion <= cube.number /\ cube.locksVersion <= cube.number
  /\ \A k \in Job :
       /\ old[k].pagesVersion <= cube.number /\ old[k].locksVersion <= cube.number
       /\ old[k].pagesVersion = cube.pagesVersion => old[k].cells = cube.cells
       /\ old[k].locksVersion = cube.locksVersion => old[k].locks = cube.locks

(* What a job did to its copy.                                             *)
Changes(k) ==
  /\ Regular(old[k]) /\ Regular(copy[k].v)
  /\ copy[k].v.locksVersion = old[k].locksVersion
  /\ pc[k] \in {"copied", "found"} => copy[k].v = old[k]
  /\ pc[k] = "found" => ~old[k].wholeCubeLocked \/ old[k].locks # {}
  /\ pc[k] = "changed" =>
       /\ "storage" \notin copy[k].out /\ old[k].wholeCubeLocked
            => copy[k].v.wholeCubeLocked
       /\ "locks" \notin copy[k].out => copy[k].v.locks = old[k].locks
       /\ Locking(k) =>
            /\ copy[k].out = {"locks"}
            /\ copy[k].v.wholeCubeLocked =>
                 \A l \in copy[k].v.locks \ old[k].locks : l.whole
  /\ target[k] # 0 => request[k].op \in {"commit", "rollback"}

RegularInv == Regular(cube) /\ NumbersNameParts /\ \A k \in Job : Changes(k)

(* What a write leaves of a version beside its cells.                      *)
LEMMA SetCellValueKeeps ==
  ASSUME NEW v \in Version, NEW j \in Job, SetCellValue(j, v).ok
  PROVE  LET w == SetCellValue(j, v) IN
         /\ w.v.locks = v.locks /\ w.v.locksVersion = v.locksVersion
         /\ w.v.number = v.number /\ w.v.pagesVersion = v.pagesVersion
         /\ w.v.wholeCubeLocked = v.wholeCubeLocked
         /\ w.v.changedCells # 0 => v.wholeCubeLocked
         /\ "storage" \in w.out /\ "locks" \notin w.out
<1> DEFINE m == [c \in {request[j].cell} |-> j]
<1> DEFINE C == DOMAIN m \union DOMAIN Pending(v)
<1>1. CASE v.wholeCubeLocked
  <2> DEFINE n == IF v.changedCells = 0 THEN Len(changed) + 1 ELSE v.changedCells
  <2> DEFINE map == IF v.changedCells = 0 THEN Append(changed, m) ELSE Gathered(v, m)
  <2>1. SetCellValue(j, v) =
          [ok |-> TRUE, out |-> {"storage"}, rollback |-> rollback,
           v |-> [v EXCEPT !.changedCells = n], changed |-> map]
    BY <1>1 DEF SetCellValue
  <2> DEFINE next == [v EXCEPT !.changedCells = n]
  <2> HIDE DEF n
  <2>2. /\ next.locks = v.locks /\ next.locksVersion = v.locksVersion
        /\ next.number = v.number /\ next.pagesVersion = v.pagesVersion
        /\ next.wholeCubeLocked = v.wholeCubeLocked
    BY DEF Version
  <2> HIDE DEF map, next
  <2>3. SetCellValue(j, v) = [ok |-> TRUE, out |-> {"storage"},
                              rollback |-> rollback, v |-> next, changed |-> map]
    BY <2>1 DEF next
  <2>4. /\ SetCellValue(j, v).v = next
        /\ SetCellValue(j, v).out = {"storage"}
    BY <2>3
  <2> QED
    BY <1>1, <2>2, <2>4
<1>2. CASE ~v.wholeCubeLocked
  <2>1. SetCellValue(j, v) =
          [ok |-> TRUE, out |-> Written(v, m), rollback |-> Record(v, C),
           v |-> Stored(v, m), changed |-> Gathered(v, m)]
    BY <1>2, Zenon DEF SetCellValue
  <2>2. "storage" \in Written(v, m) /\ "locks" \notin Written(v, m)
    BY DEF Written
  <2> HIDE DEF m
  <2>3. /\ Stored(v, m).locks = v.locks /\ Stored(v, m).locksVersion = v.locksVersion
        /\ Stored(v, m).number = v.number
        /\ Stored(v, m).pagesVersion = v.pagesVersion
        /\ Stored(v, m).wholeCubeLocked = v.wholeCubeLocked
        /\ Stored(v, m).changedCells = 0
    BY DEF Stored, Version
  <2> QED
    BY <2>1, <2>2, <2>3
<1> QED
  BY <1>1, <1>2

(* A step that makes no version, but may give j a new copy.                *)
LEMMA RegularStep ==
  ASSUME RegularInv, NEW j \in Job, OtherJobsStay(j), cube' = cube,
         old'[j] = old[j] \/ old'[j] = cube, Changes(j)'
  PROVE  RegularInv'
<1>1. NumbersNameParts'
  BY DEF RegularInv, NumbersNameParts, OtherJobsStay
<1>2. ASSUME NEW k \in Job \ {j} PROVE Changes(k)'
  BY DEF RegularInv, Changes, OtherJobsStay, Locking
<1> QED
  BY <1>1, <1>2 DEF RegularInv

LEMMA RegularStay ==
  ASSUME RegularInv, UNCHANGED <<request, cube, pc, old, copy, target>>
  PROVE  RegularInv'
BY DEF RegularInv, NumbersNameParts, Changes, Locking, Regular

LEMMA RegularMove ==
  ASSUME TypeInv, RegularInv, NEW j \in Job, NEW p, pc' = [pc EXCEPT ![j] = p],
         pc[j] # "done", UNCHANGED <<request, cube, old, copy, target>>,
         \/ p \in {"start", "failed"}
         \/ /\ p = "found" /\ pc[j] = "copied"
            /\ ~copy[j].v.wholeCubeLocked \/ copy[j].v.locks # {}
         \/ p = "changed" /\ pc[j] = "copied" /\ request[j].op = "replace"
  PROVE  RegularInv'
<1>1. pc'[j] = p /\ \A k \in Job \ {j} : pc'[k] = pc[k]
  BY DEF TypeInv, TypeOK
<1>2. OtherJobsStay(j)
  BY <1>1 DEF OtherJobsStay
<1>3. Changes(j)'
  BY <1>1 DEF RegularInv, Changes, Locking
<1> QED
  BY <1>2, <1>3, RegularStep

LEMMA RegularThrow ==
  ASSUME TypeInv, RegularInv, NEW j \in Job, Throw(j), pc[j] # "done"
  PROVE  RegularInv'
<1>1. /\ pc' = [pc EXCEPT ![j] = "failed"]
      /\ UNCHANGED <<request, cube, old, copy, target>>
  BY DEF Throw
<1> QED
  BY <1>1, RegularMove

LEMMA RegularReturns ==
  ASSUME TypeInv, RegularInv, NEW j \in Job, NEW v, NEW out, Returns(j, v, out),
         pc[j] = "found", Regular(v),
         v.locksVersion = copy[j].v.locksVersion,
         "storage" \notin out /\ copy[j].v.wholeCubeLocked => v.wholeCubeLocked,
         "locks" \notin out => v.locks = copy[j].v.locks,
         Locking(j) => /\ out = {"locks"}
                       /\ v.wholeCubeLocked =>
                            \A l \in v.locks \ copy[j].v.locks : l.whole
  PROVE  RegularInv'
<1>1. /\ OtherJobsStay(j) /\ cube' = cube
      /\ pc'[j] = "changed" /\ copy'[j].v = v /\ copy'[j].out = out
      /\ old'[j] = old[j] /\ target'[j] = target[j]
  BY ReturnsMoves
<1>2. Changes(j)'
  BY <1>1 DEF RegularInv, Changes, OtherJobsStay, Locking
<1> QED
  BY <1>1, <1>2, RegularStep

LEMMA RegularGetServerCopy ==
  ASSUME TypeInv, RegularInv, NEW j \in Job, GetServerCopy(j)
  PROVE  RegularInv'
<1>1. /\ old' = [old EXCEPT ![j] = cube]
      /\ copy' = [copy EXCEPT ![j] = [v |-> cube, out |-> {}]]
      /\ pc' = [pc EXCEPT ![j] = "copied"] /\ pc[j] = "start"
      /\ UNCHANGED <<request, cube>>
      /\ \/ target' = target
         \/ /\ request[j].op \in {"commit", "rollback"}
            /\ \E l \in cube.locks : target' = [target EXCEPT ![j] = l.id]
  BY DEF GetServerCopy
<1>2. OtherJobsStay(j)
  BY <1>1 DEF OtherJobsStay, TypeInv, TypeOK
<1>3. old'[j] = cube /\ copy'[j].v = cube /\ pc'[j] = "copied"
  BY <1>1 DEF TypeInv, TypeOK
<1>4. target'[j] # 0 => request[j].op \in {"commit", "rollback"}
  BY <1>1 DEF RegularInv, Changes
<1>5. Changes(j)'
  BY <1>1, <1>3, <1>4 DEF RegularInv, Changes
<1> QED
  BY <1>1, <1>2, <1>3, <1>5, RegularStep

LEMMA RegularAddLock ==
  ASSUME TypeInv, RegularInv, NEW j \in Job, NEW area, NEW whole \in BOOLEAN,
         whole => area = {},
         AddLock(j, area, whole), pc[j] = "found", Locking(j)
  PROVE  RegularInv'
<1> DEFINE v == copy[j].v
<1> DEFINE l == [id |-> Len(rollback) + 1, user |-> request[j].user,
                 area |-> area, whole |-> whole]
<1> DEFINE w == [v EXCEPT !.locks = @ \union {l}, !.hasLock = TRUE,
                          !.wholeCubeLocked = whole]
<1>1. CASE Crash
  BY <1>1, RegularStay DEF Crash
<1>2. CASE Throw(j)
  BY <1>2, RegularThrow
<1>3. CASE Returns(j, w, {"locks"}) /\ ~\E m \in v.locks : Overlaps(m, area)
  <2>1. v \in Version /\ Changes(j)
    BY CopyType DEF RegularInv
  <2>2. ~v.wholeCubeLocked
    BY <1>3, <2>1 DEF Changes, Regular, Overlaps
  <2>3. /\ w.locks = v.locks \union {l} /\ w.wholeCubeLocked = whole
        /\ w.changedCells = v.changedCells /\ w.locksVersion = v.locksVersion
    BY <2>1 DEF Version
  <2>4. l.whole = whole /\ l.area = area
    OBVIOUS
  <2> HIDE DEF l, w
  <2>5. Regular(w)
    BY <2>1, <2>2, <2>3, <2>4 DEF Changes, Regular
  <2> QED
    BY <1>3, <2>2, <2>3, <2>4, <2>5, RegularReturns
<1> QED
  BY <1>1, <1>2, <1>3, Zenon DEF AddLock

(* A copy without a lock, and with the changed cells stored.               *)
LEMMA RegularRemoveLock ==
  ASSUME NEW v \in Version, Regular(v), NEW id
  PROVE  LET w == RemoveLock(v, id) IN
         /\ w \in Version /\ w.locksVersion = v.locksVersion
         /\ w.wholeCubeLocked = v.wholeCubeLocked
         /\ ~v.wholeCubeLocked => Regular(w)
         /\ \A l \in w.locks : l \in v.locks
<1>1. /\ RemoveLock(v, id) \in Version
      /\ RemoveLock(v, id).locks = {l \in v.locks : l.id # id}
      /\ RemoveLock(v, id).changedCells = v.changedCells
  BY RemoveLockType
<1>2. /\ RemoveLock(v, id).locksVersion = v.locksVersion
      /\ RemoveLock(v, id).wholeCubeLocked = v.wholeCubeLocked
  BY DEF RemoveLock, Version
<1> QED
  BY <1>1, <1>2 DEF Regular

LEMMA StoredKeeps ==
  ASSUME NEW v \in Version, NEW m
  PROVE  LET w == Stored(v, m) IN
         /\ w.locks = v.locks /\ w.locksVersion = v.locksVersion
         /\ w.wholeCubeLocked = v.wholeCubeLocked /\ w.changedCells = 0
         /\ w.cells = Over(m, Over(Pending(v), v.cells))
BY DEF Stored, Version

(* The other calls.                                                        *)
LEMMA RegularCalls ==
  ASSUME TypeInv, RegularInv, NEW j \in Job,
         \/ CommitCube(j) \/ RollbackCube(j) \/ Replace(j)
         \/ ClearCells(j) \/ RenameCube(j)
  PROVE  RegularInv'
<1> DEFINE v == copy[j].v
<1>1. pc[j] = "found" /\ ~Locking(j)
  BY DEF CommitCube, RollbackCube, Replace, ClearCells, RenameCube, Call, Locking
<1>2. CASE Throw(j)
  BY <1>1, <1>2, RegularThrow
<1>3. v \in Version /\ Refers(v) /\ TypeOK /\ Regular(v)
  BY CopyType DEF TypeInv, RegularInv, Changes
<1>4. \A u, x : "storage" \in Written(u, x)
  BY DEF Written
<1>5. ASSUME CommitCube(j), ~Throw(j) PROVE RegularInv'
  <2> DEFINE w == RemoveLock(v, target[j])
  <2> DEFINE s == Stored(w, << >>)
  <2> DEFINE x == [s EXCEPT !.wholeCubeLocked = FALSE]
  <2>1. /\ w \in Version /\ w.locksVersion = v.locksVersion
        /\ w.wholeCubeLocked = v.wholeCubeLocked
        /\ ~v.wholeCubeLocked => Regular(w)
        /\ \A l \in w.locks : l \in v.locks
    BY <1>3, RegularRemoveLock
  <2>2. CASE v.wholeCubeLocked /\ Returns(j, x, {"locks"} \union Written(v, << >>))
    <3> HIDE DEF w
    <3>1. /\ x.locks = w.locks /\ x.locksVersion = w.locksVersion
          /\ x.changedCells = 0 /\ x.wholeCubeLocked = FALSE
      BY <2>1 DEF Stored, Version
    <3> HIDE DEF x
    <3>2. Regular(x)
      BY <1>3, <2>1, <3>1 DEF Regular
    <3> QED
      BY <1>1, <1>4, <2>1, <2>2, <3>1, <3>2, RegularReturns
  <2>3. CASE ~v.wholeCubeLocked /\ Returns(j, w, {"locks"})
    <3> HIDE DEF w
    <3> QED
      BY <1>1, <2>1, <2>3, RegularReturns
  <2> QED
    BY <1>5, <2>2, <2>3, Zenon DEF CommitCube
<1>6. ASSUME RollbackCube(j), ~Throw(j) PROVE RegularInv'
  <2> DEFINE id == target[j]
  <2> DEFINE n == IF request[j].steps = 0 \/ request[j].steps > Len(rollback[id])
                  THEN Len(rollback[id]) ELSE request[j].steps
  <2> DEFINE undo == Undone(rollback[id], n)
  <2> DEFINE w == IF request[j].steps = 0 THEN RemoveLock(v, id) ELSE v
  <2> DEFINE out == Written(v, undo) \union
                      (IF request[j].steps = 0 THEN {"locks"} ELSE {})
  <2> DEFINE s == Stored(w, undo)
  <2>1. ~v.wholeCubeLocked /\ Returns(j, s, out)
    BY <1>6, Zenon DEF RollbackCube
  <2>2. /\ w \in Version /\ w.locksVersion = v.locksVersion
        /\ ~w.wholeCubeLocked /\ Regular(w)
        /\ "locks" \notin out => w.locks = v.locks
    BY <1>3, <2>1, RegularRemoveLock
  <2> HIDE DEF n, undo, w, out
  <2>3. /\ s.locks = w.locks /\ s.locksVersion = w.locksVersion
        /\ ~s.wholeCubeLocked /\ s.changedCells = 0
    BY <2>2, StoredKeeps
  <2> HIDE DEF s
  <2>4. Regular(s)
    BY <2>2, <2>3 DEF Regular
  <2> QED
    BY <1>1, <2>1, <2>2, <2>3, <2>4, RegularReturns
<1>7. ASSUME Replace(j), ~Throw(j) PROVE RegularInv'
  <2> DEFINE w == SetCellValue(j, v)
  <2>1. w.ok /\ Returns(j, w.v, w.out)
    BY <1>7, Zenon DEF Replace
  <2>2. /\ w.v.locks = v.locks /\ w.v.locksVersion = v.locksVersion
        /\ w.v.wholeCubeLocked = v.wholeCubeLocked
        /\ w.v.changedCells # 0 => v.wholeCubeLocked
        /\ "storage" \in w.out
    BY <1>3, <2>1, SetCellValueKeeps
  <2> HIDE DEF w
  <2>3. Regular(w.v)
    BY <1>3, <2>2 DEF Regular
  <2> QED
    BY <1>1, <2>1, <2>2, <2>3, RegularReturns
<1>8. ASSUME ClearCells(j), ~Throw(j) PROVE RegularInv'
  <2> DEFINE w == [v EXCEPT !.cells = [c \in Cell |-> Loaded], !.changedCells = 0]
  <2>1. Returns(j, w, {"storage", "pages"})
    BY <1>8, Zenon DEF ClearCells
  <2>2. /\ w.locks = v.locks /\ w.locksVersion = v.locksVersion
        /\ w.wholeCubeLocked = v.wholeCubeLocked /\ w.changedCells = 0
    BY <1>3 DEF Version
  <2> HIDE DEF w
  <2>3. Regular(w)
    BY <1>3, <2>2 DEF Regular
  <2> QED
    BY <1>1, <2>1, <2>2, <2>3, RegularReturns
<1>9. ASSUME RenameCube(j) PROVE RegularInv'
  <2>1. Returns(j, v, {})
    BY <1>9 DEF RenameCube
  <2> QED
    BY <1>1, <1>3, <2>1, RegularReturns
<1> QED
  BY <1>2, <1>5, <1>6, <1>7, <1>8, <1>9

(* A merge keeps apart what commits made.                                  *)
LEMMA RegularCommit ==
  ASSUME TypeInv, LocksInv, RegularInv, NEW j \in Job, Commit(j)
  PROVE  RegularInv'
<1> DEFINE mine == copy[j].v
<1> DEFINE out == copy[j].out
<1>1. /\ pc[j] = "changed" /\ pc' = [pc EXCEPT ![j] = "done"]
      /\ UNCHANGED <<request, old, copy, target>> /\ cube' = Merged(j) /\ ~Conflict(j)
  BY DEF Commit
<1>2. /\ cube \in Version /\ mine \in Version
      /\ \A k \in Job : old[k] \in Version
  BY CopyType
<1>3. Changes(j) /\ Regular(cube) /\ Regular(mine)
  BY DEF RegularInv, Changes
<1>4. /\ cube'.number = cube.number + 1
      /\ cube'.locksVersion = IF "locks" \in out THEN cube.number + 1
                                                 ELSE cube.locksVersion
      /\ cube'.pagesVersion = IF "pages" \in out THEN cube.number + 1
                                                 ELSE cube.pagesVersion
      /\ "pages" \notin out => cube'.cells = cube.cells
      /\ "locks" \notin out => cube'.locks = cube.locks
      /\ cube'.wholeCubeLocked = mine.wholeCubeLocked
      /\ cube'.changedCells = IF "storage" \in out THEN mine.changedCells
                                                   ELSE cube.changedCells
  BY <1>1 DEF Merged
<1>5. cube'.locks = LockListAfter(j)
  BY <1>1, MergedLocksAre
<1>6. NumbersNameParts'
  <2>1. \A k \in Job : /\ old[k].pagesVersion \in Nat /\ old[k].locksVersion \in Nat
                       /\ old[k].pagesVersion <= cube.number
                       /\ old[k].locksVersion <= cube.number
    BY <1>2 DEF Version, RegularInv, NumbersNameParts
  <2>2. cube.number \in Nat /\ cube.pagesVersion \in Nat /\ cube.locksVersion \in Nat
    BY <1>2 DEF Version
  <2>3. ASSUME NEW k \in Job
        PROVE  /\ old[k].pagesVersion # cube.number + 1
               /\ old[k].locksVersion # cube.number + 1
    <3> DEFINE p == old[k].pagesVersion
    <3> DEFINE q == old[k].locksVersion
    <3>1. p \in Nat /\ q \in Nat /\ p <= cube.number /\ q <= cube.number
      BY <2>1
    <3> HIDE DEF p, q
    <3>2. p # cube.number + 1 /\ q # cube.number + 1
      BY <2>2, <3>1
    <3> QED
      BY <3>2 DEF p, q
  <2>4. /\ \A k \in Job : /\ old[k].pagesVersion <= cube'.number
                          /\ old[k].locksVersion <= cube'.number
        /\ cube'.pagesVersion <= cube'.number /\ cube'.locksVersion <= cube'.number
    BY <1>4, <2>1, <2>2 DEF RegularInv, NumbersNameParts
  <2> QED
    BY <1>1, <1>4, <2>3, <2>4 DEF RegularInv, NumbersNameParts
<1>7. Regular(cube)'
  <2>1. ~(cube.wholeCubeLocked /\ ~old[j].wholeCubeLocked)
    BY <1>1 DEF Conflict
  <2>2. cube'.changedCells # 0 => cube'.wholeCubeLocked
    BY <1>1, <1>3, <1>4, <2>1 DEF Changes, Regular
  <2>3. mine.wholeCubeLocked =>
          \/ cube.locks = {}
          \/ "locks" \notin out /\ mine.locksVersion = cube.locksVersion
    <3>1. ~ (/\ mine.wholeCubeLocked
             /\ "locks" \in out \/ mine.locksVersion # cube.locksVersion
             /\ cube.locks # {})
      BY <1>1 DEF Conflict
    <3> QED
      BY <3>1
  <2>4. ASSUME mine.wholeCubeLocked
        PROVE  cube'.locks = {} \/ \E l \in cube'.locks : l.whole
    <3>1. CASE "locks" \notin out
      <4>1. mine.locks = old[j].locks /\ mine.locksVersion = old[j].locksVersion
        BY <1>1, <1>3, <3>1 DEF Changes
      <4>2. cube.locks = {} \/ cube.locks = mine.locks
        BY <2>3, <2>4, <4>1 DEF RegularInv, NumbersNameParts
      <4> QED
        BY <1>3, <1>4, <2>4, <3>1, <4>2 DEF Regular
    <3>2. CASE "locks" \in out
      <4>1. cube.locks = {}
        BY <2>3, <2>4, <3>2
      <4>4. CASE Locking(j)
        <5>1. PICK l \in mine.locks \ old[j].locks : TRUE
          BY <1>1, <4>4 DEF LocksInv, CopyFollows, Follows
        <5>2. l.whole /\ l \in Fresh(j)
          BY <1>1, <1>3, <2>4, <4>4, <5>1 DEF Changes, Fresh
        <5> QED
          BY <1>5, <4>4, <5>2 DEF LockListAfter
      <4>5. CASE ~Locking(j)
        BY <1>5, <4>1, <4>5 DEF LockListAfter
      <4> QED
        BY <4>4, <4>5
    <3> QED
      BY <3>1, <3>2
  <2>5. \A l \in cube'.locks : l \in cube.locks \/ l \in mine.locks
    BY <1>5 DEF LockListAfter, Fresh
  <2> QED
    BY <1>3, <1>4, <2>2, <2>4, <2>5 DEF Regular
<1>8. ASSUME NEW k \in Job PROVE Changes(k)'
  <2>1. pc'[k] = pc[k] \/ pc'[k] = "done"
    BY <1>1 DEF TypeInv, TypeOK
  <2> QED
    BY <1>1, <2>1 DEF RegularInv, Changes, Locking, Regular
<1> QED
  BY <1>6, <1>7, <1>8 DEF RegularInv

LEMMA RegularCommitPessimistic ==
  ASSUME TypeInv, RegularInv, NEW j \in Job, CommitPessimistic(j)
  PROVE  RegularInv'
<1> DEFINE w == SetCellValue(j, cube)
<1> DEFINE p == IF "pages" \in w.out THEN cube.number + 1 ELSE w.v.pagesVersion
<1> DEFINE new == [w.v EXCEPT !.number = @ + 1,
                     !.pagesVersion = IF "pages" \in w.out
                                      THEN cube.number + 1 ELSE @]
<1>1. CASE Throw(j)
  BY <1>1, RegularThrow DEF CommitPessimistic
<1>2. CASE CommitPessimistic(j) /\ ~Throw(j)
  <2>1. /\ pc[j] = "changed" /\ w.ok /\ request[j].op = "replace"
        /\ pc' = [pc EXCEPT ![j] = "done"]
        /\ UNCHANGED <<request, old, copy, target>> /\ cube' = new
    BY <1>2, Zenon DEF CommitPessimistic, Pessimistic
  <2>2. cube \in Version /\ Refers(cube) /\ TypeOK
    BY CopyType DEF TypeInv
  <2>3. w.v \in Version
    BY <2>1, <2>2, SetCellValueType
  <2>4. /\ w.v.locks = cube.locks /\ w.v.locksVersion = cube.locksVersion
        /\ w.v.number = cube.number /\ w.v.pagesVersion = cube.pagesVersion
        /\ w.v.wholeCubeLocked = cube.wholeCubeLocked
        /\ w.v.changedCells # 0 => cube.wholeCubeLocked
    BY <2>1, <2>2, SetCellValueKeeps
  <2>5. "pages" \notin w.out => w.v.cells = cube.cells
    <3> SUFFICES ASSUME "pages" \notin w.out PROVE w.v.cells = cube.cells
      OBVIOUS
    <3> DEFINE m == [c \in {request[j].cell} |-> j]
    <3>1. CASE cube.wholeCubeLocked
      <4> DEFINE n == IF cube.changedCells = 0 THEN Len(changed) + 1 ELSE cube.changedCells
      <4>1. w.v = [cube EXCEPT !.changedCells = n]
        BY <3>1 DEF SetCellValue
      <4> HIDE DEF w, n
      <4> QED
        BY <2>2, <4>1 DEF Version
    <3>2. CASE ~cube.wholeCubeLocked
      <4> DEFINE C == DOMAIN m \union DOMAIN Pending(cube)
      <4>1. w = [ok |-> TRUE, out |-> Written(cube, m), rollback |-> Record(cube, C),
                 v |-> Stored(cube, m), changed |-> Gathered(cube, m)]
        BY <3>2, <2>1, Zenon DEF SetCellValue
      <4>2. "pages" \in Written(cube, m)
        BY DEF Written
      <4> HIDE DEF m, C
      <4> QED
        BY <4>1, <4>2
    <3> QED
      BY <3>1, <3>2
  <2> HIDE DEF w
  <2>6. /\ cube'.number = cube.number + 1 /\ cube'.pagesVersion = p
        /\ cube'.cells = w.v.cells /\ cube'.locks = cube.locks
        /\ cube'.locksVersion = cube.locksVersion
        /\ cube'.wholeCubeLocked = cube.wholeCubeLocked
        /\ cube'.changedCells = w.v.changedCells
    <3>1. new = [w.v EXCEPT !.number = w.v.number + 1, !.pagesVersion = p]
      BY <2>3 DEF Version
    <3> HIDE DEF new, p
    <3>2. /\ new.number = w.v.number + 1 /\ new.pagesVersion = p
          /\ new.cells = w.v.cells /\ new.locks = w.v.locks
          /\ new.locksVersion = w.v.locksVersion
          /\ new.wholeCubeLocked = w.v.wholeCubeLocked
          /\ new.changedCells = w.v.changedCells
      BY <2>3, <3>1 DEF Version
    <3> QED
      BY <2>1, <2>4, <3>2
  <2> HIDE DEF new
  <2>7. NumbersNameParts'
    <3>1. cube.number \in Nat /\ cube.pagesVersion \in Nat /\ cube.locksVersion \in Nat
          /\ cube.pagesVersion <= cube.number /\ cube.locksVersion <= cube.number
      BY <2>2 DEF Version, RegularInv, NumbersNameParts
    <3>2. cube'.pagesVersion <= cube'.number /\ cube'.locksVersion <= cube'.number
      BY <2>4, <2>6, <3>1
    <3>3. ASSUME NEW k \in Job
          PROVE  /\ old[k].pagesVersion <= cube'.number
                 /\ old[k].locksVersion <= cube'.number
                 /\ old[k].pagesVersion = cube'.pagesVersion => old[k].cells = cube'.cells
                 /\ old[k].locksVersion = cube'.locksVersion => old[k].locks = cube'.locks
      <4> DEFINE a == old[k].pagesVersion
      <4> DEFINE b == old[k].locksVersion
      <4>1. /\ a \in Nat /\ b \in Nat /\ a <= cube.number /\ b <= cube.number
            /\ a = cube.pagesVersion => old[k].cells = cube.cells
            /\ b = cube.locksVersion => old[k].locks = cube.locks
        BY CopyType DEF Version, RegularInv, NumbersNameParts
      <4> HIDE DEF a, b
      <4>2. a <= cube'.number /\ b <= cube'.number
        BY <2>6, <3>1, <4>1
      <4>3. a = cube'.pagesVersion => "pages" \notin w.out /\ a = cube.pagesVersion
        BY <2>4, <2>6, <3>1, <4>1
      <4>4. /\ a = cube'.pagesVersion => old[k].cells = cube'.cells
            /\ b = cube'.locksVersion => old[k].locks = cube'.locks
        BY <2>5, <2>6, <4>1, <4>3
      <4> QED
        BY <4>2, <4>4 DEF a, b
    <3> QED
      BY <2>1, <3>2, <3>3 DEF NumbersNameParts
  <2>8. Regular(cube)'
    BY <2>4, <2>6 DEF RegularInv, Regular
  <2>9. ASSUME NEW k \in Job PROVE Changes(k)'
    <3>1. pc'[k] = pc[k] \/ pc'[k] = "done"
      BY <2>1 DEF TypeInv, TypeOK
    <3> QED
      BY <2>1, <3>1 DEF RegularInv, Changes, Locking, Regular
  <2> QED
    BY <2>7, <2>8, <2>9 DEF RegularInv
<1> QED
  BY <1>1, <1>2

LEMMA RegularStart == Init => RegularInv
<1> SUFFICES ASSUME Init PROVE RegularInv
  OBVIOUS
<1>1. /\ Regular(cube) /\ cube.pagesVersion = 0 /\ cube.locksVersion = 0
      /\ cube.number = 0
      /\ \A k \in Job : /\ old[k] = cube /\ copy[k].v = cube /\ pc[k] = "start"
                        /\ target[k] = 0
  BY DEF Init, Regular
<1> QED
  BY <1>1 DEF RegularInv, NumbersNameParts, Changes

LEMMA RegularNext ==
  ASSUME TypeInv, LocksInv, RegularInv, [Next]_vars
  PROVE  RegularInv'
<1>1. ASSUME NEW j \in Job, FindCube(j) PROVE RegularInv'
  <2> DEFINE v == copy[j].v
  <2>1. CASE Crash
    BY <2>1, RegularStay DEF Crash
  <2>2. CASE Throw(j)
    BY <1>1, <2>2, RegularThrow DEF FindCube
  <2>3. CASE /\ ~v.wholeCubeLocked \/ (v.locks # {} /\ First(v.locks).user = request[j].user)
             /\ pc' = [pc EXCEPT ![j] = IF Pessimistic(j) THEN "changed" ELSE "found"]
             /\ UNCHANGED <<request, cube, shared, commitTry, old, copy, target, up, auxiliary>>
    <3>1. CASE Pessimistic(j)
      BY <1>1, <2>3, <3>1, RegularMove DEF FindCube, Pessimistic
    <3>2. CASE ~Pessimistic(j)
      BY <1>1, <2>3, <3>2, RegularMove DEF FindCube
    <3> QED
      BY <3>1, <3>2
  <2> QED
    BY <1>1, <2>1, <2>2, <2>3, Zenon DEF FindCube
<1>2. ASSUME NEW j \in Job, LockCube(j) PROVE RegularInv'
  <2>1. CASE Call(j, "lock") /\ AddLock(j, request[j].area, FALSE)
    BY <2>1, RegularAddLock DEF Call, Locking
  <2>2. CASE Call(j, "lock_complete") /\ AddLock(j, {}, TRUE)
    BY <2>2, RegularAddLock DEF Call, Locking
  <2> QED
    BY <1>2, <2>1, <2>2 DEF LockCube
<1>3. ASSUME NEW j \in Job, CommitFails(j) PROVE RegularInv'
  <2>1. PICK p \in {"start", "failed"} : pc' = [pc EXCEPT ![j] = p]
    BY <1>3 DEF CommitFails
  <2> QED
    BY <1>3, <2>1, RegularMove DEF CommitFails
<1>4. CASE UNCHANGED vars
  BY <1>4, RegularStay DEF vars
<1> QED
  BY <1>1, <1>2, <1>3, <1>4, RegularGetServerCopy, RegularCalls, RegularCommit,
     RegularCommitPessimistic DEF Next
-----------------------------------------------------------------------------
(* What a rollback brings back of a cell is its value in the first of the  *)
(* steps that hold it.                                                     *)
LEMMA UndoneOldest ==
  ASSUME NEW steps \in Seq(Step), NEW n \in Nat, NEW c
  PROVE  LET last == {i \in 1 .. Len(steps) : i > Len(steps) - n} IN
         /\ c \in DOMAIN Undone(steps, n) <=> \E i \in last : c \in DOMAIN steps[i]
         /\ \A i \in last :
              /\ c \in DOMAIN steps[i]
              /\ \A k \in last : c \in DOMAIN steps[k] => i <= k
              => Undone(steps, n)[c] = steps[i][c]
         /\ c \in DOMAIN Undone(steps, n) =>
              \E i \in last : /\ c \in DOMAIN steps[i]
                              /\ \A k \in last : c \in DOMAIN steps[k] => i <= k
<1> DEFINE last == {i \in 1 .. Len(steps) : i > Len(steps) - n}
<1> DEFINE Least(i) == /\ c \in DOMAIN steps[i]
                       /\ \A k \in last : c \in DOMAIN steps[k] => i <= k
<1>1. c \in DOMAIN Undone(steps, n) <=> \E i \in last : c \in DOMAIN steps[i]
  BY DEF Undone
<1>2. ASSUME NEW i \in last, Least(i) PROVE Undone(steps, n)[c] = steps[i][c]
  <2>1. c \in UNION {DOMAIN steps[k] : k \in last}
    BY <1>2
  <2>2. Undone(steps, n)[c] = steps[CHOOSE k \in last : Least(k)][c]
    BY <2>1 DEF Undone
  <2>3. \A k \in last : Least(k) => k = i
    BY <1>2
  <2>4. (CHOOSE k \in last : Least(k)) = i
    BY <1>2, <2>3
  <2> QED
    BY <2>2, <2>4
<1>3. ASSUME c \in DOMAIN Undone(steps, n) PROVE \E i \in last : Least(i)
  <2> DEFINE T == {i \in last : c \in DOMAIN steps[i]}
  <2>1. T # {} /\ T \in SUBSET Nat
    BY <1>1, <1>3
  <2>2. PICK t \in T : \A k \in T : t <= k
    BY <2>1, LeastNumber
  <2> QED
    BY <2>2
<1> QED
  BY <1>1, <1>2, <1>3

(* A partial rollback: what it takes and what it leaves bring back         *)
(* together what the whole storage did.                                    *)
LEMMA UndoneSplit ==
  ASSUME NEW steps \in Seq(Step), NEW n \in 0 .. Len(steps), NEW c
  PROVE  LET all == Undone(steps, Len(steps))
             rest == SubSeq(steps, 1, Len(steps) - n)
             some == Undone(rest, Len(rest))
             undo == Undone(steps, n)
         IN /\ c \in DOMAIN all <=> c \in DOMAIN some \union DOMAIN undo
            /\ c \in DOMAIN some => all[c] = some[c]
            /\ c \in DOMAIN undo \ DOMAIN some => all[c] = undo[c]
<1> DEFINE all == Undone(steps, Len(steps))
<1> DEFINE rest == SubSeq(steps, 1, Len(steps) - n)
<1> DEFINE some == Undone(rest, Len(rest))
<1> DEFINE undo == Undone(steps, n)
<1>1. /\ Len(steps) \in Nat /\ n \in Nat /\ n <= Len(steps)
      /\ Len(rest) = Len(steps) - n /\ Len(rest) \in Nat
      /\ rest \in Seq(Step)
      /\ \A i \in 1 .. Len(rest) : rest[i] = steps[i]
  OBVIOUS
<1> DEFINE S == 1 .. Len(steps)
<1> DEFINE R == 1 .. Len(rest)
<1> DEFINE U == {i \in 1 .. Len(steps) : i > Len(steps) - n}
<1>2. /\ {i \in 1 .. Len(steps) : i > Len(steps) - Len(steps)} = S
      /\ {i \in 1 .. Len(rest) : i > Len(rest) - Len(rest)} = R
  BY <1>1
<1>3. /\ S = R \union U /\ \A i \in R, k \in U : i < k
      /\ R \subseteq Nat /\ U \subseteq Nat
  BY <1>1
<1>4. /\ c \in DOMAIN all <=> \E i \in S : c \in DOMAIN steps[i]
      /\ \A i \in S : /\ c \in DOMAIN steps[i]
                      /\ \A k \in S : c \in DOMAIN steps[k] => i <= k
                      => all[c] = steps[i][c]
  BY <1>1, <1>2, UndoneOldest
<1>5. /\ c \in DOMAIN undo <=> \E i \in U : c \in DOMAIN steps[i]
      /\ \A i \in U : /\ c \in DOMAIN steps[i]
                      /\ \A k \in U : c \in DOMAIN steps[k] => i <= k
                      => undo[c] = steps[i][c]
      /\ c \in DOMAIN undo =>
           \E i \in U : /\ c \in DOMAIN steps[i]
                        /\ \A k \in U : c \in DOMAIN steps[k] => i <= k
  BY <1>1, UndoneOldest
<1>6. /\ c \in DOMAIN some <=> \E i \in R : c \in DOMAIN rest[i]
      /\ \A i \in R : /\ c \in DOMAIN rest[i]
                      /\ \A k \in R : c \in DOMAIN rest[k] => i <= k
                      => some[c] = rest[i][c]
      /\ c \in DOMAIN some =>
           \E i \in R : /\ c \in DOMAIN rest[i]
                        /\ \A k \in R : c \in DOMAIN rest[k] => i <= k
  <2> DEFINE last == {i \in 1 .. Len(rest) : i > Len(rest) - Len(rest)}
  <2>1. rest \in Seq(Step) /\ Len(rest) \in Nat /\ last = R
    BY <1>1, <1>2
  <2> HIDE DEF rest, R
  <2>2. /\ c \in DOMAIN some <=> \E i \in last : c \in DOMAIN rest[i]
        /\ \A i \in last : /\ c \in DOMAIN rest[i]
                           /\ \A k \in last : c \in DOMAIN rest[k] => i <= k
                           => some[c] = rest[i][c]
        /\ c \in DOMAIN some =>
             \E i \in last : /\ c \in DOMAIN rest[i]
                             /\ \A k \in last : c \in DOMAIN rest[k] => i <= k
    BY <2>1, UndoneOldest
  <2> HIDE DEF last, some
  <2> QED
    BY <2>1, <2>2
<1> HIDE DEF all, some, undo, rest, S, R, U
<1>7. c \in DOMAIN all <=> c \in DOMAIN some \union DOMAIN undo
  BY <1>1, <1>3, <1>4, <1>5, <1>6 DEF R
<1>8. ASSUME c \in DOMAIN some PROVE all[c] = some[c]
  <2>1. PICK i \in R : /\ c \in DOMAIN rest[i]
                       /\ \A k \in R : c \in DOMAIN rest[k] => i <= k
    BY <1>6, <1>8
  <2>2. some[c] = rest[i][c] /\ rest[i] = steps[i]
    BY <1>1, <1>6, <2>1 DEF R
  <2>3. \A k \in S : c \in DOMAIN steps[k] => i <= k
    <3>1. \A k \in R : rest[k] = steps[k]
      BY <1>1 DEF R
    <3>2. \A k \in U : i <= k
      BY <1>3, <2>1
    <3> QED
      BY <1>3, <2>1, <3>1, <3>2
  <2> QED
    BY <1>3, <1>4, <2>1, <2>2, <2>3
<1>9. ASSUME c \in DOMAIN undo \ DOMAIN some PROVE all[c] = undo[c]
  <2>1. PICK i \in U : /\ c \in DOMAIN steps[i]
                       /\ \A k \in U : c \in DOMAIN steps[k] => i <= k
    BY <1>5, <1>9
  <2>2. undo[c] = steps[i][c]
    BY <1>5, <2>1
  <2>3. \A k \in R : c \notin DOMAIN steps[k]
    BY <1>1, <1>6, <1>9 DEF R
  <2> QED
    BY <1>3, <1>4, <2>1, <2>2, <2>3
<1> QED
  BY <1>7, <1>8, <1>9 DEF all, some, undo, rest

(* A new step adds the cells no step had.                                  *)
LEMMA UndoneAppend ==
  ASSUME NEW steps \in Seq(Step), NEW s \in Step, NEW c
  PROVE  LET all == Undone(steps, Len(steps))
             more == Append(steps, s)
             new == Undone(more, Len(more))
         IN /\ c \in DOMAIN new <=> c \in DOMAIN all \union DOMAIN s
            /\ c \in DOMAIN all => new[c] = all[c]
            /\ c \in DOMAIN s \ DOMAIN all => new[c] = s[c]
<1> DEFINE more == Append(steps, s)
<1> DEFINE all == Undone(steps, Len(steps))
<1> DEFINE new == Undone(more, Len(more))
<1> DEFINE undo == Undone(more, 1)
<1>1. /\ more \in Seq(Step) /\ Len(more) = Len(steps) + 1 /\ Len(steps) \in Nat
      /\ more[Len(more)] = s
  OBVIOUS
<1>2. SubSeq(more, 1, Len(more) - 1) = steps
  OBVIOUS
<1> HIDE DEF more
<1>3. 1 \in 0 .. Len(more)
  BY <1>1
<1>4. /\ c \in DOMAIN new <=> c \in DOMAIN all \union DOMAIN undo
      /\ c \in DOMAIN all => new[c] = all[c]
      /\ c \in DOMAIN undo \ DOMAIN all => new[c] = undo[c]
  <2> DEFINE rest == SubSeq(more, 1, Len(more) - 1)
  <2> DEFINE some == Undone(rest, Len(rest))
  <2>1. /\ c \in DOMAIN new <=> c \in DOMAIN some \union DOMAIN undo
        /\ c \in DOMAIN some => new[c] = some[c]
        /\ c \in DOMAIN undo \ DOMAIN some => new[c] = undo[c]
    BY <1>1, <1>3, UndoneSplit
  <2>2. some = all
    BY <1>2
  <2> HIDE DEF some, new, undo, all
  <2> QED
    BY <2>1, <2>2
<1>5. {i \in 1 .. Len(more) : i > Len(more) - 1} = {Len(more)}
  BY <1>1
<1>6. /\ c \in DOMAIN undo <=> c \in DOMAIN s
      /\ c \in DOMAIN s => undo[c] = s[c]
  BY <1>1, <1>5, UndoneOldest
<1> QED
  BY <1>4, <1>6 DEF more

(* The first of some locks is one of them.                                 *)
LEMMA FirstIsOne ==
  ASSUME NEW S \in SUBSET Lock, S # {}
  PROVE  First(S) \in S
<1> DEFINE T == {l.id : l \in S}
<1>1. T # {} /\ T \in SUBSET Nat
  BY DEF Lock
<1>2. PICK x \in T : \A y \in T : x <= y
  BY <1>1, LeastNumber
<1>3. \E l \in S : \A m \in S : l.id <= m.id
  BY <1>2
<1> QED
  BY <1>3 DEF First
-----------------------------------------------------------------------------
(* The storages.  All old values of one, and what they lead back to:       *)
OldValues(id) == Undone(rollback[id], Len(rollback[id]))

LeadsBack(id, cells, c) == Over(OldValues(id), cells)[c]

(* r is a rollback of the lock id.                                         *)
RollsBack(r, id) == request[r].op = "rollback" /\ target[r] = id

(* Job k changed cells of its copy, and no other commit did since.         *)
UpToDate(k) ==
  /\ pc[k] = "changed"
  /\ commitTry[k] = 0
  /\ "pages" \in copy[k].out
  /\ old[k].pagesVersion = cube.pagesVersion

(* A rollback that may still put back what it took, and one that will not, *)
(* or did not in its first try.                                            *)
Takes(r, id) == RollsBack(r, id) /\ UpToDate(r)

Blocks(r, id) ==
  /\ RollsBack(r, id)
  /\ \/ commitTry[r] > 0
     \/ /\ pc[r] = "changed"
        /\ "pages" \in copy[r].out
        /\ old[r].pagesVersion # cube.pagesVersion

Taking(id) == {r \in Job : Takes(r, id)}

Blocked(id) == \E r \in Job : Blocks(r, id)

(* A storage leads back from the latest cells, or from those the one       *)
(* rollback that took steps is about to commit.                            *)
StoragesLeadBack ==
  \A j \in Job : \A l \in Added(j) \intersect cube.locks :
    l.id \notin unrecorded /\ ~Blocked(l.id) =>
      \A c \in l.area :
        /\ Taking(l.id) = {} => LeadsBack(l.id, cube.cells, c) = before[j][c]
        /\ \A r \in Job : Taking(l.id) = {r} =>
             LeadsBack(l.id, copy[r].v.cells, c) = before[j][c]

(* A write that may still commit left what it replaces in the storage of   *)
(* the lock it met, unless a rollback took it from there.                  *)
Leaves(k) ==
  \A c \in Cell : \A l \in Covering(old[k], c) :
    /\ copy[k].v.cells[c] # old[k].cells[c]
    /\ l = First(Covering(old[k], c)) /\ ~l.whole
    => \/ c \in DOMAIN OldValues(l.id)
       \/ Blocked(l.id) \/ Taking(l.id) # {}

WritesRecorded ==
  \A k \in Job : request[k].op = "replace" /\ UpToDate(k) => Leaves(k)

FreshIsEmpty == \A j \in Job : \A l \in Fresh(j) : rollback[l.id] = <<>>

UndoInv == StoragesLeadBack /\ WritesRecorded /\ FreshIsEmpty

LEMMA LeadsBackIs ==
  ASSUME NEW id, NEW cells \in [Cell -> Value], NEW c \in Cell
  PROVE  LeadsBack(id, cells, c) = IF c \in DOMAIN OldValues(id)
                                   THEN OldValues(id)[c] ELSE cells[c]
BY DEF LeadsBack, Over

LEMMA IdsInRange ==
  ASSUME TypeInv, LocksInv
  PROVE  /\ \A l \in cube.locks : l.id \in Issued
         /\ \A k \in Job : \A l \in old[k].locks \union copy[k].v.locks :
              l.id \in Issued
<1>1. Len(rollback) \in Nat
  BY DEF TypeInv, TypeOK
<1>2. ASSUME NEW v \in Version, Refers(v), NEW l \in v.locks
      PROVE  l.id \in Issued
  <2>1. l.id \in Nat \ {0} /\ l.id <= Len(rollback)
    BY <1>2 DEF Version, Lock, Refers
  <2> QED
    BY <1>1, <2>1 DEF Issued
<1>3. cube \in Version /\ Refers(cube)
  BY DEF TypeInv, TypeOK, References
<1> QED
  BY <1>2, <1>3, CopyType

LEMMA OldValuesNext ==
  ASSUME NEW id
  PROVE  /\ OldValues(id)' = Undone(rollback'[id], Len(rollback'[id]))
         /\ rollback'[id] = rollback[id] => OldValues(id)' = OldValues(id)
<1>1. OldValues(id)' = Undone(rollback'[id], Len(rollback'[id]))
  BY DEF OldValues, Undone
<1> QED
  BY <1>1 DEF OldValues

LEMMA LeavesNext ==
  ASSUME NEW k \in Job, old'[k] = old[k],
         \A c \in Cell : \A l \in Covering(old[k], c) :
           /\ copy'[k].v.cells[c] # old[k].cells[c]
           /\ l = First(Covering(old[k], c)) /\ ~l.whole
           => \/ c \in DOMAIN OldValues(l.id)'
              \/ Blocked(l.id)' \/ Taking(l.id)' # {}
  PROVE  Leaves(k)'
<1>1. \A c : /\ Covering(old[k], c)' = Covering(old'[k], c)
            /\ First(Covering(old[k], c))' = First(Covering(old'[k], c))
  BY DEF Covering, First, LockContains
<1>2. Leaves(k)' <=>
        \A c \in Cell : \A l \in Covering(old'[k], c) :
          /\ copy'[k].v.cells[c] # old'[k].cells[c]
          /\ l = First(Covering(old'[k], c)) /\ ~l.whole
          => \/ c \in DOMAIN OldValues(l.id)'
             \/ Blocked(l.id)' \/ Taking(l.id)' # {}
  BY <1>1, Zenon DEF Leaves
<1> QED
  BY <1>2

(* A step of j without a commit leaves alone what other jobs took.         *)
LEMMA OthersTake ==
  ASSUME NEW j \in Job, OtherJobsStay(j), cube' = cube,
         \A k \in Job \ {j} : commitTry'[k] = commitTry[k]
  PROVE  \A k \in Job \ {j} : /\ UpToDate(k)' <=> UpToDate(k)
                              /\ \A id : /\ Takes(k, id)' <=> Takes(k, id)
                                         /\ Blocks(k, id)' <=> Blocks(k, id)
<1> SUFFICES ASSUME NEW k \in Job \ {j}
             PROVE  /\ UpToDate(k)' <=> UpToDate(k)
                    /\ \A id : /\ Takes(k, id)' <=> Takes(k, id)
                               /\ Blocks(k, id)' <=> Blocks(k, id)
  OBVIOUS
<1>1. UpToDate(k)' <=> UpToDate(k)
  BY DEF OtherJobsStay, UpToDate
<1>2. ASSUME NEW id PROVE RollsBack(k, id)' <=> RollsBack(k, id)
  BY DEF OtherJobsStay, RollsBack
<1>3. ASSUME NEW id PROVE Takes(k, id)' <=> Takes(k, id)
  BY <1>1, <1>2 DEF Takes
<1>4. ASSUME NEW id PROVE Blocks(k, id)' <=> Blocks(k, id)
  BY <1>2 DEF OtherJobsStay, Blocks
<1> QED
  BY <1>1, <1>3, <1>4

(* A step of j that commits nothing, takes nothing and gives no storage a  *)
(* value.                                                                  *)
LEMMA UndoQuiet ==
  ASSUME TypeInv, LocksInv, UndoInv, NEW j \in Job, OtherJobsStay(j), cube' = cube,
         before' = before, unrecorded \subseteq unrecorded',
         \A k \in Job \ {j} : commitTry'[k] = commitTry[k],
         \A id \in Issued : rollback'[id] = rollback[id],
         \A id : ~Takes(j, id)',
         \A id \in Issued : Takes(j, id) \/ Blocks(j, id) => Blocks(j, id)',
         request[j].op = "replace" => ~UpToDate(j)',
         \A l \in Fresh(j)' : rollback'[l.id] = <<>>
  PROVE  UndoInv'
<1>1. \A k \in Job \ {j} : /\ UpToDate(k)' <=> UpToDate(k)
                           /\ \A id : /\ Takes(k, id)' <=> Takes(k, id)
                                      /\ Blocks(k, id)' <=> Blocks(k, id)
  BY OthersTake
<1>2. ASSUME NEW id \in Issued, ~Blocked(id)'
      PROVE  ~Blocked(id) /\ Taking(id)' = Taking(id) /\ j \notin Taking(id)
  BY <1>1, <1>2 DEF Blocked, Taking
<1>3. \A id \in Issued : OldValues(id)' = OldValues(id)
  BY OldValuesNext
<1>4. /\ \A k \in Job : Added(k)' = Added(k)
      /\ \A k \in Job \ {j} : Fresh(k)' = Fresh(k)
  BY NothingCommitted
<1>6. StoragesLeadBack'
  <2> SUFFICES ASSUME NEW k \in Job, NEW l \in Added(k) \intersect cube.locks,
                      l.id \notin unrecorded', ~Blocked(l.id)', NEW c \in l.area
               PROVE  /\ Taking(l.id)' = {} =>
                           LeadsBack(l.id, cube.cells, c)' = before[k][c]
                      /\ \A r \in Job : Taking(l.id)' = {r} =>
                           LeadsBack(l.id, copy[r].v.cells, c)' = before[k][c]
    BY <1>4 DEF StoragesLeadBack
  <2>1. l.id \in Issued
    BY IdsInRange
  <2>2. OldValues(l.id)' = OldValues(l.id)
    BY <1>3, <2>1
  <2>3. LeadsBack(l.id, cube.cells, c)' = LeadsBack(l.id, cube.cells, c)
    BY <2>2 DEF LeadsBack, Over
  <2>4. \A r \in Job \ {j} :
          LeadsBack(l.id, copy[r].v.cells, c)' = LeadsBack(l.id, copy[r].v.cells, c)
    BY <2>2 DEF LeadsBack, Over, OtherJobsStay
  <2>5. l.id \notin unrecorded
    OBVIOUS
  <2> QED
    BY <1>2, <2>1, <2>3, <2>4, <2>5 DEF UndoInv, StoragesLeadBack
<1>7. WritesRecorded'
  <2> SUFFICES ASSUME NEW k \in Job \ {j}, request[k].op = "replace", UpToDate(k)
               PROVE  Leaves(k)'
    BY <1>1 DEF WritesRecorded, OtherJobsStay
  <2>1. Leaves(k)
    BY DEF UndoInv, WritesRecorded
  <2>2. \A c : Covering(old[k], c) \subseteq old[k].locks
    BY DEF Covering
  <2>3. \A l \in old[k].locks : l.id \in Issued
    BY IdsInRange
  <2>4. /\ old'[k] = old[k] /\ copy'[k] = copy[k]
    BY DEF OtherJobsStay
  <2>5. ASSUME NEW id \in Issued, Blocked(id) \/ Taking(id) # {}
        PROVE  Blocked(id)' \/ Taking(id)' # {}
    BY <1>2, <2>5
  <2> SUFFICES ASSUME NEW c \in Cell, NEW l \in Covering(old[k], c),
                      copy[k].v.cells[c] # old[k].cells[c],
                      l = First(Covering(old[k], c)), ~l.whole
               PROVE  \/ c \in DOMAIN OldValues(l.id)'
                      \/ Blocked(l.id)' \/ Taking(l.id)' # {}
    BY <2>4, LeavesNext
  <2>6. l.id \in Issued /\ OldValues(l.id)' = OldValues(l.id)
    BY <1>3, <2>2, <2>3
  <2> QED
    BY <2>1, <2>5, <2>6 DEF Leaves
<1>8. FreshIsEmpty'
  <2>1. ASSUME NEW k \in Job \ {j}, NEW l \in Fresh(k) PROVE rollback'[l.id] = <<>>
    <3>1. l.id \in Issued
      BY IdsInRange DEF Fresh
    <3> QED
      BY <3>1 DEF UndoInv, FreshIsEmpty
  <2> QED
    BY <1>4, <2>1 DEF FreshIsEmpty
<1> QED
  BY <1>6, <1>7, <1>8 DEF UndoInv

LEMMA OldValuesHave ==
  ASSUME TypeInv, NEW id \in Issued, NEW c
  PROVE  c \in DOMAIN OldValues(id) <=>
           \E i \in DOMAIN rollback[id] : c \in DOMAIN rollback[id][i]
<1> DEFINE steps == rollback[id]
<1>1. steps \in Seq(Step) /\ Len(steps) \in Nat /\ DOMAIN steps = 1 .. Len(steps)
  BY DEF TypeInv, TypeOK, Issued
<1>2. {i \in 1 .. Len(steps) : i > Len(steps) - Len(steps)} = 1 .. Len(steps)
  BY <1>1
<1> HIDE DEF steps
<1>3. c \in DOMAIN Undone(steps, Len(steps)) <=>
        \E i \in 1 .. Len(steps) : c \in DOMAIN steps[i]
  BY <1>1, <1>2, UndoneOldest
<1> QED
  BY <1>1, <1>3 DEF OldValues, steps

(* What a write adds to a storage.                                         *)
LEMMA RecordAdds ==
  ASSUME TypeInv, NEW v \in Version, NEW C \in SUBSET Cell, NEW id \in Issued,
         rollback' = Record(v, C), NEW c
  PROVE  /\ c \in DOMAIN OldValues(id)' <=>
              c \in DOMAIN OldValues(id) \union Recorded(v, id, C)
         /\ c \in DOMAIN OldValues(id) => OldValues(id)'[c] = OldValues(id)[c]
         /\ c \in Recorded(v, id, C) \ DOMAIN OldValues(id) =>
              OldValues(id)'[c] = v.cells[c]
<1> DEFINE R == Recorded(v, id, C)
<1> DEFINE s == [x \in R |-> v.cells[x]]
<1>1. rollback'[id] = IF R = {} THEN rollback[id] ELSE Append(rollback[id], s)
  BY DEF Record
<1>2. rollback[id] \in Seq(Step)
  BY DEF TypeInv, TypeOK, Issued
<1>3. s \in Step /\ DOMAIN s = R
  <2>1. R \in SUBSET Cell
    BY DEF Recorded
  <2>2. s \in [R -> Value]
    BY <2>1 DEF Version
  <2> QED
    BY <2>1, <2>2, StepDef
<1> HIDE DEF R
<1>4. CASE R = {}
  <2>1. OldValues(id)' = OldValues(id)
    BY <1>1, <1>4, OldValuesNext
  <2> QED
    BY <1>4, <2>1 DEF R
<1>5. CASE R # {}
  <2>1. OldValues(id)' = Undone(Append(rollback[id], s), Len(Append(rollback[id], s)))
    BY <1>1, <1>5, OldValuesNext
  <2>2. c \in R => s[c] = v.cells[c]
    OBVIOUS
  <2> HIDE DEF s
  <2>3. /\ c \in DOMAIN OldValues(id)' <=> c \in DOMAIN OldValues(id) \union DOMAIN s
        /\ c \in DOMAIN OldValues(id) => OldValues(id)'[c] = OldValues(id)[c]
        /\ c \in DOMAIN s \ DOMAIN OldValues(id) => OldValues(id)'[c] = s[c]
    BY <1>2, <1>3, <2>1, UndoneAppend DEF OldValues
  <2> QED
    BY <1>3, <2>2, <2>3 DEF R
<1> QED
  BY <1>4, <1>5

(* A write records in the storages of the locks of the version.            *)
LEMMA RecordsForLocks ==
  ASSUME NEW v \in Version, NEW C \in SUBSET Cell, NEW id, Recorded(v, id, C) # {}
  PROVE  \E l \in v.locks : l.id = id
<1>1. PICK c \in C : /\ Covering(v, c) # {} /\ First(Covering(v, c)).id = id
  BY DEF Recorded
<1>2. Covering(v, c) \subseteq v.locks /\ v.locks \subseteq Lock
  BY DEF Covering, Version
<1>3. First(Covering(v, c)) \in Covering(v, c)
  BY <1>1, <1>2, FirstIsOne
<1> QED
  BY <1>1, <1>2, <1>3

LEMMA FreshStaysEmpty ==
  ASSUME TypeInv, LocksInv, FreshIsEmpty, NEW v \in Version, NEW C \in SUBSET Cell,
         \A l \in v.locks : l.id \in LockIds \union Removed,
         rollback' = Record(v, C),
         NEW k \in Job, NEW l \in Fresh(k)
  PROVE  rollback'[l.id] = <<>>
<1>1. l.id \in Issued
  BY IdsInRange DEF Fresh, Issued
<1>2. l.id \notin LockIds \union Removed
  BY DEF LocksInv, FreshIsNew
<1>3. Recorded(v, l.id, C) = {}
  BY <1>2, RecordsForLocks
<1>4. rollback'[l.id] = rollback[l.id]
  BY <1>1, <1>3 DEF Record
<1> QED
  BY <1>4 DEF FreshIsEmpty

(* cell/replace, up to its commit: what it leaves in the storage of a lock *)
(* is what the cell has, unless the storage has a value already.           *)
LEMMA UndoReplace ==
  ASSUME TypeInv, LocksInv, RegularInv, UndoInv, NEW j \in Job,
         Replace(j), ~Throw(j)
  PROVE  UndoInv'
<1> DEFINE v == copy[j].v
<1> DEFINE w == SetCellValue(j, v)
<1> DEFINE m == [c \in {request[j].cell} |-> j]
<1> DEFINE C == DOMAIN m \union DOMAIN Pending(v)
<1>1. /\ w.ok /\ rollback' = w.rollback
      /\ unrecorded' = unrecorded \union Outdated(j, v)
      /\ Returns(j, w.v, w.out)
      /\ pc[j] = "found" /\ request[j].op = "replace"
  BY Zenon DEF Replace, Call
<1>2. v \in Version /\ Refers(v) /\ TypeOK /\ Regular(v) /\ v = old[j]
  BY <1>1, CopyType DEF TypeInv, RegularInv, Changes
<1>3. /\ OtherJobsStay(j) /\ cube' = cube
      /\ pc'[j] = "changed" /\ copy'[j].v = w.v /\ copy'[j].out = w.out
      /\ old'[j] = old[j] /\ target'[j] = target[j]
      /\ before' = before /\ commitTry' = commitTry /\ request' = request
  <2> HIDE DEF w
  <2>1. before' = before /\ commitTry' = commitTry /\ request' = request
    BY <1>1 DEF Returns
  <2> QED
    BY <1>1, <2>1, ReturnsMoves
<1>4. \A id : ~Takes(j, id) /\ ~Blocks(j, id) /\ ~Takes(j, id)' /\ ~Blocks(j, id)'
  BY <1>1, <1>3 DEF Takes, Blocks, RollsBack
<1>5. Fresh(j)' = {}
  BY <1>1, <1>3 DEF Fresh, Locking
<1>6. CASE v.wholeCubeLocked
  <2>1. w.rollback = rollback /\ w.out = {"storage"}
    BY <1>6 DEF SetCellValue
  <2>2. ~UpToDate(j)'
    BY <1>3, <2>1 DEF UpToDate
  <2>3. unrecorded \subseteq unrecorded' /\ rollback' = rollback
    BY <1>1, <2>1
  <2> HIDE DEF w
  <2> QED
    BY <1>3, <1>4, <1>5, <2>2, <2>3, UndoQuiet
<1>7. CASE ~v.wholeCubeLocked
  <2>1. w = [ok |-> TRUE, out |-> Written(v, m), rollback |-> Record(v, C),
             v |-> Stored(v, m), changed |-> Gathered(v, m)]
    BY <1>1, <1>7, Zenon DEF SetCellValue
  <2>2. Pending(v) = << >>
    BY <1>2, <1>7 DEF Pending, Regular
  <2>3. request[j].cell \in Cell
    BY <1>1, <1>2, RequestType
  <2>4. C = {request[j].cell}
    BY <2>2
  <2>5. rollback' = Record(v, C)
    BY <1>1, <2>1
  <2>6. \A c \in Cell : c # request[j].cell => copy'[j].v.cells[c] = v.cells[c]
    <3>1. Stored(v, m).cells = Over(m, Over(<< >>, v.cells))
      BY <1>2, <2>2, StoredKeeps
    <3>2. v.cells \in [Cell -> Value]
      BY <1>2 DEF Version
    <3>3. copy'[j].v.cells = Over(m, Over(<< >>, v.cells))
      BY <1>3, <2>1, <3>1
    <3> QED
      BY <3>2, <3>3 DEF Over
  <2> HIDE DEF w, v
  <2>7. /\ \A id : Taking(id)' = Taking(id) /\ (Blocked(id)' <=> Blocked(id))
        /\ \A k \in Job \ {j} : UpToDate(k)' <=> UpToDate(k)
    <3>1. \A k \in Job \ {j} : /\ UpToDate(k)' <=> UpToDate(k)
                               /\ \A id : /\ Takes(k, id)' <=> Takes(k, id)
                                          /\ Blocks(k, id)' <=> Blocks(k, id)
      BY <1>3, OthersTake
    <3> QED
      BY <1>4, <3>1 DEF Taking, Blocked
  <2>8. C \in SUBSET Cell
    BY <2>3, <2>4
  <2> HIDE DEF C
  <2>9. StoragesLeadBack'
    <3> SUFFICES ASSUME NEW k \in Job, NEW l \in Added(k) \intersect cube.locks,
                        l.id \notin unrecorded', ~Blocked(l.id), NEW c \in l.area
                 PROVE  /\ Taking(l.id) = {} =>
                             LeadsBack(l.id, cube.cells, c)' = before[k][c]
                        /\ \A r \in Job : Taking(l.id) = {r} =>
                             LeadsBack(l.id, copy[r].v.cells, c)' = before[k][c]
      BY <1>3, <2>7, NothingCommitted DEF StoragesLeadBack
    <3>1. l.id \in Issued /\ l \in Lock /\ c \in Cell
      BY IdsInRange, CopyType DEF Issued, Version, Lock
    <3>2. l.id \notin unrecorded /\ l.id \notin Outdated(j, v)
      BY <1>1 DEF v
    <3>3. \A r \in Taking(l.id) : copy'[r] = copy[r] /\ r \in Job
      BY <1>3, <1>4 DEF Taking, OtherJobsStay
    <3>4. \A r \in Job : copy[r].v.cells \in [Cell -> Value]
      BY CopyType DEF Version
    <3>5. cube.cells \in [Cell -> Value]
      BY CopyType DEF Version
    <3>6. ASSUME NEW cells \in [Cell -> Value],
                 c \in DOMAIN OldValues(l.id) \/ c \notin Recorded(v, l.id, C)
                 \/ v.cells[c] = cells[c]
          PROVE  Over(OldValues(l.id)', cells)[c] = LeadsBack(l.id, cells, c)
      <4>1. /\ c \in DOMAIN OldValues(l.id)' <=>
                 c \in DOMAIN OldValues(l.id) \union Recorded(v, l.id, C)
            /\ c \in DOMAIN OldValues(l.id) =>
                 OldValues(l.id)'[c] = OldValues(l.id)[c]
            /\ c \in Recorded(v, l.id, C) \ DOMAIN OldValues(l.id) =>
                 OldValues(l.id)'[c] = v.cells[c]
        BY <1>2, <2>5, <2>8, <3>1, RecordAdds
      <4>2. Over(OldValues(l.id)', cells)[c] =
              IF c \in DOMAIN OldValues(l.id)' THEN OldValues(l.id)'[c] ELSE cells[c]
        BY <3>1 DEF Over
      <4>3. LeadsBack(l.id, cells, c) =
              IF c \in DOMAIN OldValues(l.id) THEN OldValues(l.id)[c] ELSE cells[c]
        BY <3>1, LeadsBackIs
      <4> QED
        BY <3>6, <4>1, <4>2, <4>3
    <3>7. /\ LeadsBack(l.id, cube.cells, c)' = Over(OldValues(l.id)', cube.cells)[c]
          /\ \A r \in Taking(l.id) : LeadsBack(l.id, copy[r].v.cells, c)' =
                                       Over(OldValues(l.id)', copy[r].v.cells)[c]
      BY <1>3, <3>3 DEF LeadsBack, Over
    <3>8. \/ c \in DOMAIN OldValues(l.id)
          \/ c \notin Recorded(v, l.id, C)
          \/ v.cells[c] = cube.cells[c] /\ Taking(l.id) = {}
      <4> SUFFICES ASSUME c \notin DOMAIN OldValues(l.id), c \in Recorded(v, l.id, C)
                   PROVE  v.cells[c] = cube.cells[c] /\ Taking(l.id) = {}
        OBVIOUS
      <4>1. \A i \in DOMAIN rollback[l.id] : c \notin DOMAIN rollback[l.id][i]
        BY <3>1, OldValuesHave
      <4>2. C = {request[j].cell} \union DOMAIN Pending(v)
        BY DEF C
      <4>3. v.cells[c] = cube.cells[c] /\ ~Undoing(l.id)
        BY <3>1, <3>2, <4>1, <4>2 DEF Outdated
      <4>4. Taking(l.id) = {}
        BY <4>3 DEF Taking, Takes, RollsBack, UpToDate, Undoing
      <4> QED
        BY <4>3, <4>4
    <3>9. /\ Taking(l.id) = {} => LeadsBack(l.id, cube.cells, c) = before[k][c]
          /\ \A r \in Job : Taking(l.id) = {r} =>
               LeadsBack(l.id, copy[r].v.cells, c) = before[k][c]
      BY <3>2 DEF UndoInv, StoragesLeadBack
    <3>10. CASE Taking(l.id) = {}
      BY <3>5, <3>6, <3>7, <3>8, <3>9, <3>10
    <3>11. CASE Taking(l.id) # {}
      BY <3>3, <3>4, <3>6, <3>7, <3>8, <3>9, <3>11
    <3> QED
      BY <3>10, <3>11
  <2>10. ASSUME NEW id \in Issued, NEW c
         PROVE  c \in DOMAIN OldValues(id)' <=>
                  c \in DOMAIN OldValues(id) \union Recorded(v, id, C)
    BY <1>2, <2>5, <2>8, RecordAdds
  <2>11. WritesRecorded'
    <3>1. ASSUME NEW k \in Job \ {j}, request[k].op = "replace", UpToDate(k)
          PROVE  Leaves(k)'
      <4>1. Leaves(k) /\ copy'[k] = copy[k] /\ old'[k] = old[k]
        BY <1>3, <3>1 DEF UndoInv, WritesRecorded, OtherJobsStay
      <4>2. \A c \in Cell : \A l \in Covering(old[k], c) : l.id \in Issued
        BY IdsInRange DEF Covering, Issued
      <4> QED
        BY <2>7, <2>10, <4>1, <4>2, LeavesNext DEF Leaves
    <3>2. Leaves(j)'
      <4> SUFFICES ASSUME NEW c \in Cell, NEW l \in Covering(old[j], c),
                          copy'[j].v.cells[c] # old[j].cells[c],
                          l = First(Covering(old[j], c)), ~l.whole
                   PROVE  c \in DOMAIN OldValues(l.id)'
        BY <1>3, LeavesNext
      <4>1. c \in C
        BY <1>2, <2>4, <2>6
      <4>2. c \in Recorded(v, l.id, C)
        BY <1>2, <4>1 DEF Recorded
      <4>3. l.id \in Issued
        BY IdsInRange DEF Covering, Issued
      <4> QED
        BY <2>10, <4>2, <4>3
    <3> QED
      BY <1>3, <2>7, <3>1, <3>2 DEF WritesRecorded
  <2>12. FreshIsEmpty'
    <3>1. \A l \in v.locks : l.id \in LockIds \union Removed
      BY <1>2 DEF LocksInv, NoneForgotten, LockIds
    <3>2. \A k \in Job \ {j} : Fresh(k)' = Fresh(k)
      BY <1>3, NothingCommitted
    <3>3. \A k \in Job : \A l \in Fresh(k) : rollback'[l.id] = <<>>
      BY <1>2, <2>5, <2>8, <3>1, FreshStaysEmpty DEF UndoInv
    <3> QED
      BY <1>5, <3>2, <3>3 DEF FreshIsEmpty
  <2> QED
    BY <2>9, <2>11, <2>12 DEF UndoInv
<1> QED
  BY <1>6, <1>7

(* cube/rollback: the values it puts into its copy lead back through what  *)
(* it leaves in the storage to what the storage led back to.               *)
LEMMA UndoRollback ==
  ASSUME TypeInv, LocksInv, RegularInv, UndoInv, NEW j \in Job,
         RollbackCube(j), ~Throw(j)
  PROVE  UndoInv'
<1>0. PICK id : id = target[j]
  OBVIOUS
<1> DEFINE v == copy[j].v
<1> DEFINE steps == rollback[id]
<1> DEFINE n == IF request[j].steps = 0 \/ request[j].steps > Len(rollback[id])
                THEN Len(rollback[id]) ELSE request[j].steps
<1> DEFINE rest == SubSeq(steps, 1, Len(steps) - n)
<1> DEFINE undo == Undone(rollback[id], n)
<1> DEFINE w == IF request[j].steps = 0 THEN RemoveLock(v, id) ELSE v
<1> DEFINE s == Stored(w, undo)
<1> DEFINE out == Written(v, undo) \union
                    (IF request[j].steps = 0 THEN {"locks"} ELSE {})
<1>1. /\ ~v.wholeCubeLocked /\ MayUnlock(j) /\ Returns(j, s, out)
      /\ rollback' = [rollback EXCEPT ![id] = SubSeq(@, 1, Len(@) - n)]
      /\ unrecorded' = unrecorded
      /\ pc[j] = "found" /\ request[j].op = "rollback"
  BY <1>0, Zenon DEF RollbackCube, Call
<1>2. v \in Version /\ Refers(v) /\ TypeOK /\ Regular(v) /\ v = old[j]
  BY <1>1, CopyType DEF TypeInv, RegularInv, Changes
<1>3. id \in Issued
  BY <1>0, <1>1, TargetIssued
<1>4. steps \in Seq(Step) /\ Len(steps) \in Nat
  BY <1>2, <1>3 DEF TypeOK, Issued
<1>5. n \in 0 .. Len(steps)
  BY <1>1, <1>2, <1>4, RequestType
<1>6. undo \in Step
  BY <1>4, <1>5, UndoneType
<1>7. /\ OtherJobsStay(j) /\ cube' = cube
      /\ pc'[j] = "changed" /\ copy'[j].v = s /\ copy'[j].out = out
      /\ old'[j] = old[j] /\ target'[j] = id
      /\ before' = before /\ commitTry' = commitTry /\ request' = request
  <2> HIDE DEF s, out
  <2>1. before' = before /\ commitTry' = commitTry /\ request' = request
    BY <1>1 DEF Returns
  <2> QED
    BY <1>0, <1>1, <2>1, ReturnsMoves
<1>8. Pending(v) = << >> /\ "pages" \in out <=> DOMAIN undo # {}
  <2>1. Pending(v) = << >>
    BY <1>1, <1>2 DEF Pending, Regular
  <2> HIDE DEF undo
  <2> QED
    BY <2>1 DEF Written
<1>9. copy'[j].v.cells = Over(undo, v.cells)
  <2>1. w.cells = v.cells /\ w.changedCells = 0 /\ w \in Version
    BY <1>1, <1>2, RemoveLockType, ZenonT(30) DEF RemoveLock, Version, Regular
  <2>2. Pending(w) = << >>
    BY <2>1 DEF Pending
  <2> HIDE DEF w, undo
  <2>3. s.cells = Over(undo, Over(<< >>, v.cells))
    BY <2>1, <2>2, StoredKeeps
  <2>4. Over(<< >>, v.cells) = v.cells
    <3>1. v.cells \in [Cell -> Value]
      BY <1>2 DEF Version
    <3> QED
      BY <3>1 DEF Over
  <2> QED
    BY <1>7, <2>3, <2>4
<1>10. Fresh(j)' = {}
  BY <1>1, <1>7 DEF Fresh, Locking
<1>11. rollback'[id] = rest /\ \A x \in Issued \ {id} : rollback'[x] = rollback[x]
  <2>1. rollback' = [rollback EXCEPT ![id] = rest]
    BY <1>1
  <2>2. DOMAIN rollback = Issued
    BY <1>2 DEF TypeOK, Issued
  <2> HIDE DEF rest
  <2> QED
    BY <1>3, <2>1, <2>2
<1>12. ASSUME NEW c
       PROVE  /\ c \in DOMAIN OldValues(id) <=>
                   c \in DOMAIN OldValues(id)' \union DOMAIN undo
              /\ c \in DOMAIN OldValues(id)' => OldValues(id)'[c] = OldValues(id)[c]
              /\ c \in DOMAIN undo \ DOMAIN OldValues(id)' =>
                   OldValues(id)[c] = undo[c]
  <2>1. OldValues(id)' = Undone(rest, Len(rest))
    <3>1. OldValues(id)' = Undone(rollback'[id], Len(rollback'[id]))
      BY <1>7, OldValuesNext
    <3> HIDE DEF rest
    <3> QED
      BY <1>11, <3>1
  <2>2. OldValues(id) = Undone(steps, Len(steps)) /\ undo = Undone(steps, n)
    BY DEF OldValues
  <2> DEFINE all == OldValues(id)
  <2> DEFINE some == OldValues(id)'
  <2> HIDE DEF n, undo, steps
  <2>3. /\ c \in DOMAIN all <=> c \in DOMAIN some \union DOMAIN undo
        /\ c \in DOMAIN some => all[c] = some[c]
        /\ c \in DOMAIN undo \ DOMAIN some => all[c] = undo[c]
    BY <1>4, <1>5, <2>1, <2>2, UndoneSplit
  <2> QED
    BY <2>3
<1>13. \A x \in Issued \ {id} : OldValues(x)' = OldValues(x)
  BY <1>11, OldValuesNext
<1> HIDE DEF n, undo, w, s, out, rest, steps
<1>14. \A k \in Job \ {j} : /\ UpToDate(k)' <=> UpToDate(k)
                            /\ \A x : /\ Takes(k, x)' <=> Takes(k, x)
                                      /\ Blocks(k, x)' <=> Blocks(k, x)
  BY <1>7, OthersTake
<1>15. /\ \A x : ~Takes(j, x) /\ (x # id => ~Takes(j, x)' /\ ~Blocks(j, x)')
       /\ \A x : Blocks(j, x) => Blocks(j, x)'
       /\ "pages" \in out => Takes(j, id)' \/ Blocks(j, id)'
       /\ Takes(j, id)' => "pages" \in out /\ old[j].pagesVersion = cube.pagesVersion
  <2>1. commitTry[j] \in Nat
    BY <1>2 DEF TypeOK
  <2>2. ASSUME NEW x
        PROVE  /\ Takes(j, x)' <=> /\ id = x /\ commitTry[j] = 0 /\ "pages" \in out
                                   /\ old[j].pagesVersion = cube.pagesVersion
               /\ Blocks(j, x)' <=> /\ id = x
                                    /\ \/ commitTry[j] > 0
                                       \/ /\ "pages" \in out
                                          /\ old[j].pagesVersion # cube.pagesVersion
               /\ ~Takes(j, x)
               /\ Blocks(j, x) <=> id = x /\ commitTry[j] > 0
    BY <1>0, <1>1, <1>7 DEF Takes, Blocks, RollsBack, UpToDate
  <2>3. /\ \A x : ~Takes(j, x) /\ (x # id => ~Takes(j, x)' /\ ~Blocks(j, x)')
        /\ \A x : Blocks(j, x) => Blocks(j, x)'
    BY <2>2
  <2>4. Takes(j, id)' => "pages" \in out /\ old[j].pagesVersion = cube.pagesVersion
    BY <2>2
  <2>5. commitTry[j] = 0 \/ commitTry[j] > 0
    BY <2>1
  <2>6. "pages" \in out => Takes(j, id)' \/ Blocks(j, id)'
    BY <2>2, <2>5
  <2> QED
    BY <2>3, <2>4, <2>6
<1>16. ASSUME NEW x
       PROVE  /\ j \notin Taking(x)
              /\ Taking(x)' = IF Takes(j, x)' THEN Taking(x) \union {j} ELSE Taking(x)
              /\ Blocked(x) => Blocked(x)'
              /\ "pages" \in out /\ x = id => Blocked(x)' \/ Taking(x)' # {}
  <2>1. j \notin Taking(x)
    BY <1>15 DEF Taking
  <2>2. Taking(x)' = IF Takes(j, x)' THEN Taking(x) \union {j} ELSE Taking(x)
    BY <1>14, <1>15 DEF Taking
  <2>3. Blocked(x) => Blocked(x)'
    BY <1>14, <1>15 DEF Blocked
  <2>4. "pages" \in out /\ x = id => Blocked(x)' \/ Taking(x)' # {}
    BY <1>15, <2>2 DEF Blocked
  <2> QED
    BY <2>1, <2>2, <2>3, <2>4
<1>17. StoragesLeadBack'
  <2> SUFFICES ASSUME NEW k \in Job, NEW l \in Added(k) \intersect cube.locks,
                      l.id \notin unrecorded, ~Blocked(l.id)', NEW c \in l.area
               PROVE  /\ Taking(l.id)' = {} =>
                           LeadsBack(l.id, cube.cells, c)' = before[k][c]
                      /\ \A r \in Job : Taking(l.id)' = {r} =>
                           LeadsBack(l.id, copy[r].v.cells, c)' = before[k][c]
    BY <1>1, <1>7, NothingCommitted DEF StoragesLeadBack
  <2>1. l.id \in Issued /\ c \in Cell
    BY IdsInRange, CopyType DEF Issued, Version, Lock
  <2>2. /\ Taking(l.id) = {} => LeadsBack(l.id, cube.cells, c) = before[k][c]
        /\ \A r \in Job : Taking(l.id) = {r} =>
             LeadsBack(l.id, copy[r].v.cells, c) = before[k][c]
    BY <1>16 DEF UndoInv, StoragesLeadBack
  <2>3. \A r \in Taking(l.id) : copy'[r] = copy[r] /\ r \in Job
    BY <1>7, <1>16 DEF Taking, OtherJobsStay
  <2>4. /\ \A r \in Job : copy[r].v.cells \in [Cell -> Value]
        /\ cube.cells \in [Cell -> Value]
    BY CopyType DEF Version
  <2>5. /\ LeadsBack(l.id, cube.cells, c)' = Over(OldValues(l.id)', cube.cells)[c]
        /\ \A r \in Taking(l.id) : LeadsBack(l.id, copy[r].v.cells, c)' =
                                     Over(OldValues(l.id)', copy[r].v.cells)[c]
        /\ LeadsBack(l.id, copy[j].v.cells, c)' =
             Over(OldValues(l.id)', copy'[j].v.cells)[c]
    BY <1>7, <2>3 DEF LeadsBack, Over
  <2>6. CASE ~Takes(j, l.id)'
    <3>1. Taking(l.id)' = Taking(l.id)
      BY <1>16, <2>6
    <3>2. ASSUME NEW cells \in [Cell -> Value]
          PROVE  Over(OldValues(l.id)', cells)[c] = LeadsBack(l.id, cells, c)
      <4>1. CASE l.id # id
        BY <1>13, <2>1, <4>1 DEF LeadsBack
      <4>2. CASE l.id = id
        <5>1. DOMAIN undo = {}
          BY <1>8, <1>15, <2>6, <4>2 DEF Blocked
        <5>2. /\ c \in DOMAIN OldValues(l.id) <=> c \in DOMAIN OldValues(l.id)'
              /\ c \in DOMAIN OldValues(l.id)' =>
                   OldValues(l.id)'[c] = OldValues(l.id)[c]
          <6>1. OldValues(l.id)' = OldValues(id)'
            BY <1>7, <4>2, OldValuesNext
          <6> QED
            BY <1>12, <4>2, <5>1, <6>1
        <5>3. LeadsBack(l.id, cells, c) =
                IF c \in DOMAIN OldValues(l.id) THEN OldValues(l.id)[c] ELSE cells[c]
          BY <2>1, LeadsBackIs
        <5>4. Over(OldValues(l.id)', cells)[c] =
                IF c \in DOMAIN OldValues(l.id)' THEN OldValues(l.id)'[c] ELSE cells[c]
          BY <2>1 DEF Over
        <5> QED
          BY <5>2, <5>3, <5>4
      <4> QED
        BY <4>1, <4>2
    <3>3. CASE Taking(l.id) = {}
      BY <2>2, <2>4, <2>5, <3>1, <3>2, <3>3
    <3>4. CASE Taking(l.id) # {}
      BY <2>2, <2>3, <2>4, <2>5, <3>1, <3>2, <3>4
    <3> QED
      BY <3>3, <3>4
  <2>7. CASE Takes(j, l.id)'
    <3>1. l.id = id /\ v.cells = cube.cells
      <4>1. l.id = id
        BY <1>15, <2>7
      <4>2. old[j].pagesVersion = cube.pagesVersion
        BY <1>15, <2>7, <4>1
      <4> QED
        BY <1>2, <4>1, <4>2 DEF RegularInv, NumbersNameParts
    <3>2. /\ Taking(l.id)' # {}
          /\ \A r \in Job : Taking(l.id)' = {r} => r = j /\ Taking(l.id) = {}
      BY <1>16, <2>7
    <3>3. Over(OldValues(l.id)', Over(undo, cube.cells))[c]
            = LeadsBack(l.id, cube.cells, c)
      <4>1. OldValues(l.id)' = OldValues(id)'
        BY <1>7, <3>1, OldValuesNext
      <4>2. Over(undo, cube.cells)[c] = IF c \in DOMAIN undo THEN undo[c] ELSE cube.cells[c]
        BY <2>1, <2>4 DEF Over
      <4>3. LeadsBack(l.id, cube.cells, c) =
              IF c \in DOMAIN OldValues(l.id) THEN OldValues(l.id)[c] ELSE cube.cells[c]
        BY <2>1, <2>4, LeadsBackIs
      <4>4. c \in DOMAIN Over(undo, cube.cells)
        BY <2>1, <2>4 DEF Over
      <4>5. Over(OldValues(l.id)', Over(undo, cube.cells))[c] =
              IF c \in DOMAIN OldValues(l.id)' THEN OldValues(l.id)'[c]
                                               ELSE Over(undo, cube.cells)[c]
        BY <4>4 DEF Over
      <4> QED
        BY <1>12, <3>1, <4>1, <4>2, <4>3, <4>5
    <3>4. Taking(l.id) = {} =>
            LeadsBack(l.id, copy[j].v.cells, c)' = before[k][c]
      BY <1>9, <2>2, <2>5, <3>1, <3>3
    <3> QED
      BY <3>2, <3>4
  <2> QED
    BY <2>6, <2>7
<1>18. WritesRecorded'
  <2> SUFFICES ASSUME NEW k \in Job \ {j}, request[k].op = "replace", UpToDate(k)
               PROVE  Leaves(k)'
    BY <1>1, <1>7, <1>14 DEF WritesRecorded
  <2>1. Leaves(k) /\ copy'[k] = copy[k] /\ old'[k] = old[k]
    BY <1>7 DEF UndoInv, WritesRecorded, OtherJobsStay
  <2> SUFFICES ASSUME NEW c \in Cell, NEW l \in Covering(old[k], c),
                      copy[k].v.cells[c] # old[k].cells[c],
                      l = First(Covering(old[k], c)), ~l.whole
               PROVE  \/ c \in DOMAIN OldValues(l.id)'
                      \/ Blocked(l.id)' \/ Taking(l.id)' # {}
    BY <2>1, LeavesNext
  <2>2. c \in DOMAIN OldValues(l.id) \/ Blocked(l.id) \/ Taking(l.id) # {}
    BY <2>1 DEF Leaves
  <2>3. l.id \in Issued
    BY IdsInRange DEF Covering, Issued
  <2>4. CASE l.id # id
    BY <1>13, <1>16, <2>2, <2>3, <2>4
  <2>5. CASE l.id = id
    <3>1. OldValues(l.id)' = OldValues(id)'
      BY <1>7, <2>5, OldValuesNext
    <3> QED
      BY <1>8, <1>12, <1>16, <2>2, <2>5, <3>1
  <2> QED
    BY <2>4, <2>5
<1>19. FreshIsEmpty'
  <2>1. id \in LockIds \union Removed
    <3>1. PICK l \in old[j].locks : l.id = id
      BY <1>0, <1>1, <1>2 DEF MayUnlock
    <3> QED
      BY <3>1 DEF LocksInv, NoneForgotten, LockIds
  <2>2. ASSUME NEW k \in Job, NEW l \in Fresh(k) PROVE rollback'[l.id] = <<>>
    <3>1. l.id # id
      BY <2>1 DEF LocksInv, FreshIsNew
    <3>2. l.id \in Issued
      BY IdsInRange DEF Fresh, Issued
    <3> QED
      BY <1>11, <3>1, <3>2 DEF UndoInv, FreshIsEmpty
  <2>3. \A k \in Job \ {j} : Fresh(k)' = Fresh(k)
    BY <1>7, NothingCommitted
  <2> QED
    BY <1>10, <2>2, <2>3 DEF FreshIsEmpty
<1> QED
  BY <1>17, <1>18, <1>19 DEF UndoInv

(* The locks that are known once j committed: those that were, less the    *)
(* lock it removes, and the one it adds.                                   *)
LEMMA CommittedLocks ==
  ASSUME TypeInv, LocksInv, NEW j \in Job, pc[j] = "changed",
         pc' = [pc EXCEPT ![j] = "done"],
         UNCHANGED <<request, old, copy, target>>,
         cube'.locks = LockListAfter(j)
  PROVE  /\ \A k \in Job : \A l \in Added(k)' \intersect cube'.locks :
              \/ /\ k # j /\ l \in Added(k) \intersect cube.locks
                 /\ Unlocks(j) => l.id # target[j]
              \/ k = j /\ Locking(j) /\ l \in Fresh(j)
         /\ \A k \in Job \ {j} : Fresh(k)' = Fresh(k)
         /\ Fresh(j)' = {}
<1>1. pc'[j] = "done" /\ \A k \in Job \ {j} : pc'[k] = pc[k]
  BY DEF TypeInv, TypeOK
<1>2. ASSUME NEW k \in Job PROVE Locking(k)' = Locking(k)
  BY DEF Locking
<1>3. ASSUME NEW k \in Job \ {j} PROVE Added(k)' = Added(k) /\ Fresh(k)' = Fresh(k)
  BY <1>1, <1>2 DEF Added, Fresh
<1>4. /\ Added(j)' = Fresh(j) /\ Fresh(j)' = {}
      /\ Locking(j) \/ Fresh(j) = {}
  BY <1>1, <1>2 DEF Added, Fresh, Locking
<1>5. ~(Locking(j) /\ Unlocks(j))
  BY DEF Locking, Unlocks
<1>6. ASSUME NEW k \in Job \ {j}, NEW l \in Added(k) \intersect cube'.locks
      PROVE  l \in cube.locks /\ (Unlocks(j) => l.id # target[j])
  <2>1. l \in cube.locks \/ l.id \in Removed
    BY DEF LocksInv, NoneForgotten
  <2>2. l \notin Fresh(j)
    BY <2>1 DEF LocksInv, FreshIsNew, LockIds
  <2> QED
    BY <1>5, <2>2 DEF LockListAfter
<1> QED
  BY <1>3, <1>4, <1>6

(* A commit of pages: no other job can put back what it took any more.     *)
LEMMA PagesCommitted ==
  ASSUME TypeInv, RegularInv, NEW j \in Job, pc' = [pc EXCEPT ![j] = "done"],
         UNCHANGED <<request, commitTry, old, copy, target>>,
         cube'.pagesVersion = cube.number + 1
  PROVE  /\ \A k \in Job : ~UpToDate(k)'
         /\ \A id : Taking(id)' = {}
         /\ \A id : ~Blocked(id)' =>
              \A r \in Job : RollsBack(r, id) =>
                /\ commitTry[r] = 0
                /\ r = j \/ ~(pc[r] = "changed" /\ "pages" \in copy[r].out)
<1>1. ASSUME NEW k \in Job PROVE old[k].pagesVersion # cube.number + 1
  <2> DEFINE p == old[k].pagesVersion
  <2>1. p \in Nat /\ p <= cube.number /\ cube.number \in Nat
    BY CopyType DEF Version, RegularInv, NumbersNameParts
  <2> HIDE DEF p
  <2>2. p # cube.number + 1
    BY <2>1
  <2> QED
    BY <2>2 DEF p
<1>2. \A k \in Job : ~UpToDate(k)'
  BY <1>1 DEF UpToDate
<1>3. \A id : Taking(id)' = {}
  BY <1>2 DEF Taking, Takes
<1>4. ASSUME NEW id, ~Blocked(id)', NEW r \in Job, RollsBack(r, id)
      PROVE  /\ commitTry[r] = 0
             /\ r = j \/ ~(pc[r] = "changed" /\ "pages" \in copy[r].out)
  <2>1. RollsBack(r, id)'
    BY <1>4 DEF RollsBack
  <2>2. /\ ~(commitTry[r] > 0)
        /\ ~(pc'[r] = "changed" /\ "pages" \in copy[r].out)
    BY <1>1, <1>4, <2>1 DEF Blocked, Blocks
  <2>3. commitTry[r] \in Nat /\ (r # j => pc'[r] = pc[r])
    BY DEF TypeInv, TypeOK
  <2> QED
    BY <2>2, <2>3
<1> QED
  BY <1>2, <1>3, <1>4

(* A commit that leaves the pages alone.                                   *)
LEMMA UndoOtherCommit ==
  ASSUME TypeInv, LocksInv, RegularInv, UndoInv, NEW j \in Job, pc[j] = "changed",
         pc' = [pc EXCEPT ![j] = "done"],
         UNCHANGED <<request, rollback, commitTry, old, copy, target>>,
         cube'.locks = LockListAfter(j),
         cube'.cells = cube.cells, cube'.pagesVersion = cube.pagesVersion,
         before' = [before EXCEPT ![j] = cube'.cells],
         unrecorded \subseteq unrecorded',
         "pages" \notin copy[j].out \/ request[j].op = "replace"
  PROVE  UndoInv'
<1>1. pc'[j] = "done" /\ \A k \in Job \ {j} : pc'[k] = pc[k]
  BY DEF TypeInv, TypeOK
<1>2. before'[j] = cube.cells /\ \A k \in Job \ {j} : before'[k] = before[k]
  BY DEF TypeInv, TypeOK
<1>3. /\ \A k \in Job : UpToDate(k)' => UpToDate(k) /\ k # j
      /\ \A k \in Job : \A id : /\ Takes(k, id)' <=> Takes(k, id)
                                /\ Blocks(k, id)' <=> Blocks(k, id)
  <2>1. ~UpToDate(j)' /\ \A k \in Job \ {j} : UpToDate(k)' <=> UpToDate(k)
    BY <1>1 DEF UpToDate
  <2>2. ASSUME NEW k \in Job, NEW id
        PROVE  /\ Takes(k, id)' <=> Takes(k, id)
               /\ Blocks(k, id)' <=> Blocks(k, id)
    <3>1. RollsBack(k, id)' <=> RollsBack(k, id)
      BY DEF RollsBack
    <3>2. CASE k # j
      BY <1>1, <2>1, <3>1, <3>2 DEF Takes, Blocks
    <3>3. CASE k = j
      BY <1>1, <3>1, <3>3 DEF Takes, Blocks, RollsBack, UpToDate
    <3> QED
      BY <3>2, <3>3
  <2> QED
    BY <2>1, <2>2
<1>4. ASSUME NEW id
      PROVE  /\ Taking(id)' = Taking(id) /\ (Blocked(id)' <=> Blocked(id))
             /\ OldValues(id)' = OldValues(id)
  <2>1. Taking(id)' = Taking(id)
    BY <1>3 DEF Taking
  <2>2. Blocked(id)' <=> Blocked(id)
    BY <1>3 DEF Blocked
  <2> QED
    BY <2>1, <2>2, OldValuesNext
<1>5. /\ \A k \in Job : \A l \in Added(k)' \intersect cube'.locks :
           \/ k # j /\ l \in Added(k) \intersect cube.locks
           \/ k = j /\ l \in Fresh(j)
      /\ \A k \in Job \ {j} : Fresh(k)' = Fresh(k)
      /\ Fresh(j)' = {}
  BY CommittedLocks
<1>6. StoragesLeadBack'
  <2> SUFFICES ASSUME NEW k \in Job, NEW l \in Added(k)' \intersect cube'.locks,
                      l.id \notin unrecorded', ~Blocked(l.id)', NEW c \in l.area
               PROVE  /\ Taking(l.id)' = {} =>
                           LeadsBack(l.id, cube.cells, c)' = before'[k][c]
                      /\ \A r \in Job : Taking(l.id)' = {r} =>
                           LeadsBack(l.id, copy[r].v.cells, c)' = before'[k][c]
    BY DEF StoragesLeadBack
  <2>1. /\ LeadsBack(l.id, cube.cells, c)' = LeadsBack(l.id, cube.cells, c)
        /\ \A r \in Job : LeadsBack(l.id, copy[r].v.cells, c)'
                            = LeadsBack(l.id, copy[r].v.cells, c)
    BY <1>4 DEF LeadsBack, Over
  <2>2. CASE k # j /\ l \in Added(k) \intersect cube.locks
    BY <1>2, <1>4, <2>1, <2>2 DEF UndoInv, StoragesLeadBack
  <2>3. CASE k = j /\ l \in Fresh(j)
    <3>1. l.id \notin LockIds \union Removed /\ l.id # 0 /\ l.id \in Issued
      BY <2>3, IdsInRange DEF LocksInv, FreshIsNew, Fresh, Issued
    <3>2. Taking(l.id) = {}
      BY <3>1 DEF LocksInv, NoneForgotten, Taking, Takes, RollsBack
    <3>3. c \notin DOMAIN OldValues(l.id)
      BY <2>3, <3>1, OldValuesHave DEF UndoInv, FreshIsEmpty
    <3>4. c \in Cell /\ cube.cells \in [Cell -> Value]
      BY <2>3, CopyType DEF Fresh, Version, Lock
    <3>5. LeadsBack(l.id, cube.cells, c) = cube.cells[c]
      BY <3>3, <3>4, LeadsBackIs
    <3> QED
      BY <1>2, <1>4, <2>1, <2>3, <3>2, <3>5
  <2> QED
    BY <1>5, <2>2, <2>3
<1>7. WritesRecorded'
  <2> SUFFICES ASSUME NEW k \in Job, request[k].op = "replace", UpToDate(k)
               PROVE  Leaves(k)'
    BY <1>3 DEF WritesRecorded
  <2>1. Leaves(k)
    BY DEF UndoInv, WritesRecorded
  <2> QED
    BY <1>4, <2>1, LeavesNext DEF Leaves
<1>8. FreshIsEmpty'
  BY <1>5 DEF UndoInv, FreshIsEmpty
<1> QED
  BY <1>6, <1>7, <1>8 DEF UndoInv

(* A merge: the cells j changes of an area are in the storage of its lock, *)
(* or the lock is given up.                                                *)
LEMMA UndoCommit ==
  ASSUME TypeInv, LocksInv, RegularInv, UndoInv, NEW j \in Job, Commit(j)
  PROVE  UndoInv'
<1> DEFINE out == copy[j].out
<1>1. /\ pc[j] = "changed" /\ pc' = [pc EXCEPT ![j] = "done"]
      /\ UNCHANGED <<request, rollback, commitTry, old, copy, target>>
      /\ cube' = Merged(j) /\ ~Conflict(j) /\ ~Pessimistic(j) /\ Observe(j, old[j])
  BY DEF Commit, shared
<1>2. /\ cube'.pagesVersion = IF "pages" \in out THEN cube.number + 1
                                                 ELSE cube.pagesVersion
      /\ cube'.cells = IF "pages" \in out THEN copy[j].v.cells ELSE cube.cells
  BY <1>1 DEF Merged
<1>3. cube'.locks = LockListAfter(j)
  BY <1>1, MergedLocksAre
<1>4. before' = [before EXCEPT ![j] = cube'.cells] /\ unrecorded \subseteq unrecorded'
  BY <1>1 DEF Observe
<1>5. CASE "pages" \notin out
  BY <1>1, <1>2, <1>3, <1>4, <1>5, UndoOtherCommit
<1>6. CASE "pages" \in out
  <2>1. /\ \A k \in Job : ~UpToDate(k)'
        /\ \A id : Taking(id)' = {}
        /\ \A id : ~Blocked(id)' =>
             \A r \in Job : RollsBack(r, id) =>
               /\ commitTry[r] = 0
               /\ r = j \/ ~(pc[r] = "changed" /\ "pages" \in copy[r].out)
    BY <1>1, <1>2, <1>6, PagesCommitted
  <2>2. /\ old[j].pagesVersion = cube.pagesVersion
        /\ old[j].cells = cube.cells
    BY <1>1, <1>6 DEF Conflict, RegularInv, NumbersNameParts
  <2>3. /\ \A k \in Job : \A l \in Added(k)' \intersect cube'.locks :
             \/ /\ k # j /\ l \in Added(k) \intersect cube.locks
                /\ Unlocks(j) => l.id # target[j]
             \/ k = j /\ Locking(j) /\ l \in Fresh(j)
        /\ \A k \in Job \ {j} : Fresh(k)' = Fresh(k)
        /\ Fresh(j)' = {}
    BY <1>1, <1>3, CommittedLocks
  <2>4. ~Locking(j)
    BY <1>1, <1>6 DEF RegularInv, Changes
  <2>5. StoragesLeadBack'
    <3> SUFFICES ASSUME NEW k \in Job, NEW l \in Added(k)' \intersect cube'.locks,
                        l.id \notin unrecorded', ~Blocked(l.id)', NEW c \in l.area
                 PROVE  LeadsBack(l.id, cube.cells, c)' = before'[k][c]
      BY <2>1 DEF StoragesLeadBack
    <3>1. /\ k # j /\ l \in Added(k) \intersect cube.locks
          /\ Unlocks(j) => l.id # target[j]
      BY <2>3, <2>4
    <3>2. before'[k] = before[k]
      BY <1>4, <3>1 DEF TypeInv, TypeOK
    <3>3. /\ l \in Lock /\ c \in Cell /\ cube.cells \in [Cell -> Value]
          /\ copy[j].v.cells \in [Cell -> Value]
      BY <3>1, CopyType DEF Version, Lock
    <3>4. ~Blocked(l.id)
      BY <2>1, <2>2 DEF Blocked, Blocks
    <3>5. /\ Taking(l.id) = {} => LeadsBack(l.id, cube.cells, c) = before[k][c]
          /\ \A r \in Job : Taking(l.id) = {r} =>
               LeadsBack(l.id, copy[r].v.cells, c) = before[k][c]
      BY <1>4, <3>1, <3>4 DEF UndoInv, StoragesLeadBack
    <3>6. OldValues(l.id)' = OldValues(l.id)
      BY <1>1, OldValuesNext
    <3>7. LeadsBack(l.id, cube.cells, c)' = LeadsBack(l.id, copy[j].v.cells, c)
      BY <1>2, <1>6, <3>6 DEF LeadsBack, Over
    <3>8. Taking(l.id) \subseteq {j}
      BY <2>1 DEF Taking, Takes, UpToDate
    <3>9. CASE RollsBack(j, l.id)
      <4>1. Takes(j, l.id)
        BY <1>1, <1>6, <2>1, <2>2, <3>9 DEF Takes, UpToDate
      <4>2. Taking(l.id) = {j}
        BY <3>8, <4>1 DEF Taking
      <4> QED
        BY <3>2, <3>5, <3>7, <4>2
    <3>10. CASE ~RollsBack(j, l.id)
      <4>1. Taking(l.id) = {}
        BY <3>8, <3>10 DEF Taking, Takes
      <4>2. l.id # target[j]
        <5> SUFFICES ASSUME l.id = target[j] PROVE FALSE
          OBVIOUS
        <5>1. target[j] # 0
          BY <3>3 DEF Lock
        <5>2. request[j].op \in {"commit", "rollback"}
          BY <5>1 DEF RegularInv, Changes
        <5> QED
          BY <3>1, <3>10, <5>2 DEF RollsBack, Unlocks
      <4>3. CASE c \in DOMAIN OldValues(l.id) \/ copy[j].v.cells[c] = cube.cells[c]
        <5>1. LeadsBack(l.id, copy[j].v.cells, c) = LeadsBack(l.id, cube.cells, c)
          BY <3>3, <4>3, LeadsBackIs
        <5> QED
          BY <3>2, <3>5, <3>7, <4>1, <5>1
      <4>4. CASE c \notin DOMAIN OldValues(l.id) /\ copy[j].v.cells[c] # cube.cells[c]
        <5>1. cube'.cells[c] # cube.cells[c]
          BY <1>2, <1>6, <4>4
        <5>2. /\ request[j].op = "replace" /\ l \in Covering(old[j], c)
              /\ l = First(Covering(old[j], c))
          <6> SUFFICES ASSUME \/ request[j].op # "replace"
                              \/ l \notin Covering(old[j], c)
                              \/ l # First(Covering(old[j], c))
                       PROVE  FALSE
            OBVIOUS
          <6>1. l \in {m \in cube.locks :
                         /\ m.id # target[j]
                         /\ \E d \in m.area :
                              /\ cube'.cells[d] # cube.cells[d]
                              /\ \/ request[j].op # "replace"
                                 \/ m \notin Covering(old[j], d)
                                 \/ m # First(Covering(old[j], d))}
            BY <3>1, <4>2, <5>1
          <6> QED
            BY <1>1, <6>1 DEF Observe
        <5>3. ~l.whole
          BY <3>1 DEF RegularInv, Regular
        <5>4. commitTry[j] = 0
          BY <1>1, <5>2 DEF Pessimistic, TypeInv, TypeOK
        <5>5. UpToDate(j)
          BY <1>1, <1>6, <2>2, <5>4 DEF UpToDate
        <5>6. \/ c \in DOMAIN OldValues(l.id)
              \/ Blocked(l.id) \/ Taking(l.id) # {}
          BY <2>2, <3>3, <4>4, <5>2, <5>3, <5>5 DEF UndoInv, WritesRecorded, Leaves
        <5> QED
          BY <3>4, <4>1, <4>4, <5>6
      <4> QED
        BY <4>3, <4>4
    <3> QED
      BY <3>9, <3>10
  <2>6. WritesRecorded'
    BY <2>1 DEF WritesRecorded
  <2>7. FreshIsEmpty'
    BY <1>1, <2>3 DEF UndoInv, FreshIsEmpty
  <2> QED
    BY <2>5, <2>6, <2>7 DEF UndoInv
<1> QED
  BY <1>5, <1>6

(* A write in the commit: it meets the locks of the version it changes.    *)
LEMMA UndoCommitPessimistic ==
  ASSUME TypeInv, LocksInv, RegularInv, UndoInv, NEW j \in Job,
         CommitPessimistic(j), ~Throw(j)
  PROVE  UndoInv'
<1> DEFINE w == SetCellValue(j, cube)
<1> DEFINE m == [c \in {request[j].cell} |-> j]
<1> DEFINE C == DOMAIN m \union DOMAIN Pending(cube)
<1> DEFINE new == [w.v EXCEPT !.number = @ + 1,
                     !.pagesVersion = IF "pages" \in w.out
                                      THEN cube.number + 1 ELSE @]
<1>1. /\ pc[j] = "changed" /\ w.ok /\ request[j].op = "replace"
      /\ pc' = [pc EXCEPT ![j] = "done"] /\ rollback' = w.rollback
      /\ UNCHANGED <<request, commitTry, old, copy, target>> /\ cube' = new
      /\ Observe(j, cube)
  BY Zenon DEF CommitPessimistic, Pessimistic
<1>2. cube \in Version /\ Refers(cube) /\ TypeOK /\ Regular(cube)
  BY CopyType DEF TypeInv, RegularInv
<1>3. w.v \in Version
  BY <1>1, <1>2, SetCellValueType
<1>4. w.v.locks = cube.locks /\ w.v.pagesVersion = cube.pagesVersion
  BY <1>1, <1>2, SetCellValueKeeps
<1>5. /\ cube'.cells = w.v.cells /\ cube'.locks = cube.locks
      /\ cube'.pagesVersion = IF "pages" \in w.out THEN cube.number + 1
                                                   ELSE cube.pagesVersion
  <2> HIDE DEF w
  <2> DEFINE p == IF "pages" \in w.out THEN cube.number + 1 ELSE w.v.pagesVersion
  <2>1. new = [w.v EXCEPT !.number = w.v.number + 1, !.pagesVersion = p]
    BY <1>3 DEF Version
  <2> HIDE DEF new, p
  <2>2. new.cells = w.v.cells /\ new.locks = w.v.locks /\ new.pagesVersion = p
    BY <1>3, <2>1 DEF Version
  <2> QED
    BY <1>1, <1>4, <2>2 DEF p
<1> HIDE DEF new
<1>6. cube'.locks = LockListAfter(j)
  BY <1>1, <1>5 DEF LockListAfter, Locking, Unlocks
<1>7. before' = [before EXCEPT ![j] = cube'.cells] /\ unrecorded \subseteq unrecorded'
  BY <1>1 DEF Observe
<1>8. CASE cube.wholeCubeLocked
  <2>1. w.rollback = rollback /\ w.out = {"storage"} /\ w.v.cells = cube.cells
    <3> DEFINE n == IF cube.changedCells = 0 THEN Len(changed) + 1 ELSE cube.changedCells
    <3>1. /\ w.rollback = rollback /\ w.out = {"storage"}
          /\ w.v = [cube EXCEPT !.changedCells = n]
      BY <1>8 DEF SetCellValue
    <3> HIDE DEF w, n
    <3> QED
      BY <1>2, <3>1 DEF Version
  <2> HIDE DEF w
  <2> QED
    BY <1>1, <1>5, <1>6, <1>7, <2>1, UndoOtherCommit
<1>9. CASE ~cube.wholeCubeLocked
  <2>1. w = [ok |-> TRUE, out |-> Written(cube, m), rollback |-> Record(cube, C),
             v |-> Stored(cube, m), changed |-> Gathered(cube, m)]
    BY <1>1, <1>9, Zenon DEF SetCellValue
  <2>2. Pending(cube) = << >>
    BY <1>2, <1>9 DEF Pending, Regular
  <2>3. request[j].cell \in Cell
    BY <1>1, <1>2, RequestType
  <2>4. C = {request[j].cell} /\ C \in SUBSET Cell
    BY <2>2, <2>3
  <2>5. rollback' = Record(cube, C) /\ "pages" \in w.out
    BY <1>1, <2>1 DEF Written
  <2>6. \A c \in Cell \ C : cube'.cells[c] = cube.cells[c]
    <3>1. Stored(cube, m).cells = Over(m, Over(<< >>, cube.cells))
      BY <1>2, <2>2, StoredKeeps
    <3>2. cube.cells \in [Cell -> Value]
      BY <1>2 DEF Version
    <3>3. cube'.cells = Over(m, Over(<< >>, cube.cells))
      BY <1>5, <2>1, <3>1
    <3> QED
      BY <2>4, <3>2, <3>3 DEF Over
  <2>7. cube'.cells \in [Cell -> Value]
    BY <1>3, <1>5 DEF Version
  <2> HIDE DEF w, C
  <2>8. /\ \A k \in Job : ~UpToDate(k)'
        /\ \A id : Taking(id)' = {}
        /\ \A id : ~Blocked(id)' =>
             \A r \in Job : RollsBack(r, id) =>
               /\ commitTry[r] = 0
               /\ r = j \/ ~(pc[r] = "changed" /\ "pages" \in copy[r].out)
    BY <1>1, <1>5, <2>5, PagesCommitted
  <2>9. /\ \A k \in Job : \A l \in Added(k)' \intersect cube'.locks :
             \/ k # j /\ l \in Added(k) \intersect cube.locks
             \/ k = j /\ Locking(j) /\ l \in Fresh(j)
        /\ \A k \in Job \ {j} : Fresh(k)' = Fresh(k)
        /\ Fresh(j)' = {}
    BY <1>1, <1>6, CommittedLocks
  <2>10. ~Locking(j) /\ target[j] = 0 /\ \A id : ~RollsBack(j, id)
    BY <1>1, <1>2 DEF Locking, RollsBack, RegularInv, Changes
  <2>11. StoragesLeadBack'
    <3> SUFFICES ASSUME NEW k \in Job, NEW l \in Added(k)' \intersect cube'.locks,
                        l.id \notin unrecorded', ~Blocked(l.id)', NEW c \in l.area
                 PROVE  LeadsBack(l.id, cube.cells, c)' = before'[k][c]
      BY <2>8 DEF StoragesLeadBack
    <3>1. k # j /\ l \in Added(k) \intersect cube.locks
      BY <2>9, <2>10
    <3>2. before'[k] = before[k]
      BY <1>2, <1>7, <3>1 DEF TypeOK
    <3>3. /\ l \in Lock /\ c \in Cell /\ cube.cells \in [Cell -> Value]
          /\ l.id \in Issued
      BY <1>2, <3>1, IdsInRange DEF Version, Lock, Issued
    <3>4. ~Blocked(l.id) /\ Taking(l.id) = {}
      BY <2>8, <2>10 DEF Blocked, Blocks, Taking, Takes, UpToDate
    <3>5. LeadsBack(l.id, cube.cells, c) = before[k][c]
      BY <1>7, <3>1, <3>4 DEF UndoInv, StoragesLeadBack
    <3>6. LeadsBack(l.id, cube.cells, c) =
            IF c \in DOMAIN OldValues(l.id) THEN OldValues(l.id)[c] ELSE cube.cells[c]
      BY <3>3, LeadsBackIs
    <3>7. LeadsBack(l.id, cube.cells, c)' =
            IF c \in DOMAIN OldValues(l.id)' THEN OldValues(l.id)'[c] ELSE cube'.cells[c]
      BY <2>7, <3>3 DEF LeadsBack, Over
    <3>8. /\ c \in DOMAIN OldValues(l.id)' <=>
               c \in DOMAIN OldValues(l.id) \union Recorded(cube, l.id, C)
          /\ c \in DOMAIN OldValues(l.id) => OldValues(l.id)'[c] = OldValues(l.id)[c]
          /\ c \in Recorded(cube, l.id, C) \ DOMAIN OldValues(l.id) =>
               OldValues(l.id)'[c] = cube.cells[c]
      BY <1>2, <2>4, <2>5, <3>3, RecordAdds DEF TypeInv
    <3>9. \/ c \in DOMAIN OldValues(l.id)'
          \/ cube'.cells[c] = cube.cells[c]
      <4> SUFFICES ASSUME cube'.cells[c] # cube.cells[c]
                   PROVE  c \in DOMAIN OldValues(l.id)'
        OBVIOUS
      <4>1. l.id # target[j]
        BY <2>10, <3>3 DEF Lock
      <4>2. l \in Covering(cube, c) /\ l = First(Covering(cube, c))
        <5> SUFFICES ASSUME \/ l \notin Covering(cube, c)
                            \/ l # First(Covering(cube, c))
                     PROVE  FALSE
          OBVIOUS
        <5>1. l \in {x \in cube.locks :
                       /\ x.id # target[j]
                       /\ \E d \in x.area :
                            /\ cube'.cells[d] # cube.cells[d]
                            /\ \/ request[j].op # "replace"
                               \/ x \notin Covering(cube, d)
                               \/ x # First(Covering(cube, d))}
          BY <3>1, <4>1
        <5> QED
          BY <1>1, <5>1 DEF Observe
      <4>3. ~l.whole
        BY <1>2, <3>1 DEF Regular
      <4>4. c \in C
        BY <2>6, <3>3
      <4>5. c \in Recorded(cube, l.id, C)
        BY <4>2, <4>3, <4>4 DEF Recorded
      <4> QED
        BY <3>8, <4>5
    <3> QED
      BY <3>2, <3>5, <3>6, <3>7, <3>8, <3>9
  <2>12. WritesRecorded'
    BY <2>8 DEF WritesRecorded
  <2>13. FreshIsEmpty'
    <3>1. \A l \in cube.locks : l.id \in LockIds \union Removed
      BY DEF LockIds
    <3>2. \A k \in Job : \A l \in Fresh(k) : rollback'[l.id] = <<>>
      BY <1>2, <2>4, <2>5, <3>1, FreshStaysEmpty DEF UndoInv
    <3> QED
      BY <2>9, <3>2 DEF FreshIsEmpty
  <2> QED
    BY <2>11, <2>12, <2>13 DEF UndoInv
<1> QED
  BY <1>8, <1>9

LEMMA UndoStay ==
  ASSUME UndoInv,
         UNCHANGED <<request, cube, rollback, pc, commitTry, old, copy, target,
                     before, unrecorded>>
  PROVE  UndoInv'
<1>1. \A id : OldValues(id)' = OldValues(id)
  BY OldValuesNext
<1>2. \A k \in Job : UpToDate(k)' <=> UpToDate(k)
  BY DEF UpToDate
<1>3. \A id : Taking(id)' = Taking(id) /\ (Blocked(id)' <=> Blocked(id))
  BY <1>2 DEF Taking, Takes, Blocked, Blocks, RollsBack
<1>4. \A k \in Job : Added(k)' = Added(k) /\ Fresh(k)' = Fresh(k)
  BY DEF Added, Fresh, Locking
<1>5. StoragesLeadBack'
  BY <1>1, <1>3, <1>4, SMTT(30) DEF UndoInv, StoragesLeadBack, LeadsBack, Over
<1>6. WritesRecorded'
  <2>1. ASSUME NEW k \in Job, request[k].op = "replace", UpToDate(k) PROVE Leaves(k)'
    <3>1. Leaves(k)
      BY <2>1 DEF UndoInv, WritesRecorded
    <3> QED
      BY <1>1, <1>3, <3>1, LeavesNext DEF Leaves
  <2> QED
    BY <1>2, <2>1 DEF WritesRecorded
<1>7. FreshIsEmpty'
  BY <1>4 DEF UndoInv, FreshIsEmpty
<1> QED
  BY <1>5, <1>6, <1>7 DEF UndoInv

(* A job that moves without a commit, or whose commit fails.               *)
LEMMA UndoMove ==
  ASSUME TypeInv, LocksInv, UndoInv, NEW j \in Job, NEW p, pc' = [pc EXCEPT ![j] = p],
         pc[j] # "done", p # "done", p # "changed" \/ Pessimistic(j),
         UNCHANGED <<request, cube, rollback, old, copy, target, before, unrecorded>>,
         \/ /\ commitTry' = commitTry
            /\ pc[j] # "changed" \/ request[j].op = "replace"
         \/ commitTry' = [commitTry EXCEPT ![j] = @ + 1]
  PROVE  UndoInv'
<1>1. pc'[j] = p /\ \A k \in Job \ {j} : pc'[k] = pc[k]
  BY DEF TypeInv, TypeOK
<1>2. OtherJobsStay(j)
  BY <1>1 DEF OtherJobsStay
<1>3. /\ \A k \in Job \ {j} : commitTry'[k] = commitTry[k]
      /\ commitTry[j] \in Nat
      /\ \/ /\ commitTry'[j] = commitTry[j]
            /\ pc[j] # "changed" \/ request[j].op = "replace"
         \/ commitTry'[j] = commitTry[j] + 1
  BY DEF TypeInv, TypeOK
<1>4. ~UpToDate(j)'
  BY <1>1, <1>3 DEF UpToDate, Pessimistic
<1>5. \A id : ~Takes(j, id)'
  BY <1>4 DEF Takes
<1>6. ASSUME NEW id, Takes(j, id) \/ Blocks(j, id) PROVE Blocks(j, id)'
  <2>1. RollsBack(j, id) /\ RollsBack(j, id)' /\ request[j].op # "replace"
    BY <1>6 DEF Takes, Blocks, RollsBack
  <2>2. commitTry[j] > 0 \/ pc[j] = "changed"
    BY <1>6 DEF Takes, Blocks, UpToDate
  <2>3. commitTry'[j] > 0
    BY <1>3, <2>1, <2>2
  <2> QED
    BY <2>1, <2>3 DEF Blocks
<1>7. Fresh(j)' = {}
  BY <1>1 DEF Fresh, Locking, Pessimistic
<1> QED
  BY <1>2, <1>3, <1>4, <1>5, <1>6, <1>7, UndoQuiet

LEMMA UndoThrow ==
  ASSUME TypeInv, LocksInv, UndoInv, NEW j \in Job, Throw(j), pc[j] # "done",
         pc[j] # "changed" \/ request[j].op = "replace"
  PROVE  UndoInv'
BY UndoMove DEF Throw, shared, auxiliary

LEMMA UndoGetServerCopy ==
  ASSUME TypeInv, LocksInv, UndoInv, NEW j \in Job, GetServerCopy(j)
  PROVE  UndoInv'
<1>1. /\ old' = [old EXCEPT ![j] = cube]
      /\ copy' = [copy EXCEPT ![j] = [v |-> cube, out |-> {}]]
      /\ pc' = [pc EXCEPT ![j] = "copied"] /\ pc[j] = "start"
      /\ UNCHANGED <<request, cube, rollback, commitTry, before, unrecorded>>
      /\ \/ target' = target
         \/ target[j] = 0 /\ \E l \in cube.locks : target' = [target EXCEPT ![j] = l.id]
  BY DEF GetServerCopy, shared, auxiliary
<1>2. OtherJobsStay(j) /\ pc'[j] = "copied"
  BY <1>1 DEF OtherJobsStay, TypeInv, TypeOK
<1>3. ~UpToDate(j)' /\ ~UpToDate(j) /\ Fresh(j)' = {}
  BY <1>1, <1>2 DEF UpToDate, Fresh
<1>4. \A id : ~Takes(j, id)' /\ ~Takes(j, id)
  BY <1>3 DEF Takes
<1>5. ASSUME NEW id \in Issued, Blocks(j, id) PROVE Blocks(j, id)'
  <2>1. target[j] = id /\ commitTry[j] > 0 /\ request[j].op = "rollback"
    BY <1>1, <1>5 DEF Blocks, RollsBack
  <2>2. id # 0
    BY DEF Issued
  <2> QED
    BY <1>1, <2>1, <2>2 DEF Blocks, RollsBack
<1> QED
  BY <1>1, <1>2, <1>3, <1>4, <1>5, UndoQuiet

(* A call that neither rolls back nor writes a cell.                       *)
LEMMA UndoReturns ==
  ASSUME TypeInv, LocksInv, UndoInv, NEW j \in Job, NEW v, NEW out,
         Returns(j, v, out), pc[j] = "found",
         request[j].op \notin {"rollback", "replace"},
         \A id \in Issued : rollback'[id] = rollback[id],
         unrecorded' = unrecorded,
         Locking(j) => \A l \in v.locks \ old[j].locks : rollback'[l.id] = <<>>
  PROVE  UndoInv'
<1>1. /\ OtherJobsStay(j) /\ cube' = cube
      /\ pc'[j] = "changed" /\ copy'[j].v = v /\ old'[j] = old[j]
  BY ReturnsMoves
<1>2. before' = before /\ commitTry' = commitTry /\ request' = request
  BY DEF Returns
<1>3. \A id : ~Takes(j, id)' /\ ~Takes(j, id) /\ ~Blocks(j, id)
  BY <1>2 DEF Takes, Blocks, RollsBack
<1>4. \A l \in Fresh(j)' : rollback'[l.id] = <<>>
  BY <1>1, <1>2 DEF Fresh, Locking
<1> QED
  BY <1>1, <1>2, <1>3, <1>4, UndoQuiet

LEMMA UndoAddLock ==
  ASSUME TypeInv, LocksInv, RegularInv, UndoInv, NEW j \in Job, NEW area,
         NEW whole \in BOOLEAN, AddLock(j, area, whole), pc[j] = "found", Locking(j)
  PROVE  UndoInv'
<1> DEFINE v == copy[j].v
<1> DEFINE l == [id |-> Len(rollback) + 1, user |-> request[j].user,
                 area |-> area, whole |-> whole]
<1> DEFINE w == [v EXCEPT !.locks = @ \union {l}, !.hasLock = TRUE,
                          !.wholeCubeLocked = whole]
<1>1. CASE Crash
  BY <1>1, UndoStay DEF Crash, shared, auxiliary
<1>2. CASE Throw(j)
  BY <1>2, UndoThrow
<1>3. CASE /\ rollback' = Append(rollback, <<>>)
           /\ Returns(j, w, {"locks"})
           /\ UNCHANGED <<changed, unrecorded>>
  <2>1. v \in Version /\ v = old[j]
    BY CopyType DEF RegularInv, Changes
  <2>2. w.locks = v.locks \union {l}
    BY <2>1 DEF Version
  <2>3. l.id = Len(rollback) + 1
    OBVIOUS
  <2> HIDE DEF l, w
  <2>4. /\ \A id \in Issued : rollback'[id] = rollback[id]
        /\ rollback'[Len(rollback) + 1] = <<>>
    BY <1>3 DEF Issued, TypeInv, TypeOK
  <2>5. \A x \in w.locks \ old[j].locks : x = l
    BY <2>1, <2>2
  <2>6. request[j].op \notin {"rollback", "replace"}
    BY DEF Locking
  <2> QED
    BY <1>3, <2>3, <2>4, <2>5, <2>6, UndoReturns
<1> QED
  BY <1>1, <1>2, <1>3, Zenon DEF AddLock

LEMMA UndoOtherCalls ==
  ASSUME TypeInv, LocksInv, UndoInv, NEW j \in Job,
         CommitCube(j) \/ ClearCells(j) \/ RenameCube(j)
  PROVE  UndoInv'
<1>1. /\ pc[j] = "found" /\ ~Locking(j)
      /\ request[j].op \notin {"rollback", "replace"}
  BY DEF CommitCube, ClearCells, RenameCube, Call, Locking
<1>2. CASE Throw(j)
  BY <1>1, <1>2, UndoThrow
<1>3. ASSUME NEW v, NEW out, Returns(j, v, out), UNCHANGED <<shared, unrecorded>>
      PROVE  UndoInv'
  BY <1>1, <1>3, UndoReturns DEF shared
<1>4. \/ Throw(j)
      \/ \E v, out : Returns(j, v, out) /\ UNCHANGED <<shared, unrecorded>>
  <2>1. CASE CommitCube(j)
    BY <2>1, Zenon DEF CommitCube
  <2>2. CASE ClearCells(j)
    BY <2>2, Zenon DEF ClearCells
  <2>3. CASE RenameCube(j)
    BY <2>3, Zenon DEF RenameCube
  <2> QED
    BY <2>1, <2>2, <2>3
<1> QED
  BY <1>2, <1>3, <1>4

LEMMA UndoStart == Init => UndoInv
<1> SUFFICES ASSUME Init PROVE UndoInv
  OBVIOUS
<1>1. \A k \in Job : pc[k] = "start"
  BY DEF Init
<1>2. \A k \in Job : Added(k) = {} /\ Fresh(k) = {} /\ ~UpToDate(k)
  BY <1>1 DEF Added, Fresh, UpToDate
<1> QED
  BY <1>2 DEF UndoInv, StoragesLeadBack, WritesRecorded, FreshIsEmpty

LEMMA UndoNext ==
  ASSUME TypeInv, LocksInv, RegularInv, UndoInv, [Next]_vars
  PROVE  UndoInv'
<1>1. ASSUME NEW j \in Job, FindCube(j) PROVE UndoInv'
  <2>1. CASE Crash
    BY <2>1, UndoStay DEF Crash, shared, auxiliary
  <2>2. CASE Throw(j)
    BY <1>1, <2>2, UndoThrow DEF FindCube
  <2>3. CASE /\ pc' = [pc EXCEPT ![j] = IF Pessimistic(j) THEN "changed" ELSE "found"]
             /\ UNCHANGED <<request, cube, shared, commitTry, old, copy, target, up, auxiliary>>
    <3>1. CASE Pessimistic(j)
      BY <1>1, <2>3, <3>1, UndoMove DEF FindCube, shared, auxiliary
    <3>2. CASE ~Pessimistic(j)
      BY <1>1, <2>3, <3>2, UndoMove DEF FindCube, shared, auxiliary
    <3> QED
      BY <3>1, <3>2
  <2> QED
    BY <1>1, <2>1, <2>2, <2>3, Zenon DEF FindCube
<1>2. ASSUME NEW j \in Job, LockCube(j) PROVE UndoInv'
  <2>1. CASE Call(j, "lock") /\ AddLock(j, request[j].area, FALSE)
    BY <2>1, UndoAddLock DEF Call, Locking
  <2>2. CASE Call(j, "lock_complete") /\ AddLock(j, {}, TRUE)
    BY <2>2, UndoAddLock DEF Call, Locking
  <2> QED
    BY <1>2, <2>1, <2>2 DEF LockCube
<1>3. ASSUME NEW j \in Job, RollbackCube(j) PROVE UndoInv'
  <2>1. pc[j] = "found"
    BY <1>3 DEF RollbackCube, Call
  <2> QED
    BY <1>3, <2>1, UndoThrow, UndoRollback
<1>4. ASSUME NEW j \in Job, Replace(j) PROVE UndoInv'
  <2>1. pc[j] = "found"
    BY <1>4 DEF Replace, Call
  <2> QED
    BY <1>4, <2>1, UndoThrow, UndoReplace
<1>5. ASSUME NEW j \in Job, CommitFails(j) PROVE UndoInv'
  <2>1. PICK p \in {"start", "failed"} : pc' = [pc EXCEPT ![j] = p]
    BY <1>5 DEF CommitFails
  <2> QED
    BY <1>5, <2>1, UndoMove DEF CommitFails, shared, auxiliary
<1>6. ASSUME NEW j \in Job, CommitPessimistic(j) PROVE UndoInv'
  <2>1. pc[j] = "changed" /\ request[j].op = "replace"
    BY <1>6 DEF CommitPessimistic, Pessimistic
  <2> QED
    BY <1>6, <2>1, UndoThrow, UndoCommitPessimistic
<1>7. CASE UNCHANGED vars
  BY <1>7, UndoStay DEF vars, shared, auxiliary
<1> QED
  BY <1>1, <1>2, <1>3, <1>4, <1>5, <1>6, <1>7, UndoGetServerCopy, UndoOtherCalls,
     UndoCommit DEF Next

(* The rollback storage of an area lock leads back to the cells the area   *)
(* had when it was locked, through writes that are retried, partial        *)
(* rollbacks, and the requests of other users that are merged in between.  *)
THEOREM UndoRestoresAreaCorrect == Spec => []UndoRestoresArea
<1>1. Init => LocksInv /\ RegularInv /\ UndoInv
  BY LocksStart, RegularStart, UndoStart
<1>2. TypeInv /\ LocksInv /\ RegularInv /\ UndoInv /\ [Next]_vars
        => LocksInv' /\ RegularInv' /\ UndoInv'
  BY LocksStep, RegularNext, UndoNext
<1>3. TypeInv /\ LocksInv /\ RegularInv /\ UndoInv => UndoRestoresArea
  <2> SUFFICES ASSUME TypeInv, UndoInv,
                      NEW j \in Job, NEW l \in Added(j) \intersect cube.locks,
                      l.id \notin unrecorded, ~Undoing(l.id), NEW c \in l.area
               PROVE  Over(Undone(rollback[l.id], Len(rollback[l.id])), cube.cells)[c]
                        = before[j][c]
    BY DEF UndoRestoresArea
  <2>1. Taking(l.id) = {} /\ ~Blocked(l.id)
    BY DEF Undoing, Taking, Takes, Blocked, Blocks, RollsBack, UpToDate
  <2>2. LeadsBack(l.id, cube.cells, c) = before[j][c]
    BY <2>1 DEF UndoInv, StoragesLeadBack
  <2> QED
    BY <2>2 DEF LeadsBack, OldValues
<1> QED
  BY <1>1, <1>2, <1>3, TypeCorrect, PTL DEF Spec
=============================================================================
