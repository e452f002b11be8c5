---------------------- MODULE DimensionElementsProofs ----------------------
EXTENDS DimensionElements, FiniteSetTheorems, TLAPS
(***************************************************************************)
(* The requests that the theorems are about.  dimension/rename publishes   *)
(* the maps of its own copy: it is proved about next to requests that do   *)
(* not change the maps.  element/move_bulk writes the vector that all the  *)
(* others read: it is proved about in one job, next to renames of the      *)
(* dimension only.                                                         *)
(***************************************************************************)
Asks(q, op) == \E j \in Job : q[j].op = op

KeepsIds == {"rename_dimension", "rename", "move", "move_bulk"}
KeepsBoth == {"rename_dimension", "move", "move_bulk"}

BulkApart(q) ==
  Asks(q, "move_bulk") =>
    /\ \A j \in Job : q[j].op \in {"move_bulk", "rename_dimension"}
    /\ \A i, j \in Job : q[i].op = "move_bulk" /\ q[j].op = "move_bulk" => i = j

MapsApart(q) ==
  /\ Asks(q, "rename_dimension") => \A j \in Job : q[j].op \in KeepsIds
  /\ BulkApart(q)

NamesApart(q) == Asks(q, "rename_dimension") => \A j \in Job : q[j].op \in KeepsBoth

PartsApart(q) == NamesApart(q) /\ BulkApart(q)
-----------------------------------------------------------------------------
(* A dimension, its vector and what the holders it points to promise.      *)

ElementRecord == [id : Id, name : Name, position : Slot]

Partial(K, V) == UNION {[S -> V] : S \in SUBSET K}

Dimensions ==
  [name : Name, elementList : Pointer, page : Pointer \union {NoPage},
   free : Seq(Slot), holder : Pointer,
   slots : Partial(Slot, ElementRecord),
   ids : Pointer, idsMap : Partial(Id, Slot), names : Pointer, namesMap : Partial(Name, Slot),
   posIndex : Pointer]

(* The vector lists the slots in use, each once.                           *)
Lists(d, vec) ==
  /\ vec \in Seq(Slot)
  /\ IsInjective(vec)
  /\ Range(vec) = DOMAIN d.slots
  /\ \A s \in DOMAIN d.slots : d.slots[s].position \in DOMAIN vec

IdsLead(d) ==
  /\ \A s \in DOMAIN d.slots : d.slots[s].id \in DOMAIN d.idsMap /\ d.idsMap[d.slots[s].id] = s
  /\ \A i \in DOMAIN d.idsMap : d.idsMap[i] \in DOMAIN d.slots /\ d.slots[d.idsMap[i]].id = i

NamesLead(d) ==
  /\ \A s \in DOMAIN d.slots :
       d.slots[s].name \in DOMAIN d.namesMap /\ d.namesMap[d.slots[s].name] = s
  /\ \A n \in DOMAIN d.namesMap :
       d.namesMap[n] \in DOMAIN d.slots /\ d.slots[d.namesMap[n]].name = n

(* The positions in the elements are those of the vector.                  *)
Aligned(d, vec) == \A s \in DOMAIN d.slots : vec[d.slots[s].position] = s

(* What the heaps hold.                                                     *)
Heaps(pos, sizes, next) ==
  /\ pos \in [DOMAIN pos -> Seq(Slot)]
  /\ sizes \in [DOMAIN sizes -> Nat]
  /\ next \in [DOMAIN next -> Nat]

(* The page has room behind every slot, and no slot is free twice.         *)
SlotsApart(d, sizes) ==
  /\ IsInjective(d.free)
  /\ Range(d.free) \intersect DOMAIN d.slots = {}
  /\ \A s \in Range(d.free) \union DOMAIN d.slots :
       d.page # NoPage /\ s <= sizes[d.page]

IdsBelow(d, next) == \A i \in DOMAIN d.idsMap : i < next[d.holder]

Sound(d, pos, sizes, next) ==
  /\ d.posIndex \in DOMAIN pos
  /\ d.page # NoPage => d.page \in DOMAIN sizes
  /\ d.holder \in DOMAIN next
  /\ Lists(d, pos[d.posIndex])
  /\ IdsLead(d)
  /\ SlotsApart(d, sizes)
  /\ IdsBelow(d, next)

(* What a sound dimension is with its vector.                              *)
Regular(d, vec) ==
  /\ vec \in Seq(Slot)
  /\ DOMAIN vec = 1 .. Len(vec)
  /\ Len(vec) \in Nat
  /\ SizeElements(d) = Len(vec)
  /\ \A i \in DOMAIN vec : vec[i] \in DOMAIN d.slots
  /\ \A s \in DOMAIN d.slots : \E i \in DOMAIN vec : vec[i] = s
  /\ \A i, j \in DOMAIN vec : vec[i] = vec[j] => i = j
  /\ DOMAIN d.slots \subseteq Slot
  /\ \A s \in DOMAIN d.slots :
       d.slots[s] \in ElementRecord /\ d.slots[s].position \in DOMAIN vec
  /\ DOMAIN d.idsMap \subseteq Id
-----------------------------------------------------------------------------
(* What job j allocates in its next step is new.                           *)
Given(p, try, at) ==
  /\ p \in Pointer
  /\ p # <<NoJob, 0>> =>
       \E j \in Job : /\ p[1] = j
                      /\ \/ p[2] < try[j]
                         \/ p[2] = try[j] /\ at[j] \notin {"start", "working"}

Allocated(p) ==
  \/ Given(p, commitTry, pc)
  \/ \E j \in Job : p = New(j) /\ pc[j] = "working" /\ ~Pessimistic(j)

HeapInv ==
  \A p \in DOMAIN positions \union DOMAIN pageSize \union DOMAIN nextId : Allocated(p)

Same(d, e) ==
  /\ e.page = d.page /\ e.free = d.free /\ e.holder = d.holder /\ e.slots = d.slots
  /\ e.idsMap = d.idsMap /\ e.posIndex = d.posIndex

OfRequest(j) == request[j].op # "rename_dimension" /\ ~Pessimistic(j)

(* No pointer that the latest dimension had before comes back, so whoever  *)
(* finds the element list it copied finds all that belongs to it.          *)
ListInv ==
  /\ Given(latest.elementList, commitTry, pc)
  /\ \A j \in Job :
       /\ Given(old[j].elementList, commitTry, pc)
       /\ pc[j] = "working" /\ OfRequest(j) =>
            /\ mine[j].elementList = New(j)
            /\ latest.elementList = old[j].elementList =>
                 /\ Same(old[j], latest)
                 /\ NamesApart(request) => latest.namesMap = old[j].namesMap

(* dimension/rename checks out no part.                                    *)
RenamesInv ==
  \A j \in Job : request[j].op = "rename_dimension" =>
    mine[j].elementList = old[j].elementList /\ mine[j].posIndex = old[j].posIndex

(* Beside a dimension/rename the maps stay what they were.                 *)
MapsInv ==
  Asks(request, "rename_dimension") =>
    \A j \in Job :
      /\ mine[j].idsMap = latest.idsMap
      /\ NamesApart(request) => mine[j].namesMap = latest.namesMap

SoundNow(d) == Sound(d, positions, pageSize, nextId)
AlignedNow(d) == Aligned(d, positions[d.posIndex])

SoundInv == SoundNow(latest) /\ \A j \in Job : SoundNow(old[j]) /\ SoundNow(mine[j])

AlignInv ==
  ~Asks(request, "move_bulk") => AlignedNow(latest) /\ \A j \in Job : AlignedNow(mine[j])

NamesInv ==
  NamesApart(request) => NamesLead(latest) /\ \A j \in Job : NamesLead(mine[j])

(* While the one bulk job has not published, nothing replaced a part.      *)
SameParts(d, e) ==
  /\ d.elementList = e.elementList /\ d.ids = e.ids /\ d.names = e.names
  /\ d.posIndex = e.posIndex

BulkInv ==
  PartsApart(request) =>
    \A b \in Job : request[b].op = "move_bulk" =>
      /\ pc[b] # "done" =>
           /\ SameParts(latest, old[b])
           /\ \A j \in Job : request[j].op = "rename_dimension" => SameParts(latest, mine[j])
      /\ pc[b] \in {"start", "done"} => AlignedNow(latest)
      /\ pc[b] = "working" => AlignedNow(mine[b])

TypeInv ==
  /\ request \in [Job -> Request]
  /\ latest \in Dimensions
  /\ old \in [Job -> Dimensions] /\ mine \in [Job -> Dimensions]
  /\ Heaps(positions, pageSize, nextId)
  /\ pc \in [Job -> {"start", "working", "done", "failed"}]
  /\ commitTry \in [Job -> Nat]
  /\ used \subseteq Id

Inv ==
  /\ MapsApart(request)
  /\ TypeInv
  /\ HeapInv /\ ListInv /\ RenamesInv /\ MapsInv
  /\ SoundInv /\ AlignInv /\ NamesInv /\ BulkInv
(***************************************************************************)
(* Positions and sublists.                                                 *)
(***************************************************************************)

(* Closing up puts the positions of K, in their order, at 1, 2, ...        *)
LEMMA RankNumbers ==
  ASSUME NEW n \in Nat, NEW K \in SUBSET (1 .. n)
  PROVE  /\ IsFiniteSet(K)
         /\ Cardinality(K) \in 0 .. n
         /\ \A k \in K : Rank(K, k) \in 1 .. Cardinality(K)
         /\ \A j, k \in K : j < k => Rank(K, j) < Rank(K, k)
         /\ \A i \in 1 .. Cardinality(K) : \E k \in K : Rank(K, k) = i
<1> DEFINE below(k) == {i \in K : i <= k}
<1>1. IsFiniteSet(1 .. n) /\ Cardinality(1 .. n) = n
  BY FS_Interval
<1>2. IsFiniteSet(K) /\ Cardinality(K) \in Nat /\ Cardinality(K) <= n
  BY <1>1, FS_Subset, FS_CardinalityType
<1>3. ASSUME NEW k \in K
      PROVE  Rank(K, k) \in 1 .. Cardinality(K)
  <2>1. below(k) \in SUBSET K /\ k \in below(k)
    OBVIOUS
  <2>2. IsFiniteSet(below(k)) /\ Cardinality(below(k)) <= Cardinality(K)
    BY <1>2, <2>1, FS_Subset
  <2>3. Cardinality(below(k)) \in Nat /\ Cardinality(below(k)) # 0
    BY <2>1, <2>2, FS_CardinalityType, FS_EmptySet
  <2> QED
    BY <1>2, <2>2, <2>3 DEF Rank
<1>4. ASSUME NEW j \in K, NEW k \in K, j < k
      PROVE  Rank(K, j) < Rank(K, k)
  <2>1. below(j) \in SUBSET below(k) /\ k \in below(k) /\ k \notin below(j)
    <3>1. \A i \in K : i \in Nat
      OBVIOUS
    <3>2. \A i \in K : i <= j => i <= k
      BY <1>4, <3>1
    <3>3. ~(k <= j) /\ k <= k
      BY <1>4, <3>1
    <3> QED
      BY <3>2, <3>3
  <2>2. IsFiniteSet(below(k)) /\ Cardinality(below(k)) \in Nat
    BY <1>2, FS_Subset, FS_CardinalityType
  <2>3. /\ Cardinality(below(j)) \in Nat
        /\ Cardinality(below(j)) <= Cardinality(below(k))
        /\ Cardinality(below(j)) # Cardinality(below(k))
    BY <2>1, <2>2, FS_Subset, FS_CardinalityType
  <2> QED
    BY <2>2, <2>3 DEF Rank
<1>5. \A i \in 1 .. Cardinality(K) : \E k \in K : Rank(K, k) = i
  <2> DEFINE f == [k \in K |-> Rank(K, k)]
             N == 1 .. Cardinality(K)
  <2>1. f \in Injection(K, N)
    <3>1. f \in [K -> N]
      BY <1>3
    <3>2. \A j, k \in K : f[j] = f[k] => j = k
      BY <1>3, <1>4
    <3> QED
      BY <3>1, <3>2 DEF Injection, IsInjective
  <2>2. IsFiniteSet(N) /\ Cardinality(N) = Cardinality(K)
    BY <1>2, FS_Interval
  <2>3. f \in Surjection(K, N)
    BY <2>1, <2>2, FS_Injection
  <2> QED
    BY <2>3 DEF Surjection
<1> QED
  BY <1>2, <1>3, <1>4, <1>5

(* A sublist holds the elements at the positions K, in their order.        *)
LEMMA SublistHolds ==
  ASSUME NEW S, NEW vec \in Seq(S), NEW K \in SUBSET DOMAIN vec
  PROVE  /\ Sublist(vec, K) \in Seq(S)
         /\ Len(Sublist(vec, K)) = Cardinality(K)
         /\ DOMAIN Sublist(vec, K) = 1 .. Cardinality(K)
         /\ Cardinality(K) \in 0 .. Len(vec)
         /\ \A k \in K : /\ Rank(K, k) \in 1 .. Cardinality(K)
                         /\ Sublist(vec, K)[Rank(K, k)] = vec[k]
         /\ \A i \in 1 .. Cardinality(K) :
              \E k \in K : Rank(K, k) = i /\ Sublist(vec, K)[i] = vec[k]
<1>1. DOMAIN vec = 1 .. Len(vec) /\ Len(vec) \in Nat /\ \A i \in DOMAIN vec : vec[i] \in S
  OBVIOUS
<1>2. /\ Cardinality(K) \in 0 .. Len(vec)
      /\ \A k \in K : Rank(K, k) \in 1 .. Cardinality(K)
      /\ \A j, k \in K : j < k => Rank(K, j) < Rank(K, k)
      /\ \A i \in 1 .. Cardinality(K) : \E k \in K : Rank(K, k) = i
  BY <1>1, RankNumbers
<1> DEFINE at(i) == CHOOSE k \in K : Rank(K, k) = i
<1>3. \A i \in 1 .. Cardinality(K) : at(i) \in K /\ Rank(K, at(i)) = i
  BY <1>2
<1>4. \A j, k \in K : Rank(K, j) = Rank(K, k) => j = k
  BY <1>1, <1>2
<1>5. \A k \in K : at(Rank(K, k)) = k
  BY <1>2, <1>3, <1>4
<1>6. \A i \in 1 .. Cardinality(K) : vec[at(i)] \in S
  BY <1>1, <1>3
<1> HIDE DEF at
<1>7. Sublist(vec, K) = [i \in 1 .. Cardinality(K) |-> vec[at(i)]]
  BY DEF Sublist, at
<1>8. Sublist(vec, K) \in Seq(S) /\ Len(Sublist(vec, K)) = Cardinality(K)
  BY <1>2, <1>6, <1>7
<1> QED
  BY <1>2, <1>3, <1>5, <1>7, <1>8

(* What a sublist of an injective sequence holds.                          *)
LEMMA SublistInjective ==
  ASSUME NEW S, NEW vec \in Seq(S), IsInjective(vec), NEW K \in SUBSET DOMAIN vec
  PROVE  /\ IsInjective(Sublist(vec, K))
         /\ Range(Sublist(vec, K)) = {vec[k] : k \in K}
<1> DEFINE sub == Sublist(vec, K)
           N == 1 .. Cardinality(K)
<1>1. /\ DOMAIN sub = N
      /\ \A k \in K : Rank(K, k) \in N /\ sub[Rank(K, k)] = vec[k]
      /\ \A i \in N : \E k \in K : Rank(K, k) = i /\ sub[i] = vec[k]
  BY SublistHolds
<1> HIDE DEF sub, N
<1>2. \A i, j \in N : sub[i] = sub[j] => i = j
  BY <1>1 DEF IsInjective
<1>3. \A x : x \in Range(sub) <=> x \in {vec[k] : k \in K}
  BY <1>1 DEF Range
<1> QED
  BY <1>1, <1>2, <1>3 DEF IsInjective, sub
-----------------------------------------------------------------------------

(***************************************************************************)
(* What one change makes of a dimension.                                   *)
(***************************************************************************)

LEMMA PartialIs ==
  ASSUME NEW K, NEW V, NEW f \in Partial(K, V)
  PROVE  /\ DOMAIN f \subseteq K
         /\ \A x \in DOMAIN f : f[x] \in V
         /\ f \in [DOMAIN f -> V]
BY DEF Partial

LEMMA AllocateAt ==
  ASSUME NEW f, NEW x, NEW v
  PROVE  /\ DOMAIN Allocate(f, x, v) = DOMAIN f \union {x}
         /\ Allocate(f, x, v)[x] = v
         /\ \A y \in DOMAIN f : y # x => Allocate(f, x, v)[y] = f[y]
BY DEF Allocate

LEMMA WithoutAt ==
  ASSUME NEW f, NEW S
  PROVE  /\ DOMAIN Without(f, S) = DOMAIN f \ S
         /\ \A y \in DOMAIN f \ S : Without(f, S)[y] = f[y]
BY DEF Without

LEMMA AllocateTyped ==
  ASSUME NEW K, NEW V, NEW f \in Partial(K, V), NEW x \in K, NEW v \in V
  PROVE  Allocate(f, x, v) \in Partial(K, V)
<1>1. DOMAIN f \subseteq K /\ \A y \in DOMAIN f : f[y] \in V
  BY PartialIs
<1>2. /\ Allocate(f, x, v) \in [DOMAIN f \union {x} -> V]
      /\ DOMAIN f \union {x} \in SUBSET K
  BY <1>1 DEF Allocate
<1> QED
  BY <1>2 DEF Allocate, Partial

LEMMA WithoutTyped ==
  ASSUME NEW K, NEW V, NEW f \in Partial(K, V), NEW S
  PROVE  Without(f, S) \in Partial(K, V)
<1>1. DOMAIN f \subseteq K /\ \A y \in DOMAIN f : f[y] \in V
  BY PartialIs
<1>2. /\ Without(f, S) \in [DOMAIN f \ S -> V]
      /\ DOMAIN f \ S \in SUBSET K
  BY <1>1 DEF Without
<1> QED
  BY <1>2 DEF Without, Partial

(* The elements keep their slots, identifiers and names.                   *)
LEMMA RepositionIs ==
  ASSUME NEW slots \in Partial(Slot, ElementRecord), NEW vec, NEW P \in SUBSET Slot
  PROVE  /\ Reposition(slots, vec, P) \in Partial(Slot, ElementRecord)
         /\ DOMAIN Reposition(slots, vec, P) = DOMAIN slots
         /\ \A s \in DOMAIN slots :
              LET e == Reposition(slots, vec, P)[s] IN
              /\ e.id = slots[s].id
              /\ e.name = slots[s].name
              /\ (\E i \in P : vec[i] = s) => e.position \in P /\ vec[e.position] = s
              /\ ~(\E i \in P : vec[i] = s) => e.position = slots[s].position
<1> DEFINE new == Reposition(slots, vec, P)
<1>1. DOMAIN slots \subseteq Slot /\ \A s \in DOMAIN slots : slots[s] \in ElementRecord
  BY PartialIs
<1>2. DOMAIN new = DOMAIN slots /\ new \in [DOMAIN slots -> {new[s] : s \in DOMAIN slots}]
  BY DEF Reposition
<1>3. ASSUME NEW s \in DOMAIN slots
      PROVE  /\ new[s] \in ElementRecord
             /\ new[s].id = slots[s].id
             /\ new[s].name = slots[s].name
             /\ (\E i \in P : vec[i] = s) => new[s].position \in P /\ vec[new[s].position] = s
             /\ ~(\E i \in P : vec[i] = s) => new[s].position = slots[s].position
  <2>1. slots[s] \in ElementRecord
    BY <1>1
  <2>2. CASE \E i \in P : vec[i] = s
    <3> DEFINE at == CHOOSE i \in P : vec[i] = s
    <3>1. at \in P /\ vec[at] = s
      BY <2>2
    <3>2. new[s] = [slots[s] EXCEPT !.position = at]
      BY <2>2 DEF Reposition
    <3> HIDE DEF at, new
    <3> QED
      BY <2>1, <2>2, <3>1, <3>2 DEF ElementRecord
  <2>3. CASE ~(\E i \in P : vec[i] = s)
    BY <2>1, <2>3 DEF Reposition
  <2> QED
    BY <2>2, <2>3
<1> HIDE DEF new
<1>4. new \in Partial(Slot, ElementRecord)
  <2>1. new \in [DOMAIN slots -> ElementRecord]
    BY <1>2, <1>3
  <2> QED
    BY <1>1, <2>1 DEF Partial
<1> QED
  BY <1>2, <1>3, <1>4 DEF new

(* There are as many elements as positions.                                *)
LEMMA SizeIsLength ==
  ASSUME NEW d \in Dimensions, NEW vec, Lists(d, vec), IdsLead(d)
  PROVE  /\ SizeElements(d) = Len(vec)
         /\ DOMAIN vec = 1 .. Len(vec)
         /\ Len(vec) \in Nat
<1> DEFINE N == 1 .. Len(vec)
           f == [i \in N |-> d.slots[vec[i]].id]
<1>1. /\ Len(vec) \in Nat
      /\ DOMAIN vec = N
      /\ \A i \in N : vec[i] \in DOMAIN d.slots
      /\ \A s \in DOMAIN d.slots : \E i \in N : vec[i] = s
      /\ \A i, j \in N : vec[i] = vec[j] => i = j
  BY DEF Lists, Range, IsInjective
<1>2. f \in Bijection(N, DOMAIN d.idsMap)
  <2>1. f \in [N -> DOMAIN d.idsMap]
    BY <1>1 DEF IdsLead
  <2>2. \A i, j \in N : f[i] = f[j] => i = j
    BY <1>1, SMTT(30) DEF IdsLead
  <2>3. \A x \in DOMAIN d.idsMap : \E i \in N : f[i] = x
    BY <1>1, SMTT(30) DEF IdsLead
  <2> QED
    BY <2>1, <2>2, <2>3 DEF Bijection, Injection, Surjection, IsInjective
<1>3. IsFiniteSet(N) /\ Cardinality(N) = Len(vec)
  BY <1>1, FS_Interval, SMTT(30)
<1>4. Cardinality(DOMAIN d.idsMap) = Len(vec)
  BY <1>2, <1>3, FS_Bijection DEF ExistsBijection
<1> QED
  BY <1>1, <1>4 DEF SizeElements

LEMMA FreshIsNoPage ==
  ASSUME NEW p \in Pointer
  PROVE  p # NoPage
BY NoJobAssumption DEF Pointer, NoPage

(* The slot that ElementList::addElement gives out.                        *)
SizeOf(d, sizes) == IF d.page = NoPage THEN 0 ELSE sizes[d.page]
SlotFor(d, size) == IF d.free = <<>> THEN size + 1 ELSE Last(d.free)
SizeAfter(d, size, slot) == IF d.free = <<>> THEN slot ELSE size

(* A new slot is not in use, and the page has room behind it.              *)
LEMMA SlotIsNew ==
  ASSUME NEW d \in Dimensions, NEW pos, NEW sizes, NEW next,
         Heaps(pos, sizes, next), Sound(d, pos, sizes, next),
         NEW size, size = SizeOf(d, sizes),
         NEW slot, slot = SlotFor(d, size),
         NEW after, after = SizeAfter(d, size, slot)
  PROVE  /\ size \in Nat /\ after \in Nat /\ slot \in Slot
         /\ size <= after /\ slot <= after
         /\ slot \notin DOMAIN d.slots
         /\ LET free == IF d.free = <<>> THEN <<>> ELSE Front(d.free) IN
              /\ free \in Seq(Slot)
              /\ IsInjective(free)
              /\ Range(free) \subseteq Range(d.free)
              /\ slot \notin Range(free)
         /\ \A s \in Range(d.free) \union DOMAIN d.slots : s <= size
<1>1. d.free \in Seq(Slot)
  BY DEF Dimensions
<1>0. /\ size = IF d.page = NoPage THEN 0 ELSE sizes[d.page]
      /\ slot = IF d.free = <<>> THEN size + 1 ELSE Last(d.free)
      /\ after = IF d.free = <<>> THEN slot ELSE size
  BY DEF SizeOf, SlotFor, SizeAfter
<1>2. size \in Nat
  BY <1>0 DEF Sound, Heaps
<1>3. \A s \in Range(d.free) \union DOMAIN d.slots : s <= size
  BY <1>0 DEF Sound, SlotsApart
<1>4. DOMAIN d.slots \subseteq Slot
  <2>1. d.slots \in Partial(Slot, ElementRecord)
    BY DEF Dimensions
  <2> QED
    BY <2>1, PartialIs
<1>5. CASE d.free = <<>>
  <2>1. slot = size + 1 /\ after = slot
    BY <1>0, <1>5
  <2>2. slot \notin DOMAIN d.slots
    BY <1>2, <1>3, <1>4, <2>1 DEF Slot
  <2>3. Range(<<>>) = {} /\ <<>> \in Seq(Slot) /\ IsInjective(<<>>)
    BY DEF Range, IsInjective
  <2> QED
    BY <1>2, <1>3, <1>5, <2>1, <2>2, <2>3 DEF Slot
<1>6. CASE d.free # <<>>
  <2> DEFINE n == Len(d.free)
             free == Front(d.free)
  <2>1. n \in Nat \ {0} /\ DOMAIN d.free = 1 .. n /\ \A i \in 1 .. n : d.free[i] \in Slot
    BY <1>1, <1>6
  <2>2. slot = d.free[n] /\ after = size
    BY <1>0, <1>6 DEF Last
  <2>3. free \in Seq(Slot) /\ DOMAIN free = 1 .. (n - 1) /\ \A i \in 1 .. (n - 1) : free[i] = d.free[i]
    BY <1>1, <2>1 DEF Front
  <2>4. \A i, j \in 1 .. n : d.free[i] = d.free[j] => i = j
    BY <2>1 DEF Sound, SlotsApart, IsInjective
  <2>5. slot \in Range(d.free)
    BY <2>1, <2>2 DEF Range
  <2>6. slot \in Slot /\ slot <= after /\ slot \notin DOMAIN d.slots
    BY <1>3, <2>1, <2>2, <2>5 DEF Sound, SlotsApart
  <2> HIDE DEF n, free
  <2>7. IsInjective(free)
    BY <2>1, <2>3, <2>4 DEF IsInjective
  <2>8. Range(free) \subseteq Range(d.free)
    BY <2>1, <2>3 DEF Range
  <2>9. slot \notin Range(free)
    <3>1. \A i \in 1 .. (n - 1) : free[i] # slot
      BY <2>1, <2>2, <2>3, <2>4
    <3> QED
      BY <2>3, <3>1 DEF Range
  <2> QED
    BY <1>2, <1>3, <1>6, <2>2, <2>3, <2>6, <2>7, <2>8, <2>9 DEF free
<1> QED
  BY <1>5, <1>6

(* The copies of Dimension::checkOut.                                      *)
LEMMA CheckOutIs ==
  ASSUME NEW d \in Dimensions, NEW p \in Pointer
  PROVE  /\ LET c == CheckOutElements(d, p) IN
              /\ c \in Dimensions
              /\ c.name = d.name /\ c.elementList = p
              /\ c.page = IF d.page = NoPage THEN NoPage ELSE p
              /\ c.free = d.free /\ c.holder = d.holder /\ c.slots = d.slots
              /\ c.ids = p /\ c.idsMap = d.idsMap
              /\ c.names = d.names /\ c.namesMap = d.namesMap /\ c.posIndex = d.posIndex
         /\ LET c == CheckOutAll(d, p) IN
              /\ c \in Dimensions
              /\ c.name = d.name /\ c.elementList = p
              /\ c.page = IF d.page = NoPage THEN NoPage ELSE p
              /\ c.free = d.free /\ c.holder = d.holder /\ c.slots = d.slots
              /\ c.ids = p /\ c.idsMap = d.idsMap
              /\ c.names = p /\ c.namesMap = d.namesMap /\ c.posIndex = p
<1> DEFINE c == CheckOutElements(d, p)
           a == CheckOutAll(d, p)
           page == IF d.page = NoPage THEN NoPage ELSE p
<1>1. c = [d EXCEPT !.elementList = p, !.ids = p, !.page = page]
  BY DEF CheckOutElements
<1>2. a = [c EXCEPT !.names = p, !.posIndex = p]
  BY DEF CheckOutAll
<1>3. page \in Pointer \union {NoPage}
  OBVIOUS
<1> HIDE DEF c, a, page
<1>4. c \in Dimensions
  BY <1>1, <1>3 DEF Dimensions
<1>5. a \in Dimensions
  BY <1>2, <1>4 DEF Dimensions
<1>6. /\ c.name = d.name /\ c.elementList = p /\ c.page = page
      /\ c.free = d.free /\ c.holder = d.holder /\ c.slots = d.slots
      /\ c.ids = p /\ c.idsMap = d.idsMap
      /\ c.names = d.names /\ c.namesMap = d.namesMap /\ c.posIndex = d.posIndex
  BY <1>1 DEF Dimensions
<1>7. /\ a.name = c.name /\ a.elementList = c.elementList /\ a.page = c.page
      /\ a.free = c.free /\ a.holder = c.holder /\ a.slots = c.slots
      /\ a.ids = c.ids /\ a.idsMap = c.idsMap
      /\ a.names = p /\ a.namesMap = c.namesMap /\ a.posIndex = p
  BY <1>2, <1>4 DEF Dimensions
<1> QED
  BY <1>4, <1>5, <1>6, <1>7 DEF c, a, page

LEMMA AddElementIs ==
  ASSUME NEW d \in Dimensions, NEW p \in Pointer, NEW slot \in Slot, NEW id \in Id,
         NEW name \in Name, SizeElements(d) \in Nat
  PROVE  LET c == AddElement(d, p, slot, id, name)
             e == [id |-> id, name |-> name, position |-> SizeElements(d) + 1] IN
         /\ c.name = d.name /\ c.elementList = p /\ c.page = p
         /\ c.free = IF d.free = <<>> THEN <<>> ELSE Front(d.free)
         /\ c.holder = d.holder
         /\ c.slots = Allocate(d.slots, slot, e)
         /\ c.ids = p /\ c.idsMap = Allocate(d.idsMap, id, slot)
         /\ c.names = p /\ c.namesMap = Allocate(d.namesMap, name, slot)
         /\ c.posIndex = p
         /\ e \in ElementRecord
         /\ c \in Dimensions
<1> DEFINE e == [id |-> id, name |-> name, position |-> SizeElements(d) + 1]
           c == AddElement(d, p, slot, id, name)
           free == IF d.free = <<>> THEN <<>> ELSE Front(d.free)
<1>1. e \in ElementRecord
  BY DEF ElementRecord, Slot
<1>2. free \in Seq(Slot)
  <2>1. d.free \in Seq(Slot)
    BY DEF Dimensions
  <2>2. CASE d.free = <<>>
    BY <2>2
  <2>3. CASE d.free # <<>>
    BY <2>1, <2>3 DEF Front
  <2> QED
    BY <2>2, <2>3
<1>3. /\ d.slots \in Partial(Slot, ElementRecord)
      /\ d.idsMap \in Partial(Id, Slot)
      /\ d.namesMap \in Partial(Name, Slot)
  BY DEF Dimensions
<1>4. /\ Allocate(d.slots, slot, e) \in Partial(Slot, ElementRecord)
      /\ Allocate(d.idsMap, id, slot) \in Partial(Id, Slot)
      /\ Allocate(d.namesMap, name, slot) \in Partial(Name, Slot)
  BY <1>1, <1>3, AllocateTyped
<1> DEFINE b == CheckOutAll(d, p)
<1>5. /\ b \in Dimensions
      /\ b.name = d.name /\ b.elementList = p
      /\ b.free = d.free /\ b.holder = d.holder /\ b.slots = d.slots
      /\ b.ids = p /\ b.idsMap = d.idsMap
      /\ b.names = p /\ b.namesMap = d.namesMap /\ b.posIndex = p
  BY CheckOutIs
<1> HIDE DEF e, free, b
<1>6. c = [b EXCEPT !.page = p, !.free = free, !.slots = Allocate(d.slots, slot, e),
                    !.idsMap = Allocate(d.idsMap, id, slot),
                    !.namesMap = Allocate(d.namesMap, name, slot)]
  BY <1>5 DEF AddElement, e, free, b
<1> HIDE DEF c
<1>7. c \in Dimensions
  BY <1>2, <1>4, <1>5, <1>6 DEF Dimensions
<1>8. /\ c.name = b.name /\ c.elementList = b.elementList /\ c.page = p
      /\ c.free = free /\ c.holder = b.holder /\ c.slots = Allocate(d.slots, slot, e)
      /\ c.ids = b.ids /\ c.idsMap = Allocate(d.idsMap, id, slot)
      /\ c.names = b.names /\ c.namesMap = Allocate(d.namesMap, name, slot)
      /\ c.posIndex = b.posIndex
  BY <1>5, <1>6 DEF Dimensions
<1> QED
  BY <1>1, <1>5, <1>7, <1>8 DEF c, e, free

(* A sound dimension is regular.                                           *)
LEMMA SoundIsRegular ==
  ASSUME NEW d \in Dimensions, NEW pos, NEW sizes, NEW next, Sound(d, pos, sizes, next)
  PROVE  Regular(d, pos[d.posIndex])
<1> DEFINE vec == pos[d.posIndex]
<1>1. Lists(d, vec) /\ IdsLead(d) /\ d.posIndex \in DOMAIN pos
  BY DEF Sound
<1>2. d.slots \in Partial(Slot, ElementRecord) /\ d.idsMap \in Partial(Id, Slot)
  BY DEF Dimensions
<1>3. /\ DOMAIN d.slots \subseteq Slot /\ DOMAIN d.idsMap \subseteq Id
      /\ \A s \in DOMAIN d.slots : d.slots[s] \in ElementRecord
  BY <1>2, PartialIs
<1> HIDE DEF vec
<1>5. SizeElements(d) = Len(vec) /\ DOMAIN vec = 1 .. Len(vec) /\ Len(vec) \in Nat
  BY <1>1, SizeIsLength
<1>6. /\ vec \in Seq(Slot)
      /\ \A i \in DOMAIN vec : vec[i] \in DOMAIN d.slots
      /\ \A s \in DOMAIN d.slots : \E i \in DOMAIN vec : vec[i] = s
      /\ \A i, j \in DOMAIN vec : vec[i] = vec[j] => i = j
      /\ \A s \in DOMAIN d.slots : d.slots[s].position \in DOMAIN vec
  BY <1>1 DEF Lists, Range, IsInjective
<1> QED
  BY <1>3, <1>5, <1>6 DEF vec, Regular

(* Dimension::addElement                                                   *)
IsAdded(c, d, p, name, slot, pos, sizes, next, pos2, sizes2, next2) ==
  /\ c \in Dimensions
  /\ c.elementList = p /\ c.posIndex = p
  /\ Sound(c, pos2, sizes2, next2)
  /\ Aligned(d, pos[d.posIndex]) => Aligned(c, pos2[c.posIndex])
  /\ NamesLead(d) /\ name \notin DOMAIN d.namesMap => NamesLead(c)
  /\ pos2[p] = Append(pos[d.posIndex], slot)
  /\ slot \notin DOMAIN d.slots

LEMMA AddElementSound ==
  ASSUME NEW d \in Dimensions, NEW pos, NEW sizes, NEW next,
         Heaps(pos, sizes, next), Sound(d, pos, sizes, next),
         NEW p \in Pointer, NEW name \in Name,
         NEW slot, slot = SlotFor(d, SizeOf(d, sizes)),
         NEW pos2, p \in DOMAIN pos2,
         pos2[p] = Append(SubSeq(pos[d.posIndex], 1, SizeElements(d)), slot),
         NEW sizes2, p \in DOMAIN sizes2, sizes2[p] = SizeAfter(d, SizeOf(d, sizes), slot),
         NEW next2, d.holder \in DOMAIN next2, next2[d.holder] = next[d.holder] + 1,
         NEW c, c = AddElement(d, p, slot, next[d.holder], name)
  PROVE  IsAdded(c, d, p, name, slot, pos, sizes, next, pos2, sizes2, next2)
<1>30. PICK size : size = SizeOf(d, sizes)
  OBVIOUS
<1>31. PICK after : after = SizeAfter(d, size, slot) /\ sizes2[p] = after
  BY <1>30
<1> DEFINE vec == pos[d.posIndex]
           id == next[d.holder]
           e == [id |-> id, name |-> name, position |-> SizeElements(d) + 1]
           free == IF d.free = <<>> THEN <<>> ELSE Front(d.free)
           new == pos2[p]
<1>1. Regular(d, vec) /\ id \in Nat
  BY SoundIsRegular DEF Sound, Heaps
<1>2. /\ size \in Nat /\ after \in Nat /\ slot \in Slot /\ size <= after /\ slot <= after
      /\ slot \notin DOMAIN d.slots
      /\ free \in Seq(Slot) /\ IsInjective(free)
      /\ Range(free) \subseteq Range(d.free) /\ slot \notin Range(free)
      /\ \A s \in Range(d.free) \union DOMAIN d.slots : s <= size
  BY <1>30, <1>31, SlotIsNew
<1>3. id \in Id
  BY <1>1 DEF Id, Regular
<1>4. /\ c.elementList = p /\ c.page = p /\ c.free = free /\ c.holder = d.holder /\ c.posIndex = p
      /\ c.slots = Allocate(d.slots, slot, e)
      /\ c.idsMap = Allocate(d.idsMap, id, slot)
      /\ c.namesMap = Allocate(d.namesMap, name, slot)
      /\ e \in ElementRecord
      /\ c \in Dimensions
  BY <1>1, <1>2, <1>3, AddElementIs DEF Regular
<1>5. new = Append(vec, slot)
  <2>1. SubSeq(vec, 1, Len(vec)) = vec
    BY <1>1 DEF Regular
  <2> QED
    BY <1>1, <2>1 DEF Regular
<1>6. /\ new \in Seq(Slot) /\ DOMAIN new = DOMAIN vec \union {Len(vec) + 1}
      /\ new[Len(vec) + 1] = slot
      /\ \A i \in DOMAIN vec : new[i] = vec[i]
      /\ Len(vec) + 1 \notin DOMAIN vec
  BY <1>1, <1>2, <1>5, SMTT(30) DEF Regular
<1>7. /\ d.slots \in Partial(Slot, ElementRecord)
      /\ d.idsMap \in Partial(Id, Slot)
      /\ d.namesMap \in Partial(Name, Slot)
  BY DEF Dimensions
<1>8. /\ DOMAIN c.slots = DOMAIN d.slots \union {slot}
      /\ c.slots[slot] = e
      /\ \A s \in DOMAIN d.slots : c.slots[s] = d.slots[s]
  BY <1>2, <1>4 DEF Allocate
<1>9. id \notin DOMAIN d.idsMap
  BY <1>1 DEF Sound, IdsBelow, Id, Regular
<1>10. /\ DOMAIN c.idsMap = DOMAIN d.idsMap \union {id}
       /\ c.idsMap[id] = slot
       /\ \A i \in DOMAIN d.idsMap : c.idsMap[i] = d.idsMap[i]
  BY <1>4, <1>9 DEF Allocate
<1>11. e.id = id /\ e.name = name /\ e.position = Len(vec) + 1
  BY <1>1 DEF Regular
<1> HIDE DEF vec, id, e, free, new
<1>12. Lists(c, new)
  <2>1. IsInjective(new)
    BY <1>1, <1>2, <1>6 DEF IsInjective, Regular
  <2>2. Range(new) = DOMAIN c.slots
    <3>1. \A s \in DOMAIN c.slots : \E i \in DOMAIN new : new[i] = s
      BY <1>1, <1>6, <1>8 DEF Regular
    <3>2. \A i \in DOMAIN new : new[i] \in DOMAIN c.slots
      BY <1>1, <1>6, <1>8 DEF Regular
    <3> QED
      BY <3>1, <3>2 DEF Range
  <2>3. \A s \in DOMAIN c.slots : c.slots[s].position \in DOMAIN new
    BY <1>1, <1>6, <1>8, <1>11, SMTT(30) DEF Regular
  <2> QED
    BY <1>6, <2>1, <2>2, <2>3 DEF Lists
<1>13. IdsLead(c)
  <2>1. IdsLead(d)
    BY SMTT(30) DEF Sound
  <2>3. ASSUME NEW s \in DOMAIN c.slots
      PROVE  c.slots[s].id \in DOMAIN c.idsMap /\ c.idsMap[c.slots[s].id] = s
    <3>1. CASE s = slot
      BY <1>2, <1>8, <1>9, <1>10, <1>11, <3>1
    <3>2. CASE s # slot
      <4>1. s \in DOMAIN d.slots /\ c.slots[s] = d.slots[s]
        BY <1>2, <1>8, <1>9, <1>10, <1>11, <3>2
      <4>2. d.slots[s].id \in DOMAIN d.idsMap /\ d.idsMap[d.slots[s].id] = s
        BY <2>1, <4>1, SMTT(30) DEF IdsLead
      <4> QED
        BY <1>2, <1>8, <1>9, <1>10, <1>11, <4>1, <4>2
    <3> QED
      BY <3>1, <3>2
  <2>4. ASSUME NEW k \in DOMAIN c.idsMap
      PROVE  c.idsMap[k] \in DOMAIN c.slots /\ c.slots[c.idsMap[k]].id = k
    <3>1. CASE k = id
      BY <1>2, <1>8, <1>9, <1>10, <1>11, <3>1
    <3>2. CASE k # id
      <4>1. k \in DOMAIN d.idsMap /\ c.idsMap[k] = d.idsMap[k]
        BY <1>2, <1>8, <1>9, <1>10, <1>11, <3>2
      <4>2. d.idsMap[k] \in DOMAIN d.slots /\ d.slots[d.idsMap[k]].id = k
        BY <2>1, <4>1 DEF IdsLead
      <4> QED
        BY <1>2, <1>8, <1>9, <1>10, <1>11, <4>1, <4>2
    <3> QED
      BY <3>1, <3>2
  <2> QED
    BY <2>3, <2>4 DEF IdsLead
<1>14. SlotsApart(c, sizes2)
  <2>1. Range(d.free) \intersect DOMAIN d.slots = {}
    BY DEF Sound, SlotsApart
  <2>2. Range(free) \intersect DOMAIN c.slots = {}
    BY <1>2, <1>8, <2>1
  <2>3. \A s \in Range(free) \union DOMAIN c.slots : s <= after
    <3>1. \A s \in Range(d.free) : s \in Nat
      <4>1. d.free \in Seq(Slot)
        BY DEF Dimensions
      <4> QED
        BY <4>1 DEF Range, Slot
    <3> QED
      BY <1>1, <1>2, <1>8, <3>1 DEF Slot, Regular
  <2>4. p # NoPage
    BY FreshIsNoPage
  <2> QED
    BY <1>2, <1>4, <1>31, <2>2, <2>3, <2>4 DEF SlotsApart
<1>15. IdsBelow(c, next2)
  <2>1. \A i \in DOMAIN d.idsMap : i < id
    BY DEF Sound, IdsBelow, id
  <2>2. next2[c.holder] = id + 1
    BY <1>4 DEF id
  <2> QED
    BY <1>1, <1>10, <2>1, <2>2 DEF IdsBelow, Id, Regular
<1>16. Sound(c, pos2, sizes2, next2)
  BY <1>4, <1>12, <1>13, <1>14, <1>15 DEF Sound, new
<1>17. Aligned(d, vec) => Aligned(c, new)
  BY <1>1, <1>6, <1>8, <1>11, SMTT(30) DEF Aligned, Regular
<1>18. NamesLead(d) /\ name \notin DOMAIN d.namesMap => NamesLead(c)
  <2>1. SUFFICES ASSUME NamesLead(d), name \notin DOMAIN d.namesMap
                 PROVE  NamesLead(c)
    OBVIOUS
  <2>2. /\ DOMAIN c.namesMap = DOMAIN d.namesMap \union {name}
        /\ c.namesMap[name] = slot
        /\ \A n \in DOMAIN d.namesMap : c.namesMap[n] = d.namesMap[n]
    BY <1>4, <2>1 DEF Allocate
  <2>3. ASSUME NEW s \in DOMAIN c.slots
      PROVE  c.slots[s].name \in DOMAIN c.namesMap /\ c.namesMap[c.slots[s].name] = s
    <3>1. CASE s = slot
      BY <1>2, <1>8, <1>11, <2>1, <2>2, <3>1
    <3>2. CASE s # slot
      <4>1. s \in DOMAIN d.slots /\ c.slots[s] = d.slots[s]
        BY <1>2, <1>8, <1>11, <2>1, <2>2, <3>2
      <4>2. d.slots[s].name \in DOMAIN d.namesMap /\ d.namesMap[d.slots[s].name] = s
        BY <2>1, <4>1, SMTT(30) DEF NamesLead
      <4> QED
        BY <1>2, <1>8, <1>11, <2>1, <2>2, <4>1, <4>2
    <3> QED
      BY <3>1, <3>2
  <2>4. ASSUME NEW k \in DOMAIN c.namesMap
      PROVE  c.namesMap[k] \in DOMAIN c.slots /\ c.slots[c.namesMap[k]].name = k
    <3>1. CASE k = name
      BY <1>2, <1>8, <1>11, <2>1, <2>2, <3>1
    <3>2. CASE k # name
      <4>1. k \in DOMAIN d.namesMap /\ c.namesMap[k] = d.namesMap[k]
        BY <1>2, <1>8, <1>11, <2>1, <2>2, <3>2
      <4>2. d.namesMap[k] \in DOMAIN d.slots /\ d.slots[d.namesMap[k]].name = k
        BY <2>1, <4>1 DEF NamesLead
      <4> QED
        BY <1>2, <1>8, <1>11, <2>1, <2>2, <4>1, <4>2
    <3> QED
      BY <3>1, <3>2
  <2> QED
    BY <2>3, <2>4 DEF NamesLead
<1> QED
  BY <1>2, <1>4, <1>5, <1>16, <1>17, <1>18 DEF vec, new, IsAdded

(* What keeps the elements, their slots and identifiers is sound again.    *)
LEMMA KeepsSound ==
  ASSUME NEW d \in Dimensions, NEW c \in Dimensions,
         NEW pos, NEW sizes, NEW next, NEW pos2, NEW sizes2, NEW next2,
         Heaps(pos, sizes, next), Sound(d, pos, sizes, next), Heaps(pos2, sizes2, next2),
         c.idsMap = d.idsMap, c.free = d.free, DOMAIN c.slots = DOMAIN d.slots,
         \A s \in DOMAIN d.slots : c.slots[s].id = d.slots[s].id,
         d.page = NoPage => c.page = NoPage,
         d.page # NoPage =>
           c.page # NoPage /\ c.page \in DOMAIN sizes2 /\ sizes[d.page] <= sizes2[c.page],
         c.holder \in DOMAIN next2, next[d.holder] <= next2[c.holder],
         c.posIndex \in DOMAIN pos2, Lists(c, pos2[c.posIndex])
  PROVE  Sound(c, pos2, sizes2, next2)
<1>1. IdsLead(c)
  BY DEF Sound, IdsLead
<1>2. SlotsApart(c, sizes2)
  <2>1. \A s \in Range(d.free) \union DOMAIN d.slots : s \in Nat
    <3>1. d.free \in Seq(Slot) /\ d.slots \in Partial(Slot, ElementRecord)
      BY DEF Dimensions
    <3>2. DOMAIN d.slots \subseteq Slot
      BY <3>1, PartialIs
    <3> QED
      BY <3>1, <3>2 DEF Range, Slot
  <2>2. SlotsApart(d, sizes)
    BY DEF Sound
  <2>3. ASSUME NEW s \in Range(c.free) \union DOMAIN c.slots
        PROVE  c.page # NoPage /\ s <= sizes2[c.page]
    <3>1. d.page # NoPage /\ s <= sizes[d.page] /\ s \in Nat
      BY <2>1, <2>2 DEF SlotsApart
    <3>2. sizes[d.page] \in Nat /\ sizes2[c.page] \in Nat
      BY <3>1 DEF Sound, Heaps
    <3> QED
      BY <3>1, <3>2
  <2> QED
    BY <2>2, <2>3 DEF SlotsApart
<1>3. IdsBelow(c, next2)
  <2>1. d.idsMap \in Partial(Id, Slot)
    BY DEF Dimensions
  <2>2. \A i \in DOMAIN d.idsMap : i \in Nat
    BY <2>1, PartialIs DEF Id
  <2>3. next[d.holder] \in Nat /\ next2[c.holder] \in Nat
    BY DEF Sound, Heaps
  <2>4. \A i \in DOMAIN d.idsMap : i < next[d.holder]
    BY DEF Sound, IdsBelow
  <2> QED
    BY <2>2, <2>3, <2>4 DEF IdsBelow
<1> QED
  BY <1>1, <1>2, <1>3 DEF Sound

(* What others allocate, count up or rearrange leaves a dimension sound.   *)
Rearranged(pos, pos2) ==
  \A p \in DOMAIN pos :
    /\ p \in DOMAIN pos2
    /\ DOMAIN pos2[p] = DOMAIN pos[p]
    /\ IsInjective(pos[p]) => IsInjective(pos2[p]) /\ Range(pos2[p]) = Range(pos[p])

Grown(f, g) == \A p \in DOMAIN f : p \in DOMAIN g /\ f[p] <= g[p]

LEMMA HeapKeepsSound ==
  ASSUME NEW d \in Dimensions,
         NEW pos, NEW sizes, NEW next, NEW pos2, NEW sizes2, NEW next2,
         Heaps(pos, sizes, next), Sound(d, pos, sizes, next), Heaps(pos2, sizes2, next2),
         Rearranged(pos, pos2), Grown(sizes, sizes2), Grown(next, next2)
  PROVE  Sound(d, pos2, sizes2, next2)
<1>1. d.posIndex \in DOMAIN pos2 /\ d.holder \in DOMAIN next2 /\ next[d.holder] <= next2[d.holder]
  BY DEF Sound, Rearranged, Grown
<1>2. d.page # NoPage => d.page \in DOMAIN sizes2 /\ sizes[d.page] <= sizes2[d.page]
  BY DEF Sound, Grown
<1>3. Lists(d, pos2[d.posIndex])
  BY <1>1 DEF Sound, Lists, Rearranged, Heaps
<1> QED
  BY <1>1, <1>2, <1>3, KeepsSound

(* What keeps the positions too keeps the vector.                          *)
LEMMA KeepsLists ==
  ASSUME NEW d, NEW c, NEW vec, Lists(d, vec), DOMAIN c.slots = DOMAIN d.slots,
         \A s \in DOMAIN d.slots : c.slots[s].position = d.slots[s].position
  PROVE  Lists(c, vec) /\ (Aligned(d, vec) => Aligned(c, vec))
BY DEF Lists, Aligned

(* The page of a copy has the size of the one it copies.                   *)
PageCopied(d, p, sizes, sizes2) ==
  d.page # NoPage => p \in DOMAIN sizes2 /\ sizes2[p] = sizes[d.page]

(* A copy of the elements is sound with any slots like those it copies.    *)
LEMMA CopySound ==
  ASSUME NEW d \in Dimensions, NEW c \in Dimensions, NEW p \in Pointer,
         NEW pos, NEW sizes, NEW next, NEW pos2, NEW sizes2,
         Heaps(pos, sizes, next), Sound(d, pos, sizes, next), Heaps(pos2, sizes2, next),
         PageCopied(d, p, sizes, sizes2),
         c.page = IF d.page = NoPage THEN NoPage ELSE p,
         c.free = d.free, c.holder = d.holder, c.idsMap = d.idsMap,
         DOMAIN c.slots = DOMAIN d.slots,
         \A s \in DOMAIN d.slots : c.slots[s].id = d.slots[s].id,
         c.posIndex \in DOMAIN pos2, Lists(c, pos2[c.posIndex])
  PROVE  Sound(c, pos2, sizes2, next)
<1>1. p # NoPage
  BY FreshIsNoPage
<1>2. next[d.holder] \in Nat /\ d.holder \in DOMAIN next
  BY DEF Sound, Heaps
<1>3. next[d.holder] <= next[c.holder] /\ c.holder \in DOMAIN next
  BY <1>2
<1>4. d.page # NoPage =>
        c.page # NoPage /\ c.page \in DOMAIN sizes2 /\ sizes[d.page] <= sizes2[c.page]
  BY <1>1 DEF PageCopied, Sound, Heaps
<1>5. d.page = NoPage => c.page = NoPage
  OBVIOUS
<1> QED
  BY <1>3, <1>4, <1>5, KeepsSound

(* Dimension::changeElementName                                            *)
LEMMA RenameOtherIs ==
  ASSUME NEW d \in Dimensions, NEW p \in Pointer, NEW name \in Name,
         NEW slot \in DOMAIN d.slots, name # d.slots[slot].name
  PROVE  LET c == ChangeElementName(d, p, slot, name) IN
         /\ c \in Dimensions
         /\ c.elementList = p /\ c.name = d.name /\ c.holder = d.holder
         /\ c.page = IF d.page = NoPage THEN NoPage ELSE p
         /\ c.free = d.free /\ c.idsMap = d.idsMap /\ c.posIndex = d.posIndex
         /\ c.namesMap = Allocate(Without(d.namesMap, {d.slots[slot].name}), name, slot)
         /\ DOMAIN c.slots = DOMAIN d.slots
         /\ \A s \in DOMAIN d.slots :
              /\ c.slots[s].id = d.slots[s].id
              /\ c.slots[s].name = IF s = slot THEN name ELSE d.slots[s].name
              /\ c.slots[s].position = d.slots[s].position
<1> DEFINE b == CheckOutElements(d, p)
           oldName == d.slots[slot].name
           slots == [d.slots EXCEPT ![slot].name = name]
           names == Allocate(Without(d.namesMap, {oldName}), name, slot)
           c == ChangeElementName(d, p, slot, name)
<1>2. /\ b \in Dimensions
      /\ b.name = d.name /\ b.elementList = p
      /\ b.page = IF d.page = NoPage THEN NoPage ELSE p
      /\ b.free = d.free /\ b.holder = d.holder /\ b.slots = d.slots
      /\ b.ids = p /\ b.idsMap = d.idsMap
      /\ b.names = d.names /\ b.namesMap = d.namesMap /\ b.posIndex = d.posIndex
  BY CheckOutIs
<1>3. d.slots \in Partial(Slot, ElementRecord) /\ d.namesMap \in Partial(Name, Slot)
  BY DEF Dimensions
<1>4. DOMAIN d.slots \subseteq Slot /\ \A s \in DOMAIN d.slots : d.slots[s] \in ElementRecord
  BY <1>3, PartialIs
<1>5. /\ slots \in Partial(Slot, ElementRecord)
      /\ DOMAIN slots = DOMAIN d.slots
      /\ \A s \in DOMAIN d.slots :
           /\ slots[s].id = d.slots[s].id
           /\ slots[s].name = IF s = slot THEN name ELSE d.slots[s].name
           /\ slots[s].position = d.slots[s].position
  <2>1. DOMAIN slots = DOMAIN d.slots
    OBVIOUS
  <2>2. \A s \in DOMAIN d.slots :
           /\ slots[s] \in ElementRecord
           /\ slots[s].id = d.slots[s].id
           /\ slots[s].name = IF s = slot THEN name ELSE d.slots[s].name
           /\ slots[s].position = d.slots[s].position
    BY <1>4 DEF ElementRecord
  <2>3. slots = [s \in DOMAIN d.slots |-> slots[s]]
    BY <1>3, PartialIs
  <2> HIDE DEF slots
  <2>4. slots \in [DOMAIN d.slots -> ElementRecord]
    BY <2>2, <2>3
  <2> QED
    BY <1>4, <2>1, <2>2, <2>4 DEF Partial
<1>6. names \in Partial(Name, Slot)
  BY <1>3, <1>4, WithoutTyped, AllocateTyped
<1>7. c = [b EXCEPT !.names = p, !.slots = slots, !.namesMap = names]
  <2>1. c = [b EXCEPT !.names = p, !.slots[slot].name = name,
                      !.namesMap = Allocate(Without(@, {oldName}), name, slot)]
    BY DEF ChangeElementName
  <2> HIDE DEF b, c, oldName
  <2> QED
    BY <1>2, <2>1
<1> HIDE DEF b, slots, names, c
<1>8. c \in Dimensions
  BY <1>2, <1>5, <1>6, <1>7 DEF Dimensions
<1>9. /\ c.name = b.name /\ c.elementList = b.elementList /\ c.page = b.page
      /\ c.free = b.free /\ c.holder = b.holder /\ c.slots = slots
      /\ c.idsMap = b.idsMap /\ c.namesMap = names /\ c.posIndex = b.posIndex
  BY <1>2, <1>7 DEF Dimensions
<1>10. /\ DOMAIN c.slots = DOMAIN d.slots
       /\ \A s \in DOMAIN d.slots :
            /\ c.slots[s].id = d.slots[s].id
            /\ c.slots[s].name = IF s = slot THEN name ELSE d.slots[s].name
            /\ c.slots[s].position = d.slots[s].position
  BY <1>5, <1>9
<1> QED
  BY <1>2, <1>8, <1>9, <1>10 DEF b, c, names

(* A name that leads to no other element may be given to one.              *)
LEMMA RenameNames ==
  ASSUME NEW d, NEW c, NamesLead(d), NEW slot \in DOMAIN d.slots,
         NEW oldName, oldName = d.slots[slot].name, NEW name, name # oldName,
         name \in DOMAIN d.namesMap => d.namesMap[name] = slot,
         c.namesMap = Allocate(Without(d.namesMap, {oldName}), name, slot),
         DOMAIN c.slots = DOMAIN d.slots,
         \A s \in DOMAIN d.slots : c.slots[s].name = IF s = slot THEN name ELSE d.slots[s].name
  PROVE  NamesLead(c)
<1>1. name \notin DOMAIN d.namesMap
  BY DEF NamesLead
<1>2. /\ DOMAIN c.namesMap = (DOMAIN d.namesMap \ {oldName}) \union {name}
      /\ c.namesMap[name] = slot
      /\ \A n \in DOMAIN d.namesMap \ {oldName} : c.namesMap[n] = d.namesMap[n]
  BY <1>1 DEF Allocate, Without
<1>3. ASSUME NEW s \in DOMAIN c.slots
      PROVE  c.slots[s].name \in DOMAIN c.namesMap /\ c.namesMap[c.slots[s].name] = s
  <2>1. CASE s = slot
    BY <1>2, <2>1
  <2>2. CASE s # slot
    <3>1. c.slots[s].name = d.slots[s].name /\ s \in DOMAIN d.slots
      BY <2>2
    <3>2. d.slots[s].name \in DOMAIN d.namesMap /\ d.namesMap[d.slots[s].name] = s
      BY <3>1 DEF NamesLead
    <3>3. d.namesMap[oldName] = slot
      BY DEF NamesLead
    <3>4. d.slots[s].name # oldName
      BY <2>2, <3>2, <3>3
    <3> QED
      BY <1>2, <3>1, <3>2, <3>4, ZenonT(30)
  <2> QED
    BY <2>1, <2>2
<1>4. ASSUME NEW n \in DOMAIN c.namesMap
      PROVE  c.namesMap[n] \in DOMAIN c.slots /\ c.slots[c.namesMap[n]].name = n
  <2>1. CASE n = name
    BY <1>2, <2>1
  <2>2. CASE n # name
    <3>1. n \in DOMAIN d.namesMap /\ n # oldName /\ c.namesMap[n] = d.namesMap[n]
      BY <1>2, <2>2
    <3>2. d.namesMap[n] \in DOMAIN d.slots /\ d.slots[d.namesMap[n]].name = n
      BY <3>1 DEF NamesLead
    <3>3. d.namesMap[n] # slot
      BY <3>1, <3>2
    <3> QED
      BY <3>1, <3>2, <3>3
  <2> QED
    BY <2>1, <2>2
<1> QED
  BY <1>3, <1>4 DEF NamesLead

(* A copy with the element of one slot renamed.                            *)
IsRenamed(c, d, p, slot, name) ==
  /\ c \in Dimensions
  /\ c.elementList = p /\ c.name = d.name /\ c.holder = d.holder
  /\ c.page = IF d.page = NoPage THEN NoPage ELSE p
  /\ c.free = d.free /\ c.idsMap = d.idsMap /\ c.posIndex = d.posIndex
  /\ DOMAIN c.slots = DOMAIN d.slots
  /\ \A s \in DOMAIN d.slots :
       /\ c.slots[s].id = d.slots[s].id
       /\ c.slots[s].name = IF s = slot THEN name ELSE d.slots[s].name
       /\ c.slots[s].position = d.slots[s].position

LEMMA RenameIs ==
  ASSUME NEW d \in Dimensions, NEW p \in Pointer, NEW name \in Name,
         NEW slot \in DOMAIN d.slots
  PROVE  LET c == ChangeElementName(d, p, slot, name) IN
         /\ IsRenamed(c, d, p, slot, name)
         /\ NamesLead(d) /\ (name \in DOMAIN d.namesMap => d.namesMap[name] = slot)
              => NamesLead(c)
<1> DEFINE c == ChangeElementName(d, p, slot, name)
           oldName == d.slots[slot].name
<1>1. CASE name = oldName
  <2> DEFINE b == CheckOutElements(d, p)
  <2>1. c = b
    BY <1>1 DEF ChangeElementName
  <2>2. /\ b \in Dimensions
        /\ b.name = d.name /\ b.elementList = p
        /\ b.page = IF d.page = NoPage THEN NoPage ELSE p
        /\ b.free = d.free /\ b.holder = d.holder /\ b.slots = d.slots
        /\ b.idsMap = d.idsMap
        /\ b.namesMap = d.namesMap /\ b.posIndex = d.posIndex
    BY CheckOutIs
  <2> HIDE DEF b
  <2>3. IsRenamed(b, d, p, slot, name)
    BY <1>1, <2>2 DEF IsRenamed
  <2>4. NamesLead(d) => NamesLead(b)
    BY <2>2 DEF NamesLead
  <2> QED
    BY <2>1, <2>3, <2>4
<1>2. CASE name # oldName
  <2>1. /\ IsRenamed(c, d, p, slot, name)
        /\ c.namesMap = Allocate(Without(d.namesMap, {oldName}), name, slot)
    BY <1>2, RenameOtherIs DEF IsRenamed
  <2> HIDE DEF c
  <2>2. /\ DOMAIN c.slots = DOMAIN d.slots
        /\ \A s \in DOMAIN d.slots : c.slots[s].name = IF s = slot THEN name ELSE d.slots[s].name
    BY <2>1 DEF IsRenamed
  <2>3. ASSUME NamesLead(d), name \in DOMAIN d.namesMap => d.namesMap[name] = slot
        PROVE  NamesLead(c)
    BY <1>2, <2>1, <2>2, <2>3, RenameNames
  <2> QED
    BY <2>1, <2>3 DEF c
<1> QED
  BY <1>1, <1>2

LEMMA RenameSound ==
  ASSUME NEW d \in Dimensions, NEW p \in Pointer, NEW name \in Name, NEW id \in DOMAIN d.idsMap,
         NEW pos, NEW sizes, NEW next, NEW sizes2,
         Heaps(pos, sizes, next), Sound(d, pos, sizes, next), Heaps(pos, sizes2, next),
         PageCopied(d, p, sizes, sizes2),
         NEW slot, slot = d.idsMap[id],
         NEW c, IsRenamed(c, d, p, slot, name)
  PROVE  /\ Sound(c, pos, sizes2, next)
         /\ slot \in DOMAIN d.slots /\ d.slots[slot].id = id
         /\ Aligned(d, pos[d.posIndex]) => Aligned(c, pos[c.posIndex])
<1>1. slot \in DOMAIN d.slots /\ d.slots[slot].id = id
  BY DEF Sound, IdsLead
<1>2. Lists(d, pos[d.posIndex]) /\ d.posIndex \in DOMAIN pos
  BY DEF Sound
<1>3. Lists(c, pos[c.posIndex]) /\ (Aligned(d, pos[d.posIndex]) => Aligned(c, pos[c.posIndex]))
  <2>1. Lists(c, pos[d.posIndex]) /\ (Aligned(d, pos[d.posIndex]) => Aligned(c, pos[d.posIndex]))
    BY <1>2, KeepsLists DEF IsRenamed
  <2> QED
    BY <2>1 DEF IsRenamed
<1>4. /\ c \in Dimensions
      /\ c.page = IF d.page = NoPage THEN NoPage ELSE p
      /\ c.free = d.free /\ c.holder = d.holder /\ c.idsMap = d.idsMap
      /\ DOMAIN c.slots = DOMAIN d.slots
      /\ \A s \in DOMAIN d.slots : c.slots[s].id = d.slots[s].id
      /\ c.posIndex \in DOMAIN pos
  BY <1>2 DEF IsRenamed
<1>5. Sound(c, pos, sizes2, next)
  BY <1>3, <1>4, CopySound
<1> QED
  BY <1>1, <1>3, <1>5


(***************************************************************************)
(* Vectors of positions.                                                   *)
(***************************************************************************)

(* Where the element at position i comes from when the one at from moves   *)
(* to the position to.                                                     *)
Source(i, from, to) ==
  IF i = to THEN from
  ELSE IF from <= i /\ i < to THEN i + 1
  ELSE IF to < i /\ i <= from THEN i - 1
  ELSE i

Between(from, to) == (from .. to) \union (to .. from)

SourcePermutes(n, from, to) ==
  /\ \A i \in 1 .. n : Source(i, from, to) \in 1 .. n
  /\ \A i, k \in 1 .. n : Source(i, from, to) = Source(k, from, to) => i = k
  /\ \A k \in 1 .. n : \E i \in 1 .. n : Source(i, from, to) = k
  /\ \A i \in 1 .. n : i \notin Between(from, to) => Source(i, from, to) = i

LEMMA SourceIsBijection ==
  ASSUME NEW n \in Nat, NEW from \in 1 .. n, NEW to \in 1 .. n
  PROVE  SourcePermutes(n, from, to)
<1>1. \A i \in 1 .. n : Source(i, from, to) \in 1 .. n
  BY DEF Source
<1>2. \A i, k \in 1 .. n : Source(i, from, to) = Source(k, from, to) => i = k
  BY DEF Source
<1>3. \A k \in 1 .. n : Source(k, to, from) \in 1 .. n /\ Source(Source(k, to, from), from, to) = k
  BY DEF Source
<1>4. \A i \in 1 .. n : i \notin Between(from, to) => Source(i, from, to) = i
  BY DEF Source, Between
<1> QED
  BY <1>1, <1>2, <1>3, <1>4 DEF SourcePermutes

LEMMA ConcatIs ==
  ASSUME NEW S, NEW a \in Seq(S), NEW b \in Seq(S)
  PROVE  /\ a \o b \in Seq(S)
         /\ Len(a) \in Nat /\ Len(b) \in Nat
         /\ Len(a \o b) = Len(a) + Len(b)
         /\ \A i \in 1 .. Len(a) + Len(b) :
              (a \o b)[i] = IF i <= Len(a) THEN a[i] ELSE b[i - Len(a)]
OBVIOUS

LEMMA MoveVector ==
  ASSUME NEW S, NEW vec \in Seq(S), NEW from \in DOMAIN vec, NEW to \in DOMAIN vec
  PROVE  LET new == InsertAt(RemoveAt(vec, from), to, vec[from]) IN
         /\ new \in Seq(S)
         /\ Len(new) = Len(vec)
         /\ DOMAIN new = DOMAIN vec
         /\ \A i \in DOMAIN vec : new[i] = vec[Source(i, from, to)]
<1> DEFINE n == Len(vec)
           rem == RemoveAt(vec, from)
           new == InsertAt(rem, to, vec[from])
<1>1. n \in Nat /\ DOMAIN vec = 1 .. n /\ from \in 1 .. n /\ to \in 1 .. n
  OBVIOUS
<1>2. \A i \in 1 .. n : vec[i] \in S
  OBVIOUS
<1>3. /\ rem \in Seq(S) /\ Len(rem) = n - 1
      /\ \A i \in 1 .. (n - 1) : rem[i] = IF i < from THEN vec[i] ELSE vec[i + 1]
  <2> DEFINE a == SubSeq(vec, 1, from - 1)
             b == SubSeq(vec, from + 1, n)
  <2>1. a \in Seq(S) /\ Len(a) = from - 1 /\ \A i \in 1 .. (from - 1) : a[i] = vec[i]
    BY <1>1, <1>2
  <2>2. b \in Seq(S) /\ Len(b) = n - from /\ \A i \in 1 .. (n - from) : b[i] = vec[i + from]
    BY <1>1, <1>2, SMTT(30)
  <2>3. rem = a \o b
    BY DEF RemoveAt
  <2> HIDE DEF a, b, rem, n
  <2>0. /\ rem \in Seq(S) /\ Len(rem) = Len(a) + Len(b)
        /\ \A i \in 1 .. Len(a) + Len(b) : rem[i] = IF i <= Len(a) THEN a[i] ELSE b[i - Len(a)]
    BY <2>1, <2>2, <2>3, ConcatIs
  <2>4. rem \in Seq(S) /\ Len(rem) = n - 1
    BY <1>1, <2>0, <2>1, <2>2
  <2>5. \A i \in 1 .. (n - 1) : rem[i] = IF i <= Len(a) THEN a[i] ELSE b[i - Len(a)]
    BY <1>1, <2>0, <2>1, <2>2, SMTT(30)
  <2>6. ASSUME NEW i \in 1 .. (n - 1)
        PROVE  rem[i] = IF i < from THEN vec[i] ELSE vec[i + 1]
    <3>1. CASE i < from
      BY <1>1, <2>1, <2>5, <3>1
    <3>2. CASE ~(i < from)
      <4>1. i - (from - 1) \in 1 .. (n - from) /\ (i - (from - 1)) + from = i + 1
        BY <1>1, <3>2
      <4>2. b[i - (from - 1)] = vec[i + 1]
        BY <2>2, <4>1
      <4>3. rem[i] = b[i - (from - 1)]
        BY <1>1, <2>1, <2>5, <3>2
      <4> QED
        BY <3>2, <4>2, <4>3
    <3> QED
      BY <3>1, <3>2
  <2> QED
    BY <2>4, <2>6
<1> HIDE DEF rem, n
<1>4. /\ new \in Seq(S) /\ Len(new) = n
      /\ \A i \in 1 .. n : new[i] = IF i < to THEN rem[i] ELSE IF i = to THEN vec[from] ELSE rem[i - 1]
  <2> DEFINE a == SubSeq(rem, 1, to - 1)
             b == SubSeq(rem, to, n - 1)
             x == <<vec[from]>>
  <2>0. \A i \in 1 .. (n - 1) : rem[i] \in S
    BY <1>1, <1>3
  <2>1. a \in Seq(S) /\ Len(a) = to - 1 /\ \A i \in 1 .. (to - 1) : a[i] = rem[i]
    BY <1>1, <1>3, <2>0
  <2>2. b \in Seq(S) /\ Len(b) = n - to /\ \A i \in 1 .. (n - to) : b[i] = rem[i + (to - 1)]
    BY <1>1, <1>3, <2>0
  <2>3. x \in Seq(S) /\ Len(x) = 1 /\ x[1] = vec[from]
    BY <1>1, <1>2
  <2>4. new = a \o x \o b
    BY <1>3 DEF InsertAt
  <2> HIDE DEF a, b, x, new
  <2> DEFINE ax == a \o x
  <2>5. /\ ax \in Seq(S) /\ Len(ax) = to
        /\ \A i \in 1 .. to : ax[i] = IF i < to THEN rem[i] ELSE vec[from]
    <3>1. /\ ax \in Seq(S) /\ Len(ax) = Len(a) + Len(x)
          /\ \A i \in 1 .. Len(a) + Len(x) : ax[i] = IF i <= Len(a) THEN a[i] ELSE x[i - Len(a)]
      BY <2>1, <2>3, ConcatIs
    <3> HIDE DEF ax
    <3>2. ax \in Seq(S) /\ Len(ax) = to
      BY <1>1, <2>1, <2>3, <3>1
    <3>3. \A i \in 1 .. to : ax[i] = IF i < to THEN rem[i] ELSE vec[from]
      BY <1>1, <2>1, <2>3, <3>1
    <3> QED
      BY <3>2, <3>3
  <2> HIDE DEF ax
  <2>9. new = ax \o b
    BY <2>4 DEF ax
  <2>10. /\ new \in Seq(S) /\ Len(new) = Len(ax) + Len(b)
         /\ \A i \in 1 .. Len(ax) + Len(b) : new[i] = IF i <= Len(ax) THEN ax[i] ELSE b[i - Len(ax)]
    BY <2>2, <2>5, <2>9, ConcatIs
  <2>6. new \in Seq(S) /\ Len(new) = n
    BY <1>1, <2>2, <2>5, <2>10
  <2>7. \A i \in 1 .. n : new[i] = IF i <= to THEN ax[i] ELSE b[i - to]
    BY <1>1, <2>2, <2>5, <2>10
  <2>8. ASSUME NEW i \in 1 .. n
        PROVE  new[i] = IF i < to THEN rem[i] ELSE IF i = to THEN vec[from] ELSE rem[i - 1]
    <3>1. CASE i <= to
      BY <1>1, <2>5, <2>7, <3>1
    <3>2. CASE i > to
      <4>1. i - to \in 1 .. (n - to) /\ (i - to) + (to - 1) = i - 1
        BY <1>1, <3>2
      <4>2. b[i - to] = rem[i - 1]
        BY <2>2, <4>1
      <4> QED
        BY <1>1, <2>7, <3>2, <4>2
    <3> QED
      BY <1>1, <3>1, <3>2
  <2> QED
    BY <2>6, <2>8
<1> HIDE DEF new
<1>5. ASSUME NEW i \in 1 .. n
      PROVE  new[i] = vec[Source(i, from, to)]
  <2>1. CASE i < to
    <3>1. i \in 1 .. (n - 1)
      BY <1>1, <2>1
    <3> QED
      BY <1>1, <1>3, <1>4, <2>1, <3>1 DEF Source
  <2>2. CASE i = to
    BY <1>1, <1>4, <2>2 DEF Source
  <2>3. CASE i > to
    <3>1. i - 1 \in 1 .. (n - 1) /\ (i - 1) + 1 = i
      BY <1>1, <2>3
    <3>2. new[i] = IF i - 1 < from THEN vec[i - 1] ELSE vec[i]
      BY <1>1, <1>3, <1>4, <2>3, <3>1, SMTT(30)
    <3> QED
      BY <1>1, <2>3, <3>2 DEF Source
  <2> QED
    BY <1>1, <2>1, <2>2, <2>3
<1>6. Len(new) = Len(vec) /\ new \in Seq(S)
  BY <1>4 DEF n
<1>7. DOMAIN new = DOMAIN vec
  BY <1>6
<1> QED
  BY <1>1, <1>5, <1>6, <1>7 DEF new, rem

LEMMA CardinalityOfRest ==
  ASSUME NEW S, NEW T \in SUBSET S, IsFiniteSet(S)
  PROVE  Cardinality(S \ T) = Cardinality(S) - Cardinality(T)
<1>1. S \intersect T = T
  OBVIOUS
<1> QED
  BY <1>1, FS_Difference

(* Arranging puts each slot of a vector in one place again.                *)
LEMMA ArrangeVector ==
  ASSUME NEW S, NEW vec \in Seq(S), IsInjective(vec),
         NEW P \in SUBSET DOMAIN vec, NEW placed, DOMAIN placed = P, IsInjective(placed),
         Range(placed) \subseteq Range(vec)
  PROVE  LET new == Arrange(vec, placed) IN
         /\ new \in Seq(S)
         /\ DOMAIN new = DOMAIN vec
         /\ IsInjective(new)
         /\ Range(new) = Range(vec)
<1> DEFINE n == Len(vec)
           N == 1 .. n
           K == {i \in N : vec[i] \notin Range(placed)}
           gaps == N \ P
           rest == Sublist(vec, K)
           new == Arrange(vec, placed)
<1>1. n \in Nat /\ DOMAIN vec = N /\ \A i \in N : vec[i] \in S
  OBVIOUS
<1>2. \A i, k \in N : vec[i] = vec[k] => i = k
  BY <1>1 DEF IsInjective
<1>3. \A x \in Range(placed) : \E i \in N : vec[i] = x
  BY <1>1 DEF Range
<1>4. Cardinality(K) = Cardinality(gaps)
  <2> DEFINE T == N \ K
             at(x) == CHOOSE i \in N : vec[i] = x
             f == [i \in P |-> at(placed[i])]
  <2>1. IsFiniteSet(N) /\ Cardinality(N) = n
    BY <1>1, FS_Interval, SMTT(30)
  <2>2. P \subseteq N /\ K \subseteq N /\ T \subseteq N
    BY <1>1
  <2>3. IsFiniteSet(P) /\ IsFiniteSet(T)
    BY <2>1, <2>2, FS_Subset
  <2>4. \A x \in Range(placed) : at(x) \in N /\ vec[at(x)] = x
    BY <1>3
  <2> HIDE DEF at
  <2>5. \A i \in P : placed[i] \in Range(placed)
    BY DEF Range
  <2>6. \A t \in T : \E i \in P : placed[i] = vec[t]
    BY DEF Range
  <2>7. f \in Bijection(P, T)
    <3>1. f \in [P -> T]
      BY <2>4, <2>5
    <3>2. \A i, k \in P : f[i] = f[k] => i = k
      BY <2>4, <2>5 DEF IsInjective
    <3>3. \A t \in T : \E i \in P : f[i] = t
      <4>1. SUFFICES ASSUME NEW t \in T
                     PROVE  \E i \in P : f[i] = t
        OBVIOUS
      <4>2. PICK i \in P : placed[i] = vec[t]
        BY <2>6
      <4>3. vec[at(placed[i])] = vec[t] /\ at(placed[i]) \in N
        BY <2>4, <2>5, <4>2
      <4>4. f[i] = t
        BY <1>2, <2>2, <4>3
      <4> QED
        BY <4>4
    <3> QED
      BY <3>1, <3>2, <3>3 DEF Bijection, Injection, Surjection, IsInjective
  <2>8. Cardinality(T) = Cardinality(P)
    BY <2>3, <2>7, FS_Bijection DEF ExistsBijection
  <2>9. K = N \ T /\ T \in SUBSET N /\ P \in SUBSET N
    BY <2>2
  <2> HIDE DEF K, T, N
  <2>10. Cardinality(N \ T) = Cardinality(N) - Cardinality(T)
    BY <2>1, <2>9, CardinalityOfRest
  <2>11. Cardinality(N \ P) = Cardinality(N) - Cardinality(P)
    BY <2>1, <2>9, CardinalityOfRest
  <2> QED
    BY <2>8, <2>9, <2>10, <2>11
<1>5. /\ DOMAIN rest = 1 .. Cardinality(K)
      /\ \A i \in 1 .. Cardinality(K) : \E k \in K : rest[i] = vec[k]
      /\ Range(rest) = {vec[k] : k \in K}
      /\ \A i, k \in 1 .. Cardinality(K) : rest[i] = rest[k] => i = k
  <2>1. K \in SUBSET DOMAIN vec
    BY <1>1
  <2> HIDE DEF K
  <2>2. /\ DOMAIN rest = 1 .. Cardinality(K)
        /\ \A i \in 1 .. Cardinality(K) : \E k \in K : rest[i] = vec[k]
    BY <2>1, SublistHolds
  <2>3. IsInjective(rest) /\ Range(rest) = {vec[k] : k \in K}
    BY <2>1, SublistInjective
  <2> QED
    BY <2>2, <2>3 DEF IsInjective
<1>6. /\ \A i \in gaps : Rank(gaps, i) \in 1 .. Cardinality(K)
      /\ \A i, k \in gaps : Rank(gaps, i) = Rank(gaps, k) => i = k
      /\ \A r \in 1 .. Cardinality(K) : \E i \in gaps : Rank(gaps, i) = r
  <2>1. gaps \in SUBSET N
    OBVIOUS
  <2> HIDE DEF gaps
  <2>2. /\ \A i \in gaps : Rank(gaps, i) \in 1 .. Cardinality(gaps)
        /\ \A i, k \in gaps : i < k => Rank(gaps, i) < Rank(gaps, k)
        /\ \A r \in 1 .. Cardinality(gaps) : \E i \in gaps : Rank(gaps, i) = r
        /\ Cardinality(gaps) \in 0 .. n
    BY <1>1, <2>1, RankNumbers
  <2>3. \A i, k \in gaps : Rank(gaps, i) = Rank(gaps, k) => i = k
    <3>1. \A i \in gaps : i \in Nat /\ Rank(gaps, i) \in Nat
      BY <1>1, <2>1, <2>2
    <3> QED
      BY <2>2, <3>1
  <2> QED
    BY <1>4, <2>2, <2>3
<1>7. new = [i \in N |-> IF i \in P THEN placed[i] ELSE rest[Rank(gaps, i)]]
  BY <1>1 DEF Arrange
<1>17. \A i \in gaps : i \in N /\ new[i] = rest[Rank(gaps, i)]
  BY <1>7
<1>8. \A i \in gaps : \E k \in K : new[i] = vec[k]
  <2> HIDE DEF gaps, K, rest, new
  <2> QED
    BY <1>5, <1>6, <1>17
<1>9. \A i \in P : new[i] = placed[i] /\ placed[i] \in Range(placed)
  BY <1>1, <1>7 DEF Range
<1>10. \A i \in N : new[i] \in Range(vec)
  BY <1>1, <1>8, <1>9 DEF Range
<1>11. \A x \in Range(vec) : x \in S
  BY <1>1 DEF Range
<1>12. \A x \in Range(vec) : \E i \in N : new[i] = x
  <2>1. SUFFICES ASSUME NEW x \in Range(vec)
                 PROVE  \E i \in N : new[i] = x
    OBVIOUS
  <2>2. CASE x \in Range(placed)
    <3>1. PICK i \in P : placed[i] = x
      BY <2>2 DEF Range
    <3> QED
      BY <1>1, <1>9, <3>1
  <2>3. CASE x \notin Range(placed)
    <3>1. PICK k \in K : vec[k] = x
      BY <1>1, <2>3 DEF Range
    <3>2. x \in Range(rest)
      BY <1>5, <3>1
    <3>3. PICK r \in 1 .. Cardinality(K) : rest[r] = x
      BY <1>5, <3>2 DEF Range
    <3>4. PICK i \in gaps : Rank(gaps, i) = r
      BY <1>6, <3>3
    <3>5. new[i] = x
      BY <1>7, <3>3, <3>4
    <3> QED
      BY <3>5
  <2> QED
    BY <2>2, <2>3
<1>13. \A i, k \in N : new[i] = new[k] => i = k
  <2>1. SUFFICES ASSUME NEW i \in N, NEW k \in N, new[i] = new[k]
                 PROVE  i = k
    OBVIOUS
  <2>2. \A x \in K : vec[x] \notin Range(placed)
    OBVIOUS
  <2>3. CASE i \in P /\ k \in P
    BY <1>9, <2>1, <2>3 DEF IsInjective
  <2>4. CASE i \in P /\ k \notin P
    BY <1>8, <1>9, <2>1, <2>2, <2>4
  <2>5. CASE i \notin P /\ k \in P
    BY <1>8, <1>9, <2>1, <2>2, <2>5
  <2>6. CASE i \in gaps /\ k \in gaps
    <3> HIDE DEF gaps, K, rest, new
    <3>1. Rank(gaps, i) \in 1 .. Cardinality(K) /\ Rank(gaps, k) \in 1 .. Cardinality(K)
      BY <1>6, <2>6
    <3>2. rest[Rank(gaps, i)] = rest[Rank(gaps, k)]
      BY <1>17, <2>1, <2>6
    <3>3. Rank(gaps, i) = Rank(gaps, k)
      BY <1>5, <3>1, <3>2
    <3> QED
      BY <1>6, <2>6, <3>3
  <2> QED
    BY <2>3, <2>4, <2>5, <2>6
<1> HIDE DEF rest, gaps, K
<1>14. new \in Seq(S) /\ DOMAIN new = N
  <2>1. \A i \in N : new[i] \in S
    BY <1>10, <1>11
  <2>2. new = [i \in N |-> new[i]]
    BY <1>7
  <2> HIDE DEF new
  <2> QED
    BY <1>1, <2>1, <2>2
<1> HIDE DEF new
<1>15. IsInjective(new)
  BY <1>13, <1>14 DEF IsInjective
<1>16. Range(new) = Range(vec)
  BY <1>10, <1>12, <1>14 DEF Range
<1> QED
  BY <1>1, <1>14, <1>15, <1>16 DEF new

(* The elements outside P know their positions already.                    *)
InPlace(d, vec, P) == \A i \in DOMAIN vec \ P : d.slots[vec[i]].position = i

(* Elements that know their positions of a vector are aligned with it.     *)
LEMMA RepositionLists ==
  ASSUME NEW d \in Dimensions, NEW vec, NEW P \in SUBSET DOMAIN vec, Lists(d, vec),
         InPlace(d, vec, P),
         NEW c, c.slots = Reposition(d.slots, vec, P)
  PROVE  /\ Lists(c, vec)
         /\ Aligned(c, vec)
         /\ c.slots \in Partial(Slot, ElementRecord)
         /\ DOMAIN c.slots = DOMAIN d.slots
         /\ \A s \in DOMAIN d.slots :
              c.slots[s].id = d.slots[s].id /\ c.slots[s].name = d.slots[s].name
<1>1. vec \in Seq(Slot) /\ DOMAIN vec = 1 .. Len(vec) /\ Len(vec) \in Nat
  BY DEF Lists
<1>2. P \in SUBSET Slot
  BY <1>1 DEF Slot
<1>3. d.slots \in Partial(Slot, ElementRecord)
  BY DEF Dimensions
<1>4. /\ c.slots \in Partial(Slot, ElementRecord)
      /\ DOMAIN c.slots = DOMAIN d.slots
      /\ \A s \in DOMAIN d.slots :
           /\ c.slots[s].id = d.slots[s].id
           /\ c.slots[s].name = d.slots[s].name
           /\ (\E i \in P : vec[i] = s) => c.slots[s].position \in P /\ vec[c.slots[s].position] = s
           /\ ~(\E i \in P : vec[i] = s) => c.slots[s].position = d.slots[s].position
  BY <1>2, <1>3, RepositionIs
<1>5. ASSUME NEW s \in DOMAIN d.slots
      PROVE  c.slots[s].position \in DOMAIN vec /\ vec[c.slots[s].position] = s
  <2>1. CASE \E i \in P : vec[i] = s
    BY <1>4, <2>1
  <2>2. CASE ~(\E i \in P : vec[i] = s)
    <3>1. PICK i \in DOMAIN vec : vec[i] = s
      BY DEF Lists, Range
    <3>2. d.slots[s].position = i
      BY <2>2, <3>1 DEF InPlace
    <3> QED
      BY <1>4, <2>2, <3>1, <3>2
  <2> QED
    BY <2>1, <2>2
<1> QED
  BY <1>4, <1>5 DEF Lists, Aligned

(* The names still lead to the elements that keep their slots.             *)
LEMMA KeepsNames ==
  ASSUME NEW d, NEW c, NamesLead(d), c.namesMap = d.namesMap, DOMAIN c.slots = DOMAIN d.slots,
         \A s \in DOMAIN d.slots : c.slots[s].name = d.slots[s].name
  PROVE  NamesLead(c)
BY DEF NamesLead

LEMMA RepositionedIs ==
  ASSUME NEW d \in Dimensions, NEW p \in Pointer, NEW vec, NEW P \in SUBSET Slot,
         NEW c, c = Repositioned(d, p, vec, P)
  PROVE  /\ c \in Dimensions
         /\ c.name = d.name /\ c.elementList = p
         /\ c.page = IF d.page = NoPage THEN NoPage ELSE p
         /\ c.free = d.free /\ c.holder = d.holder /\ c.slots = Reposition(d.slots, vec, P)
         /\ c.idsMap = d.idsMap /\ c.namesMap = d.namesMap /\ c.posIndex = d.posIndex
<1>1. PICK b : b = CheckOutElements(d, p)
  OBVIOUS
<1>2. /\ b \in Dimensions
      /\ b.name = d.name /\ b.elementList = p
      /\ b.page = IF d.page = NoPage THEN NoPage ELSE p
      /\ b.free = d.free /\ b.holder = d.holder /\ b.slots = d.slots
      /\ b.idsMap = d.idsMap /\ b.namesMap = d.namesMap /\ b.posIndex = d.posIndex
  BY <1>1, CheckOutIs
<1>3. d.slots \in Partial(Slot, ElementRecord)
  BY DEF Dimensions
<1>4. PICK slots : slots = Reposition(d.slots, vec, P)
  OBVIOUS
<1>5. slots \in Partial(Slot, ElementRecord)
  BY <1>3, <1>4, RepositionIs
<1>6. c = [b EXCEPT !.slots = slots]
  BY <1>1, <1>2, <1>4 DEF Repositioned
<1>7. c \in Dimensions
  BY <1>2, <1>5, <1>6 DEF Dimensions
<1>8. /\ c.name = b.name /\ c.elementList = b.elementList /\ c.page = b.page
      /\ c.free = b.free /\ c.holder = b.holder /\ c.slots = slots
      /\ c.idsMap = b.idsMap /\ c.namesMap = b.namesMap /\ c.posIndex = b.posIndex
  BY <1>2, <1>6 DEF Dimensions
<1> QED
  BY <1>2, <1>4, <1>7, <1>8

(* Dimension::moveElement, for the position that the element has           *)
LEMMA CheckOutSound ==
  ASSUME NEW d \in Dimensions, NEW p \in Pointer,
         NEW pos, NEW sizes, NEW next, NEW sizes2,
         Heaps(pos, sizes, next), Sound(d, pos, sizes, next), Heaps(pos, sizes2, next),
         PageCopied(d, p, sizes, sizes2),
         NEW c, c = CheckOutElements(d, p)
  PROVE  /\ c \in Dimensions
         /\ c.elementList = p /\ c.posIndex = d.posIndex
         /\ c.idsMap = d.idsMap /\ c.namesMap = d.namesMap
         /\ Sound(c, pos, sizes2, next)
         /\ Aligned(d, pos[d.posIndex]) => Aligned(c, pos[c.posIndex])
         /\ NamesLead(d) => NamesLead(c)
<1>1. /\ c \in Dimensions
      /\ c.elementList = p
      /\ c.page = IF d.page = NoPage THEN NoPage ELSE p
      /\ c.free = d.free /\ c.holder = d.holder /\ c.slots = d.slots
      /\ c.idsMap = d.idsMap /\ c.namesMap = d.namesMap /\ c.posIndex = d.posIndex
  BY CheckOutIs
<1>2. d.posIndex \in DOMAIN pos /\ Lists(d, pos[d.posIndex])
  BY DEF Sound
<1>3. c.posIndex \in DOMAIN pos /\ Lists(c, pos[c.posIndex])
      /\ (Aligned(d, pos[d.posIndex]) => Aligned(c, pos[c.posIndex]))
  <2>1. Lists(c, pos[d.posIndex]) /\ (Aligned(d, pos[d.posIndex]) => Aligned(c, pos[d.posIndex]))
    BY <1>1, <1>2, KeepsLists
  <2> QED
    BY <1>1, <1>2, <2>1
<1>4. DOMAIN c.slots = DOMAIN d.slots /\ \A s \in DOMAIN d.slots : c.slots[s].id = d.slots[s].id
  BY <1>1
<1>5. Sound(c, pos, sizes2, next)
  BY <1>1, <1>3, <1>4, CopySound
<1>6. NamesLead(d) => NamesLead(c)
  BY <1>1 DEF NamesLead
<1> QED
  BY <1>1, <1>3, <1>5, <1>6

(* A vector with the same slots in other places, and the elements told.    *)
LEMMA PlacedSound ==
  ASSUME NEW d \in Dimensions, NEW p \in Pointer,
         NEW pos, NEW sizes, NEW next, NEW pos2, NEW sizes2,
         Heaps(pos, sizes, next), Sound(d, pos, sizes, next), Heaps(pos2, sizes2, next),
         PageCopied(d, p, sizes, sizes2),
         NEW vec, vec \in Seq(Slot), DOMAIN vec = DOMAIN pos[d.posIndex],
         IsInjective(vec), Range(vec) = Range(pos[d.posIndex]),
         NEW P \in SUBSET DOMAIN vec,
         InPlace(d, vec, P),
         NEW c \in Dimensions,
         c.page = IF d.page = NoPage THEN NoPage ELSE p,
         c.free = d.free, c.holder = d.holder, c.slots = Reposition(d.slots, vec, P),
         c.idsMap = d.idsMap, c.namesMap = d.namesMap,
         c.posIndex \in DOMAIN pos2, pos2[c.posIndex] = vec
  PROVE  /\ Sound(c, pos2, sizes2, next)
         /\ Aligned(c, pos2[c.posIndex])
         /\ NamesLead(d) => NamesLead(c)
<1>1. Lists(d, pos[d.posIndex])
  BY DEF Sound
<1>2. Lists(d, vec)
  BY <1>1 DEF Lists
<1>3. /\ Lists(c, vec)
      /\ Aligned(c, vec)
      /\ DOMAIN c.slots = DOMAIN d.slots
      /\ \A s \in DOMAIN d.slots :
           c.slots[s].id = d.slots[s].id /\ c.slots[s].name = d.slots[s].name
  BY <1>2, RepositionLists
<1>4. Sound(c, pos2, sizes2, next)
  BY <1>3, CopySound
<1>5. NamesLead(d) => NamesLead(c)
  BY <1>3, KeepsNames
<1> QED
  BY <1>3, <1>4, <1>5

(* Dimension::moveElement, to another position                             *)
MovedVector(vec, from, to, slot) == InsertAt(RemoveAt(vec, from), to, slot)
Moved(d, p, vec, P) == [Repositioned(d, p, vec, P) EXCEPT !.posIndex = p]

LEMMA MovedIs ==
  ASSUME NEW d \in Dimensions, NEW p \in Pointer, NEW vec, NEW P \in SUBSET Slot,
         NEW m, m = Moved(d, p, vec, P)
  PROVE  /\ m \in Dimensions
         /\ m.name = d.name /\ m.elementList = p
         /\ m.page = IF d.page = NoPage THEN NoPage ELSE p
         /\ m.free = d.free /\ m.holder = d.holder /\ m.slots = Reposition(d.slots, vec, P)
         /\ m.idsMap = d.idsMap /\ m.namesMap = d.namesMap /\ m.posIndex = p
<1>1. PICK c : c = Repositioned(d, p, vec, P)
  OBVIOUS
<1>2. /\ c \in Dimensions
      /\ c.name = d.name /\ c.elementList = p
      /\ c.page = IF d.page = NoPage THEN NoPage ELSE p
      /\ c.free = d.free /\ c.holder = d.holder /\ c.slots = Reposition(d.slots, vec, P)
      /\ c.idsMap = d.idsMap /\ c.namesMap = d.namesMap /\ c.posIndex = d.posIndex
  BY <1>1, RepositionedIs
<1>3. m = [c EXCEPT !.posIndex = p]
  BY <1>1 DEF Moved
<1>4. m \in Dimensions
  BY <1>2, <1>3 DEF Dimensions
<1>5. /\ m.name = c.name /\ m.elementList = c.elementList /\ m.page = c.page
      /\ m.free = c.free /\ m.holder = c.holder /\ m.slots = c.slots
      /\ m.idsMap = c.idsMap /\ m.namesMap = c.namesMap /\ m.posIndex = p
  BY <1>2, <1>3 DEF Dimensions
<1> QED
  BY <1>2, <1>4, <1>5

(* Moving permutes a vector between the two positions.                     *)
IsShifted(new, vec, from, to) ==
  /\ new \in Seq(Slot) /\ DOMAIN new = DOMAIN vec
  /\ IsInjective(new) /\ Range(new) = Range(vec)
  /\ Between(from, to) \in SUBSET DOMAIN vec
  /\ \A i \in DOMAIN vec \ Between(from, to) : new[i] = vec[i]

LEMMA MovePermutes ==
  ASSUME NEW vec \in Seq(Slot), IsInjective(vec), NEW from \in DOMAIN vec, NEW to \in DOMAIN vec,
         NEW slot, vec[from] = slot, NEW new, new = MovedVector(vec, from, to, slot)
  PROVE  IsShifted(new, vec, from, to)
<1>1. DOMAIN vec = 1 .. Len(vec) /\ Len(vec) \in Nat
  OBVIOUS
<1>2. /\ new \in Seq(Slot) /\ DOMAIN new = DOMAIN vec
      /\ \A i \in DOMAIN vec : new[i] = vec[Source(i, from, to)]
  BY MoveVector DEF MovedVector
<1>3. /\ \A i \in DOMAIN vec : Source(i, from, to) \in DOMAIN vec
      /\ \A i, k \in DOMAIN vec : Source(i, from, to) = Source(k, from, to) => i = k
      /\ \A k \in DOMAIN vec : \E i \in DOMAIN vec : Source(i, from, to) = k
      /\ \A i \in DOMAIN vec : i \notin Between(from, to) => Source(i, from, to) = i
  <2>1. PICK n \in Nat : n = Len(vec) /\ DOMAIN vec = 1 .. n
    BY <1>1, Zenon
  <2>0. from \in 1 .. n /\ to \in 1 .. n
    BY <2>1
  <2>2. /\ \A i \in 1 .. n : Source(i, from, to) \in 1 .. n
        /\ \A i, k \in 1 .. n : Source(i, from, to) = Source(k, from, to) => i = k
        /\ \A k \in 1 .. n : \E i \in 1 .. n : Source(i, from, to) = k
        /\ \A i \in 1 .. n : i \notin Between(from, to) => Source(i, from, to) = i
    <3>1. SourcePermutes(n, from, to)
      BY <2>0, SourceIsBijection
    <3> QED
      BY <3>1 DEF SourcePermutes
  <2> QED
    BY <2>1, <2>2, Zenon
<1>4. Between(from, to) \in SUBSET DOMAIN vec
  BY <1>1 DEF Between
<1>5. IsInjective(new)
  BY <1>2, <1>3 DEF IsInjective
<1>6. \A i \in DOMAIN vec : \E k \in DOMAIN vec : new[k] = vec[i]
  BY <1>2, <1>3
<1>7. \A k \in DOMAIN vec : \E i \in DOMAIN vec : new[k] = vec[i]
  BY <1>2, <1>3
<1>8. Range(new) = Range(vec)
  <2>1. Range(new) = {new[k] : k \in DOMAIN vec} /\ Range(vec) = {vec[k] : k \in DOMAIN vec}
    BY <1>2 DEF Range
  <2>2. \A x \in Range(new) : x \in Range(vec)
    BY <1>7, <2>1
  <2>3. \A x \in Range(vec) : x \in Range(new)
    BY <1>6, <2>1
  <2> QED
    BY <2>2, <2>3
<1> QED
  BY <1>2, <1>3, <1>4, <1>5, <1>8 DEF IsShifted

(* Where an element is, its position says.                                 *)
LEMMA PositionIs ==
  ASSUME NEW d, NEW vec, Lists(d, vec), Aligned(d, vec)
  PROVE  /\ \A i \in DOMAIN vec : vec[i] \in DOMAIN d.slots /\ d.slots[vec[i]].position = i
         /\ \A s \in DOMAIN d.slots : d.slots[s].position \in DOMAIN vec /\ vec[d.slots[s].position] = s
<1>1. \A i \in DOMAIN vec : vec[i] \in DOMAIN d.slots
  BY DEF Lists, Range
<1>2. \A s \in DOMAIN d.slots : d.slots[s].position \in DOMAIN vec /\ vec[d.slots[s].position] = s
  BY DEF Lists, Aligned
<1>3. \A i, k \in DOMAIN vec : vec[i] = vec[k] => i = k
  BY SMTT(30) DEF Lists, IsInjective
<1> QED
  BY <1>1, <1>2, <1>3

(* What the moved vector of a dimension is.                                *)
IsMoved(vec, P, d, was) ==
  /\ vec \in Seq(Slot) /\ DOMAIN vec = DOMAIN was
  /\ IsInjective(vec) /\ Range(vec) = Range(was)
  /\ P \in SUBSET DOMAIN vec /\ P \in SUBSET Slot
  /\ InPlace(d, vec, P)

LEMMA MovedVectorIs ==
  ASSUME NEW d \in Dimensions, NEW was, Lists(d, was), IdsLead(d), Aligned(d, was),
         NEW id \in DOMAIN d.idsMap, NEW to \in Slot, to <= SizeElements(d),
         NEW slot, slot = d.idsMap[id], NEW from, from = d.slots[slot].position,
         NEW vec, vec = MovedVector(was, from, to, slot), NEW P, P = Between(from, to)
  PROVE  IsMoved(vec, P, d, was)
<1>2. slot \in DOMAIN d.slots
  BY DEF IdsLead
<1>4. from \in DOMAIN was /\ was[from] = slot
  BY <1>2 DEF Lists, Aligned
<1>5. DOMAIN was = 1 .. Len(was) /\ Len(was) \in Nat /\ SizeElements(d) = Len(was)
  BY SizeIsLength
<1>6. to \in DOMAIN was
  BY <1>5 DEF Slot
<1>7. was \in Seq(Slot) /\ IsInjective(was)
  BY SMTT(30) DEF Lists
<1>10. /\ vec \in Seq(Slot) /\ DOMAIN vec = DOMAIN was
       /\ IsInjective(vec) /\ Range(vec) = Range(was)
       /\ P \in SUBSET DOMAIN was
       /\ \A i \in DOMAIN was \ P : vec[i] = was[i]
  <2>1. IsShifted(vec, was, from, to)
    BY <1>4, <1>6, <1>7, MovePermutes, SMTT(30)
  <2> QED
    BY <2>1 DEF IsShifted
<1>11. P \in SUBSET Slot
  BY <1>5, <1>10, SMTT(30) DEF Slot
<1>12. InPlace(d, vec, P)
  <2>1. \A i \in DOMAIN was : d.slots[was[i]].position = i
    BY PositionIs, SMTT(30)
  <2>2. \A i \in DOMAIN vec \ P : i \in DOMAIN was /\ vec[i] = was[i]
    BY <1>10
  <2>3. \A i \in DOMAIN vec \ P : d.slots[vec[i]].position = i
    BY <2>1, <2>2
  <2> QED
    BY <2>3 DEF InPlace
<1> QED
  BY <1>10, <1>11, <1>12 DEF IsMoved

LEMMA MoveSound ==
  ASSUME NEW d \in Dimensions, NEW p \in Pointer,
         NEW pos, NEW sizes, NEW next, NEW pos2, NEW sizes2,
         Heaps(pos, sizes, next), Sound(d, pos, sizes, next), Heaps(pos2, sizes2, next),
         PageCopied(d, p, sizes, sizes2),
         NEW vec, vec \in Seq(Slot), DOMAIN vec = DOMAIN pos[d.posIndex],
         IsInjective(vec), Range(vec) = Range(pos[d.posIndex]),
         NEW P \in SUBSET DOMAIN vec, P \in SUBSET Slot, InPlace(d, vec, P),
         p \in DOMAIN pos2, pos2[p] = vec,
         NEW c, c = Moved(d, p, vec, P)
  PROVE  /\ c \in Dimensions
         /\ c.elementList = p /\ c.posIndex = p
         /\ c.idsMap = d.idsMap /\ c.namesMap = d.namesMap
         /\ Sound(c, pos2, sizes2, next)
         /\ Aligned(c, pos2[c.posIndex])
         /\ NamesLead(d) => NamesLead(c)
<1>1. /\ c \in Dimensions
      /\ c.elementList = p
      /\ c.page = IF d.page = NoPage THEN NoPage ELSE p
      /\ c.free = d.free /\ c.holder = d.holder /\ c.slots = Reposition(d.slots, vec, P)
      /\ c.idsMap = d.idsMap /\ c.namesMap = d.namesMap /\ c.posIndex = p
  BY MovedIs
<1>2. /\ Sound(c, pos2, sizes2, next)
      /\ Aligned(c, pos2[c.posIndex])
      /\ NamesLead(d) => NamesLead(c)
  BY <1>1, PlacedSound
<1> QED
  BY <1>1, <1>2

(* Dimension::moveElements                                                 *)
PlacedBy(d, M) ==
  [i \in {m[2] : m \in M} |-> d.idsMap[(CHOOSE m \in M : m[2] = i)[1]]]

(* Each place gets one element and each element one place.                 *)
LEMMA PlacedByIs ==
  ASSUME NEW d \in Dimensions, NEW was, Lists(d, was), IdsLead(d), NEW M,
         \A m \in M : m[1] \in DOMAIN d.idsMap /\ m[2] \in DOMAIN was,
         \A m, n \in M : m[1] = n[1] <=> m[2] = n[2],
         NEW placed, placed = PlacedBy(d, M)
  PROVE  /\ DOMAIN placed \in SUBSET DOMAIN was
         /\ IsInjective(placed)
         /\ Range(placed) \subseteq Range(was)
<1> DEFINE of(i) == CHOOSE m \in M : m[2] = i
<1>1. /\ DOMAIN placed = {m[2] : m \in M}
      /\ \A i \in DOMAIN placed : placed[i] = d.idsMap[of(i)[1]]
  BY DEF PlacedBy
<1>2. \A i \in DOMAIN placed : of(i) \in M /\ of(i)[2] = i
  BY <1>1
<1> HIDE DEF of
<1>3. \A i \in DOMAIN placed :
        placed[i] \in DOMAIN d.slots /\ d.slots[placed[i]].id = of(i)[1]
  BY <1>1, <1>2 DEF IdsLead
<1>4. \A i, k \in DOMAIN placed : placed[i] = placed[k] => i = k
  BY <1>2, <1>3
<1>5. \A i \in DOMAIN placed : i \in DOMAIN was
  BY <1>1
<1>6. Range(was) = DOMAIN d.slots
  BY DEF Lists
<1>7. IsInjective(placed)
  BY <1>4 DEF IsInjective
<1>8. Range(placed) \subseteq Range(was)
  BY <1>3, <1>6 DEF Range
<1>9. DOMAIN placed \in SUBSET DOMAIN was
  BY <1>5
<1> QED
  BY <1>7, <1>8, <1>9

LEMMA MoveBulkSound ==
  ASSUME NEW d \in Dimensions, NEW p \in Pointer,
         NEW pos, NEW sizes, NEW next, NEW pos2, NEW sizes2,
         Heaps(pos, sizes, next), Sound(d, pos, sizes, next), Heaps(pos2, sizes2, next),
         PageCopied(d, p, sizes, sizes2),
         NEW vec, vec \in Seq(Slot), DOMAIN vec = DOMAIN pos[d.posIndex],
         IsInjective(vec), Range(vec) = Range(pos[d.posIndex]),
         d.posIndex \in DOMAIN pos2, pos2[d.posIndex] = vec,
         NEW P, P = DOMAIN vec,
         NEW c, c = Repositioned(d, p, vec, P)
  PROVE  /\ c \in Dimensions
         /\ c.elementList = p /\ c.posIndex = d.posIndex
         /\ c.idsMap = d.idsMap /\ c.namesMap = d.namesMap
         /\ Sound(c, pos2, sizes2, next)
         /\ Aligned(c, pos2[c.posIndex])
         /\ NamesLead(d) => NamesLead(c)
<1>2. P \in SUBSET Slot
  <2>1. DOMAIN vec = 1 .. Len(vec) /\ Len(vec) \in Nat
    OBVIOUS
  <2> QED
    BY <2>1 DEF Slot
<1>3. /\ c \in Dimensions
      /\ c.elementList = p
      /\ c.page = IF d.page = NoPage THEN NoPage ELSE p
      /\ c.free = d.free /\ c.holder = d.holder /\ c.slots = Reposition(d.slots, vec, P)
      /\ c.idsMap = d.idsMap /\ c.namesMap = d.namesMap /\ c.posIndex = d.posIndex
  BY <1>2, RepositionedIs
<1>4. InPlace(d, vec, P) /\ P \in SUBSET DOMAIN vec
  BY DEF InPlace
<1>5. /\ Sound(c, pos2, sizes2, next)
      /\ Aligned(c, pos2[c.posIndex])
      /\ NamesLead(d) => NamesLead(c)
  BY <1>3, <1>4, PlacedSound
<1> QED
  BY <1>3, <1>5

(***************************************************************************)
(* Dimension::deleteElements.                                              *)
(***************************************************************************)

LEMMA ConcatInjective ==
  ASSUME NEW S, NEW a \in Seq(S), NEW b \in Seq(S), IsInjective(a), IsInjective(b),
         Range(a) \intersect Range(b) = {}
  PROVE  /\ a \o b \in Seq(S)
         /\ IsInjective(a \o b)
         /\ Range(a \o b) = Range(a) \union Range(b)
<1> DEFINE m == Len(a)
           n == Len(b)
<1>1. PICK c : c = a \o b
  OBVIOUS
<1>2. /\ m \in Nat /\ n \in Nat /\ DOMAIN a = 1 .. m /\ DOMAIN b = 1 .. n
      /\ c \in Seq(S) /\ Len(c) = m + n
      /\ \A i \in 1 .. m + n : c[i] = IF i <= m THEN a[i] ELSE b[i - m]
  BY <1>1, ConcatIs
<1> HIDE DEF m, n
<1>3. DOMAIN c = 1 .. m + n
  BY <1>2
<1>4. \A i \in 1 .. m : \A k \in 1 .. n : a[i] # b[k]
  BY <1>2 DEF Range
<1>5. \A i, k \in 1 .. m : a[i] = a[k] => i = k
  BY <1>2 DEF IsInjective
<1>6. \A i, k \in 1 .. n : b[i] = b[k] => i = k
  BY <1>2 DEF IsInjective
<1>7. \A i \in 1 .. m + n : i <= m => i \in 1 .. m /\ c[i] = a[i]
  BY <1>2
<1>8. \A i \in 1 .. m + n : ~(i <= m) => i - m \in 1 .. n /\ c[i] = b[i - m]
  BY <1>2
<1>9. \A i, k \in 1 .. m + n : c[i] = c[k] => i = k
  <2>1. SUFFICES ASSUME NEW i \in 1 .. m + n, NEW k \in 1 .. m + n, c[i] = c[k]
                 PROVE  i = k
    OBVIOUS
  <2>2. CASE i <= m /\ k <= m
    BY <1>5, <1>7, <2>1, <2>2
  <2>3. CASE i <= m /\ ~(k <= m)
    BY <1>4, <1>7, <1>8, <2>1, <2>3
  <2>4. CASE ~(i <= m) /\ k <= m
    BY <1>4, <1>7, <1>8, <2>1, <2>4
  <2>5. CASE ~(i <= m) /\ ~(k <= m)
    <3>1. i - m = k - m
      BY <1>6, <1>8, <2>1, <2>5
    <3> QED
      BY <1>2, <3>1
  <2> QED
    BY <2>2, <2>3, <2>4, <2>5
<1>10. IsInjective(c)
  BY <1>3, <1>9 DEF IsInjective
<1>11. Range(c) = Range(a) \union Range(b)
  <2>1. \A i \in 1 .. m + n : c[i] \in Range(a) \union Range(b)
    BY <1>2, <1>7, <1>8 DEF Range
  <2>2. \A i \in 1 .. m : i \in 1 .. m + n /\ c[i] = a[i]
    BY <1>2
  <2>3. \A i \in 1 .. n : i + m \in 1 .. m + n /\ c[i + m] = b[i]
    <3>1. SUFFICES ASSUME NEW i \in 1 .. n
                   PROVE  i + m \in 1 .. m + n /\ c[i + m] = b[i]
      OBVIOUS
    <3>2. i + m \in 1 .. m + n /\ ~(i + m <= m) /\ (i + m) - m = i
      BY <1>2
    <3> QED
      BY <1>2, <3>2
  <2>4. \A x \in Range(a) : x \in Range(c)
    BY <1>2, <1>3, <2>2 DEF Range
  <2>5. \A x \in Range(b) : x \in Range(c)
    BY <1>2, <1>3, <2>3, ZenonT(60) DEF Range
  <2>6. \A x \in Range(c) : x \in Range(a) \union Range(b)
    BY <1>3, <2>1 DEF Range
  <2> QED
    BY <2>4, <2>5, <2>6
<1> QED
  BY <1>1, <1>2, <1>10, <1>11

(* The slots that are recycled.                                            *)
Recycled(d, ids) == [k \in DOMAIN Known(d, ids) |-> d.idsMap[Known(d, ids)[k]]]

LEMMA RecycledIs ==
  ASSUME NEW d \in Dimensions, IdsLead(d), NEW ids \in Seq(Id), IsInjective(ids)
  PROVE  /\ Range(Known(d, ids)) = Range(ids) \intersect DOMAIN d.idsMap
         /\ Recycled(d, ids) \in Seq(Slot)
         /\ IsInjective(Recycled(d, ids))
         /\ Range(Recycled(d, ids)) = SlotsOf(d, ids)
         /\ SlotsOf(d, ids) \subseteq DOMAIN d.slots
<1>1. PICK K : K = {k \in DOMAIN ids : ids[k] \in DOMAIN d.idsMap}
  OBVIOUS
<1>2. PICK gone : gone = Known(d, ids)
  OBVIOUS
<1>3. gone = Sublist(ids, K)
  BY <1>1, <1>2 DEF Known
<1>4. K \in SUBSET DOMAIN ids
  BY <1>1
<1>5. /\ gone \in Seq(Id) /\ IsInjective(gone)
      /\ Range(gone) = {ids[k] : k \in K}
  BY <1>3, <1>4, SublistHolds, SublistInjective
<1>6. Range(gone) = Range(ids) \intersect DOMAIN d.idsMap
  <2>1. Range(ids) = {ids[k] : k \in DOMAIN ids}
    BY DEF Range
  <2> QED
    BY <1>1, <1>5, <2>1
<1>7. PICK rec : rec = Recycled(d, ids)
  OBVIOUS
<1>8. PICK n \in Nat : DOMAIN gone = 1 .. n
  BY <1>5
<1>9. \A k \in 1 .. n : gone[k] \in Range(gone) /\ gone[k] \in DOMAIN d.idsMap
  BY <1>6, <1>8 DEF Range
<1>10. rec = [k \in 1 .. n |-> d.idsMap[gone[k]]]
  BY <1>2, <1>7, <1>8 DEF Recycled
<1>11. \A i \in DOMAIN d.idsMap :
         d.idsMap[i] \in DOMAIN d.slots /\ d.slots[d.idsMap[i]].id = i
  BY DEF IdsLead
<1>12. DOMAIN d.slots \subseteq Slot
  <2>1. d.slots \in Partial(Slot, ElementRecord)
    BY DEF Dimensions
  <2> QED
    BY <2>1, PartialIs
<1>13. \A k \in 1 .. n : rec[k] \in Slot
  BY <1>9, <1>10, <1>11, <1>12
<1>14. rec \in Seq(Slot)
  BY <1>8, <1>10, <1>13
<1>15. \A i, k \in 1 .. n : gone[i] = gone[k] => i = k
  BY <1>5, <1>8 DEF IsInjective
<1>16. \A i, k \in 1 .. n : rec[i] = rec[k] => i = k
  BY <1>9, <1>10, <1>11, <1>15
<1>17. DOMAIN rec = 1 .. n
  BY <1>10
<1>18. IsInjective(rec)
  BY <1>16, <1>17 DEF IsInjective
<1>19. Range(rec) = {d.idsMap[i] : i \in Range(gone)}
  <2>1. Range(rec) = {rec[k] : k \in 1 .. n}
    BY <1>17 DEF Range
  <2>2. Range(gone) = {gone[k] : k \in 1 .. n}
    BY <1>8 DEF Range
  <2>3. \A k \in 1 .. n : rec[k] = d.idsMap[gone[k]]
    BY <1>10
  <2> QED
    BY <2>1, <2>2, <2>3
<1>20. SlotsOf(d, ids) = {d.idsMap[i] : i \in Range(gone)}
  BY <1>6 DEF SlotsOf
<1>21. SlotsOf(d, ids) \subseteq DOMAIN d.slots
  BY <1>6, <1>11, <1>20
<1> QED
  BY <1>2, <1>6, <1>7, <1>14, <1>18, <1>19, <1>20, <1>21

(* The positions that are left.                                            *)
LEMMA CompactIs ==
  ASSUME NEW vec \in Seq(Slot), IsInjective(vec), NEW S
  PROVE  /\ Compact(vec, S) \in Seq(Slot)
         /\ IsInjective(Compact(vec, S))
         /\ Range(Compact(vec, S)) = Range(vec) \ S
<1>1. PICK K : K = {i \in DOMAIN vec : vec[i] \notin S}
  OBVIOUS
<1>2. Compact(vec, S) = Sublist(vec, K)
  BY <1>1 DEF Compact
<1>3. K \in SUBSET DOMAIN vec
  BY <1>1
<1>4. /\ Sublist(vec, K) \in Seq(Slot) /\ IsInjective(Sublist(vec, K))
      /\ Range(Sublist(vec, K)) = {vec[k] : k \in K}
  BY <1>3, SublistHolds, SublistInjective
<1>5. {vec[k] : k \in K} = Range(vec) \ S
  <2>1. Range(vec) = {vec[k] : k \in DOMAIN vec}
    BY DEF Range
  <2> QED
    BY <1>1, <2>1
<1> QED
  BY <1>2, <1>4, <1>5

Parts(d, p, slots, free, idsMap, namesMap) ==
  [CheckOutAll(d, p) EXCEPT
     !.slots = slots, !.free = free, !.idsMap = idsMap, !.namesMap = namesMap]

LEMMA PartsIs ==
  ASSUME NEW d \in Dimensions, NEW p \in Pointer,
         NEW slots \in Partial(Slot, ElementRecord), NEW free \in Seq(Slot),
         NEW idsMap \in Partial(Id, Slot), NEW namesMap \in Partial(Name, Slot),
         NEW c, c = Parts(d, p, slots, free, idsMap, namesMap)
  PROVE  /\ c \in Dimensions
         /\ c.name = d.name /\ c.elementList = p
         /\ c.page = IF d.page = NoPage THEN NoPage ELSE p
         /\ c.free = free /\ c.holder = d.holder /\ c.slots = slots
         /\ c.idsMap = idsMap /\ c.namesMap = namesMap /\ c.posIndex = p
<1>1. PICK b : b = CheckOutAll(d, p)
  OBVIOUS
<1>2. /\ b \in Dimensions
      /\ b.name = d.name /\ b.elementList = p
      /\ b.page = IF d.page = NoPage THEN NoPage ELSE p
      /\ b.holder = d.holder /\ b.posIndex = p
  BY <1>1, CheckOutIs
<1>3. c = [b EXCEPT !.slots = slots, !.free = free, !.idsMap = idsMap, !.namesMap = namesMap]
  BY <1>1 DEF Parts
<1>4. c \in Dimensions
  BY <1>2, <1>3 DEF Dimensions
<1>5. /\ c.name = b.name /\ c.elementList = b.elementList /\ c.page = b.page
      /\ c.free = free /\ c.holder = b.holder /\ c.slots = slots
      /\ c.idsMap = idsMap /\ c.namesMap = namesMap /\ c.posIndex = b.posIndex
  BY <1>2, <1>3 DEF Dimensions
<1> QED
  BY <1>2, <1>4, <1>5

(* What deleteElements makes of the parts.                                 *)
IsDeleted(c, d, p, vec, ids) ==
  /\ c \in Dimensions
  /\ c.name = d.name /\ c.elementList = p
  /\ c.page = IF d.page = NoPage THEN NoPage ELSE p
  /\ c.free = d.free \o Recycled(d, ids) /\ c.holder = d.holder
  /\ DOMAIN c.slots = DOMAIN d.slots \ SlotsOf(d, ids)
  /\ \A s \in DOMAIN c.slots :
       c.slots[s].id = d.slots[s].id /\ c.slots[s].name = d.slots[s].name
  /\ \A s \in DOMAIN c.slots :
       c.slots[s].position \in DOMAIN Compact(vec, SlotsOf(d, ids))
         /\ Compact(vec, SlotsOf(d, ids))[c.slots[s].position] = s
  /\ c.idsMap = Without(d.idsMap, Range(ids) \intersect DOMAIN d.idsMap)
  /\ c.namesMap = Without(d.namesMap, {d.slots[s].name : s \in SlotsOf(d, ids)})
  /\ c.posIndex = p

LEMMA DeleteIs ==
  ASSUME NEW d \in Dimensions, NEW p \in Pointer, NEW vec, Lists(d, vec), IdsLead(d),
         NEW ids \in Seq(Id), IsInjective(ids),
         NEW c, c = DeleteElements(d, p, vec, ids)
  PROVE  IsDeleted(c, d, p, vec, ids)
<1>1. PICK gone : gone = SlotsOf(d, ids)
  OBVIOUS
<1>2. /\ Range(Known(d, ids)) = Range(ids) \intersect DOMAIN d.idsMap
      /\ Recycled(d, ids) \in Seq(Slot)
  BY RecycledIs
<1>3. /\ vec \in Seq(Slot) /\ IsInjective(vec) /\ Range(vec) = DOMAIN d.slots
  BY DEF Lists
<1>4. PICK left : left = Compact(vec, gone)
  OBVIOUS
<1>5. left \in Seq(Slot) /\ Range(left) = DOMAIN d.slots \ gone
  BY <1>3, <1>4, CompactIs
<1>6. PICK P : P = DOMAIN left
  OBVIOUS
<1>7. P \in SUBSET Slot
  <2>1. DOMAIN left = 1 .. Len(left) /\ Len(left) \in Nat
    BY <1>5
  <2> QED
    BY <1>6, <2>1 DEF Slot
<1>8. /\ d.slots \in Partial(Slot, ElementRecord) /\ d.idsMap \in Partial(Id, Slot)
      /\ d.namesMap \in Partial(Name, Slot) /\ d.free \in Seq(Slot)
  BY DEF Dimensions
<1>9. PICK rest : rest = Without(d.slots, gone)
  OBVIOUS
<1>10. rest \in Partial(Slot, ElementRecord)
  BY <1>8, <1>9, WithoutTyped
<1>11. DOMAIN rest = DOMAIN d.slots \ gone /\ \A s \in DOMAIN rest : rest[s] = d.slots[s]
  BY <1>9 DEF Without
<1>12. PICK slots : slots = Reposition(rest, left, P)
  OBVIOUS
<1>13. /\ slots \in Partial(Slot, ElementRecord)
       /\ DOMAIN slots = DOMAIN rest
       /\ \A s \in DOMAIN rest :
            /\ slots[s].id = rest[s].id
            /\ slots[s].name = rest[s].name
            /\ (\E i \in P : left[i] = s) => slots[s].position \in P /\ left[slots[s].position] = s
  BY <1>7, <1>10, <1>12, RepositionIs
<1>14. \A s \in DOMAIN rest : \E i \in P : left[i] = s
  BY <1>5, <1>6, <1>11 DEF Range
<1>15. PICK free : free = d.free \o Recycled(d, ids)
  OBVIOUS
<1>16. free \in Seq(Slot)
  BY <1>2, <1>8, <1>15, ConcatIs
<1>17. PICK idsMap : idsMap = Without(d.idsMap, Range(ids) \intersect DOMAIN d.idsMap)
  OBVIOUS
<1>18. PICK namesMap : namesMap = Without(d.namesMap, {d.slots[s].name : s \in gone})
  OBVIOUS
<1>19. idsMap \in Partial(Id, Slot) /\ namesMap \in Partial(Name, Slot)
  BY <1>8, <1>17, <1>18, WithoutTyped
<1>20. c = Parts(d, p, slots, free, idsMap, namesMap)
  <2>1. PICK b : b = CheckOutAll(d, p)
    OBVIOUS
  <2>2. b.slots = d.slots /\ b.free = d.free /\ b.idsMap = d.idsMap /\ b.namesMap = d.namesMap
    BY <2>1, CheckOutIs
  <2>3. c = [b EXCEPT
               !.slots = Reposition(Without(@, SlotsOf(d, ids)), Compact(vec, SlotsOf(d, ids)),
                                    DOMAIN Compact(vec, SlotsOf(d, ids))),
               !.free = @ \o Recycled(d, ids),
               !.idsMap = Without(@, Range(Known(d, ids))),
               !.namesMap = Without(@, {d.slots[s].name : s \in SlotsOf(d, ids)})]
    BY <2>1 DEF DeleteElements, Recycled
  <2>4. c = [b EXCEPT !.slots = slots, !.free = free, !.idsMap = idsMap, !.namesMap = namesMap]
    BY <1>1, <1>2, <1>4, <1>6, <1>9, <1>12, <1>15, <1>17, <1>18, <2>2, <2>3
  <2> QED
    BY <2>1, <2>4 DEF Parts
<1>21. /\ c \in Dimensions
       /\ c.name = d.name /\ c.elementList = p
       /\ c.page = IF d.page = NoPage THEN NoPage ELSE p
       /\ c.free = free /\ c.holder = d.holder /\ c.slots = slots
       /\ c.idsMap = idsMap /\ c.namesMap = namesMap /\ c.posIndex = p
  BY <1>13, <1>16, <1>19, <1>20, PartsIs
<1>22. /\ DOMAIN c.slots = DOMAIN d.slots \ gone
       /\ \A s \in DOMAIN c.slots :
            c.slots[s].id = d.slots[s].id /\ c.slots[s].name = d.slots[s].name
       /\ \A s \in DOMAIN c.slots : c.slots[s].position \in P /\ left[c.slots[s].position] = s
  BY <1>11, <1>13, <1>14, <1>21
<1> QED
  BY <1>1, <1>4, <1>6, <1>15, <1>17, <1>18, <1>21, <1>22 DEF IsDeleted

LEMMA DeleteSound ==
  ASSUME NEW d \in Dimensions, NEW p \in Pointer,
         NEW pos, NEW sizes, NEW next, NEW pos2, NEW sizes2,
         Heaps(pos, sizes, next), Sound(d, pos, sizes, next), Heaps(pos2, sizes2, next),
         PageCopied(d, p, sizes, sizes2),
         NEW ids \in Seq(Id), IsInjective(ids),
         p \in DOMAIN pos2, pos2[p] = Compact(pos[d.posIndex], SlotsOf(d, ids)),
         NEW c, IsDeleted(c, d, p, pos[d.posIndex], ids)
  PROVE  /\ Sound(c, pos2, sizes2, next)
         /\ Aligned(c, pos2[c.posIndex])
         /\ NamesLead(d) => NamesLead(c)
<1>1. PICK vec : vec = pos[d.posIndex]
  OBVIOUS
<1>2. PICK gone : gone = SlotsOf(d, ids)
  OBVIOUS
<1>3. PICK left : left = Compact(vec, gone)
  OBVIOUS
<1>4. /\ Lists(d, vec) /\ IdsLead(d) /\ SlotsApart(d, sizes) /\ IdsBelow(d, next)
      /\ d.holder \in DOMAIN next /\ (d.page # NoPage => d.page \in DOMAIN sizes)
  BY <1>1 DEF Sound
<1>5. /\ c \in Dimensions
      /\ c.page = IF d.page = NoPage THEN NoPage ELSE p
      /\ c.free = d.free \o Recycled(d, ids) /\ c.holder = d.holder
      /\ DOMAIN c.slots = DOMAIN d.slots \ gone
      /\ \A s \in DOMAIN c.slots :
           c.slots[s].id = d.slots[s].id /\ c.slots[s].name = d.slots[s].name
      /\ \A s \in DOMAIN c.slots :
           c.slots[s].position \in DOMAIN left /\ left[c.slots[s].position] = s
      /\ c.idsMap = Without(d.idsMap, Range(ids) \intersect DOMAIN d.idsMap)
      /\ c.namesMap = Without(d.namesMap, {d.slots[s].name : s \in gone})
      /\ c.posIndex = p
      /\ pos2[c.posIndex] = left
  BY <1>1, <1>2, <1>3 DEF IsDeleted
<1>6. /\ left \in Seq(Slot) /\ IsInjective(left) /\ Range(left) = DOMAIN d.slots \ gone
  <2>1. vec \in Seq(Slot) /\ IsInjective(vec) /\ Range(vec) = DOMAIN d.slots
    BY <1>4 DEF Lists
  <2> QED
    BY <1>3, <2>1, CompactIs
<1>7. Lists(c, left) /\ Aligned(c, left)
  BY <1>5, <1>6 DEF Lists, Aligned
<1>8. IdsLead(c)
  <2>1. PICK I : I = Range(ids) \intersect DOMAIN d.idsMap
    OBVIOUS
  <2>2. /\ DOMAIN c.idsMap = DOMAIN d.idsMap \ I
        /\ \A i \in DOMAIN c.idsMap : c.idsMap[i] = d.idsMap[i]
    BY <1>5, <2>1 DEF Without
  <2>3. gone = {d.idsMap[i] : i \in I}
    BY <1>2, <2>1 DEF SlotsOf
  <2>4. I \subseteq DOMAIN d.idsMap
    BY <2>1
  <2>5. ASSUME NEW s \in DOMAIN c.slots
        PROVE  c.slots[s].id \in DOMAIN c.idsMap /\ c.idsMap[c.slots[s].id] = s
    <3>1. s \in DOMAIN d.slots /\ s \notin gone /\ c.slots[s].id = d.slots[s].id
      BY <1>5
    <3>2. d.slots[s].id \in DOMAIN d.idsMap /\ d.idsMap[d.slots[s].id] = s
      BY <1>4, <3>1 DEF IdsLead
    <3>3. d.slots[s].id \notin I
      BY <2>3, <3>1, <3>2
    <3> QED
      BY <2>2, <3>1, <3>2, <3>3
  <2>6. ASSUME NEW i \in DOMAIN c.idsMap
        PROVE  c.idsMap[i] \in DOMAIN c.slots /\ c.slots[c.idsMap[i]].id = i
    <3>1. i \in DOMAIN d.idsMap /\ i \notin I /\ c.idsMap[i] = d.idsMap[i]
      BY <2>2
    <3>2. d.idsMap[i] \in DOMAIN d.slots /\ d.slots[d.idsMap[i]].id = i
      BY <1>4, <3>1 DEF IdsLead
    <3>3. \A k \in I : d.slots[d.idsMap[k]].id = k
      BY <1>4, <2>4 DEF IdsLead
    <3>4. d.idsMap[i] \notin gone
      BY <2>3, <3>1, <3>2, <3>3
    <3> QED
      BY <1>5, <3>1, <3>2, <3>4
  <2> QED
    BY <2>5, <2>6 DEF IdsLead
<1>9. NamesLead(d) => NamesLead(c)
  <2>1. SUFFICES ASSUME NamesLead(d) PROVE NamesLead(c)
    OBVIOUS
  <2>2. PICK N : N = {d.slots[s].name : s \in gone}
    OBVIOUS
  <2>3. /\ DOMAIN c.namesMap = DOMAIN d.namesMap \ N
        /\ \A n \in DOMAIN c.namesMap : c.namesMap[n] = d.namesMap[n]
    BY <1>5, <2>2 DEF Without
  <2>4. gone \subseteq DOMAIN d.slots
    BY <1>2, <1>4, RecycledIs
  <2>5. ASSUME NEW s \in DOMAIN c.slots
        PROVE  c.slots[s].name \in DOMAIN c.namesMap /\ c.namesMap[c.slots[s].name] = s
    <3>1. s \in DOMAIN d.slots /\ s \notin gone /\ c.slots[s].name = d.slots[s].name
      BY <1>5
    <3>2. \A t \in DOMAIN d.slots :
            d.slots[t].name \in DOMAIN d.namesMap /\ d.namesMap[d.slots[t].name] = t
      BY <2>1 DEF NamesLead
    <3>3. d.slots[s].name \notin N
      BY <2>2, <2>4, <3>1, <3>2
    <3> QED
      BY <2>3, <3>1, <3>2, <3>3
  <2>6. ASSUME NEW n \in DOMAIN c.namesMap
        PROVE  c.namesMap[n] \in DOMAIN c.slots /\ c.slots[c.namesMap[n]].name = n
    <3>1. n \in DOMAIN d.namesMap /\ n \notin N /\ c.namesMap[n] = d.namesMap[n]
      BY <2>3
    <3>2. d.namesMap[n] \in DOMAIN d.slots /\ d.slots[d.namesMap[n]].name = n
      BY <2>1, <3>1 DEF NamesLead
    <3>3. d.namesMap[n] \notin gone
      BY <2>2, <3>1, <3>2
    <3> QED
      BY <1>5, <3>1, <3>2, <3>3
  <2> QED
    BY <2>5, <2>6 DEF NamesLead
<1>10. /\ IsInjective(c.free) /\ Range(c.free) = Range(d.free) \union gone
       /\ gone \subseteq DOMAIN d.slots
  <2>1. /\ Recycled(d, ids) \in Seq(Slot) /\ IsInjective(Recycled(d, ids))
        /\ Range(Recycled(d, ids)) = gone /\ gone \subseteq DOMAIN d.slots
    BY <1>2, <1>4, RecycledIs
  <2>2. d.free \in Seq(Slot)
    BY DEF Dimensions
  <2>3. IsInjective(d.free) /\ Range(d.free) \intersect gone = {}
    BY <1>4, <2>1 DEF SlotsApart
  <2> QED
    BY <1>5, <2>1, <2>2, <2>3, ConcatInjective
<1>11. SlotsApart(c, sizes2)
  <2>1. Range(d.free) \intersect DOMAIN d.slots = {}
    BY <1>4 DEF SlotsApart
  <2>2. Range(c.free) \intersect DOMAIN c.slots = {}
    BY <1>5, <1>10, <2>1
  <2>3. ASSUME NEW s \in Range(c.free) \union DOMAIN c.slots
        PROVE  c.page # NoPage /\ s <= sizes2[c.page]
    <3>1. s \in Range(d.free) \union DOMAIN d.slots
      BY <1>5, <1>10
    <3>2. d.page # NoPage /\ s <= sizes[d.page]
      BY <1>4, <3>1 DEF SlotsApart
    <3>3. c.page = p /\ p # NoPage
      BY <1>5, <3>2, FreshIsNoPage
    <3>4. sizes2[p] = sizes[d.page]
      BY <3>2 DEF PageCopied
    <3> QED
      BY <3>2, <3>3, <3>4
  <2> QED
    BY <1>10, <2>2, <2>3 DEF SlotsApart
<1>12. IdsBelow(c, next)
  <2>1. \A i \in DOMAIN c.idsMap : i \in DOMAIN d.idsMap
    BY <1>5 DEF Without
  <2> QED
    BY <1>4, <1>5, <2>1 DEF IdsBelow
<1>13. c.page # NoPage => c.page \in DOMAIN sizes2
  BY <1>5 DEF PageCopied
<1>14. c.posIndex \in DOMAIN pos2 /\ c.holder \in DOMAIN next
  BY <1>4, <1>5
<1>15. Sound(c, pos2, sizes2, next)
  BY <1>5, <1>7, <1>8, <1>11, <1>12, <1>13, <1>14 DEF Sound
<1> QED
  BY <1>5, <1>7, <1>9, <1>15

(* Dimension::clearElements                                                *)
LEMMA ClearSound ==
  ASSUME NEW d \in Dimensions, NEW p \in Pointer,
         NEW pos2, NEW sizes2, NEW next2,
         p \in DOMAIN pos2, pos2[p] = <<>>, p \in DOMAIN next2,
         NEW c, c = ClearElements(d, p)
  PROVE  /\ c \in Dimensions
         /\ c.elementList = p
         /\ Sound(c, pos2, sizes2, next2)
         /\ Aligned(c, pos2[c.posIndex])
         /\ NamesLead(c)
<1>1. PICK empty : empty = [x \in {} |-> 0]
  OBVIOUS
<1>2. DOMAIN empty = {}
  BY <1>1
<1>3. empty \in Partial(Slot, ElementRecord) /\ empty \in Partial(Id, Slot) /\ empty \in Partial(Name, Slot)
  <2>1. ASSUME NEW K, NEW V PROVE empty \in Partial(K, V)
    <3>1. empty \in [{} -> V]
      BY <1>1
    <3> QED
      BY <3>1 DEF Partial
  <2> QED
    BY <2>1
<1>4. PICK b : b = CheckOutAll(d, p)
  OBVIOUS
<1>5. /\ b \in Dimensions
      /\ b.name = d.name /\ b.elementList = p /\ b.posIndex = p
  BY <1>4, CheckOutIs
<1>6. c = [b EXCEPT !.page = NoPage, !.free = <<>>, !.holder = p, !.slots = empty,
                    !.idsMap = empty, !.namesMap = empty]
  BY <1>1, <1>4 DEF ClearElements
<1>7. c \in Dimensions
  <2>1. <<>> \in Seq(Slot)
    OBVIOUS
  <2> QED
    BY <1>3, <1>5, <1>6, <2>1, Zenon DEF Dimensions
<1>8. /\ c.elementList = b.elementList /\ c.page = NoPage /\ c.free = <<>> /\ c.holder = p
      /\ c.slots = empty /\ c.idsMap = empty /\ c.namesMap = empty /\ c.posIndex = b.posIndex
  BY <1>5, <1>6 DEF Dimensions
<1>9. Range(<<>>) = {} /\ IsInjective(<<>>) /\ <<>> \in Seq(Slot)
  BY DEF Range, IsInjective
<1>10. Lists(c, <<>>) /\ Aligned(c, <<>>)
  BY <1>2, <1>8, <1>9 DEF Lists, Aligned
<1>11. IdsLead(c) /\ NamesLead(c)
  BY <1>2, <1>8 DEF IdsLead, NamesLead
<1>12. SlotsApart(c, sizes2) /\ IdsBelow(c, next2)
  BY <1>2, <1>8, <1>9 DEF SlotsApart, IdsBelow
<1>13. Sound(c, pos2, sizes2, next2)
  BY <1>5, <1>8, <1>10, <1>11, <1>12 DEF Sound
<1> QED
  BY <1>5, <1>7, <1>8, <1>10, <1>11, <1>13

(***************************************************************************)
(* What a change does to the heap.                                         *)
(***************************************************************************)

Kept(f, g) == \A p \in DOMAIN f : p \in DOMAIN g /\ g[p] = f[p]

Holds(f, V) == f \in [DOMAIN f -> V]

IsAllocated(g, f, p, v, V) ==
  /\ Kept(f, g)
  /\ DOMAIN g = DOMAIN f \union {p}
  /\ g[p] = v
  /\ Holds(g, V)

LEMMA AllocateKeeps ==
  ASSUME NEW V, NEW f, Holds(f, V), NEW p, p \notin DOMAIN f, NEW v \in V,
         NEW g, g = Allocate(f, p, v)
  PROVE  IsAllocated(g, f, p, v, V)
<1>1. DOMAIN g = DOMAIN f \union {p} /\ g[p] = v /\ \A q \in DOMAIN f : g[q] = f[q]
  BY DEF Allocate
<1>2. g = [q \in DOMAIN g |-> g[q]]
  BY DEF Allocate
<1>5. \A q \in DOMAIN f : f[q] \in V
  BY DEF Holds
<1>3. \A q \in DOMAIN g : g[q] \in V
  BY <1>1, <1>5
<1>4. Holds(g, V)
  BY <1>2, <1>3 DEF Holds
<1> QED
  BY <1>1, <1>4 DEF Kept, IsAllocated

LEMMA KeptIs ==
  ASSUME NEW f, NEW g, Kept(f, g)
  PROVE  /\ Rearranged(f, g)
         /\ f \in [DOMAIN f -> Nat] => Grown(f, g)
<1>1. Rearranged(f, g)
  BY DEF Kept, Rearranged
<1>2. f \in [DOMAIN f -> Nat] => Grown(f, g)
  <2>1. SUFFICES ASSUME f \in [DOMAIN f -> Nat] PROVE Grown(f, g)
    OBVIOUS
  <2>2. \A p \in DOMAIN f : f[p] \in Nat
    BY <2>1
  <2>3. \A p \in DOMAIN f : p \in DOMAIN g /\ g[p] = f[p] /\ f[p] <= f[p]
    BY <2>2 DEF Kept
  <2> QED
    BY <2>3 DEF Grown
<1> QED
  BY <1>1, <1>2

LEMMA SameIsKept ==
  ASSUME NEW f
  PROVE  Kept(f, f)
BY DEF Kept

(* Nothing was allocated yet where the next step allocates.                *)
Changing(j) == pc[j] = "start" \/ (pc[j] = "working" /\ Pessimistic(j))

LEMMA NewNotGiven ==
  ASSUME TypeInv, NEW j \in Job, pc[j] \in {"start", "working"}
  PROVE  New(j) \in Pointer /\ ~Given(New(j), commitTry, pc)
<1>1. commitTry[j] \in Nat
  BY DEF TypeInv
<1>2. New(j) = <<j, commitTry[j]>> /\ New(j)[1] = j /\ New(j)[2] = commitTry[j]
  BY DEF New
<1>3. New(j) # <<NoJob, 0>>
  BY <1>2, NoJobAssumption
<1>4. New(j) \in Pointer
  BY <1>1, <1>2 DEF Pointer
<1> QED
  BY <1>1, <1>2, <1>3, <1>4 DEF Given

LEMMA NewIsFresh ==
  ASSUME TypeInv, HeapInv, NEW j \in Job, Changing(j)
  PROVE  /\ New(j) \in Pointer
         /\ New(j) \notin DOMAIN positions
         /\ New(j) \notin DOMAIN pageSize
         /\ New(j) \notin DOMAIN nextId
<1>1. New(j) \in Pointer /\ ~Given(New(j), commitTry, pc)
  BY NewNotGiven DEF Changing
<1>2. ~Allocated(New(j))
  <2>1. ASSUME NEW k \in Job, New(j) = New(k), pc[k] = "working", ~Pessimistic(k)
        PROVE  FALSE
    <3>1. k = j
      BY <2>1 DEF New
    <3> QED
      BY <2>1, <3>1 DEF Changing
  <2> QED
    BY <1>1, <2>1 DEF Allocated
<1> QED
  BY <1>1, <1>2 DEF HeapInv

LEMMA CopyPageIs ==
  ASSUME NEW d, NEW p, p \notin DOMAIN pageSize,
         pageSize \in [DOMAIN pageSize -> Nat],
         d.page # NoPage => d.page \in DOMAIN pageSize,
         NEW sizes2, sizes2 = CopyPage(d, p)
  PROVE  /\ sizes2 \in [DOMAIN sizes2 -> Nat]
         /\ Kept(pageSize, sizes2)
         /\ DOMAIN sizes2 \subseteq DOMAIN pageSize \union {p}
         /\ PageCopied(d, p, pageSize, sizes2)
<1>1. CASE d.page = NoPage
  <2>1. sizes2 = pageSize
    BY <1>1 DEF CopyPage
  <2> QED
    BY <1>1, <2>1, SameIsKept DEF PageCopied
<1>2. CASE d.page # NoPage
  <2>1. sizes2 = Allocate(pageSize, p, pageSize[d.page])
    BY <1>2 DEF CopyPage
  <2>2. PICK v \in Nat : v = pageSize[d.page]
    BY <1>2
  <2>5. Holds(pageSize, Nat) /\ sizes2 = Allocate(pageSize, p, v)
    BY <2>1, <2>2 DEF Holds
  <2>3. IsAllocated(sizes2, pageSize, p, v, Nat)
    BY <2>5, AllocateKeeps
  <2> QED
    BY <2>2, <2>3 DEF IsAllocated, PageCopied, Holds
<1> QED
  BY <1>1, <1>2

(* The heap after a change of job j.                                       *)
HeapChanged(j) ==
  /\ Heaps(positions', pageSize', nextId')
  /\ Rearranged(positions, positions')
  /\ Grown(pageSize, pageSize')
  /\ Grown(nextId, nextId')
  /\ DOMAIN positions' \subseteq DOMAIN positions \union {New(j)}
  /\ DOMAIN pageSize' \subseteq DOMAIN pageSize \union {New(j)}
  /\ DOMAIN nextId' \subseteq DOMAIN nextId \union {New(j)}
  /\ request[j].op # "move_bulk" => Kept(positions, positions')

HeapGivenBack ==
  /\ DOMAIN positions' \subseteq DOMAIN positions
  /\ DOMAIN pageSize' \subseteq DOMAIN pageSize
  /\ DOMAIN nextId' \subseteq DOMAIN nextId

(* The dimension c that job j made of the latest one.                      *)
Made(j, c) ==
  /\ c \in Dimensions
  /\ Sound(c, positions', pageSize', nextId')
  /\ request[j].op # "rename_dimension" /\ ~Pessimistic(j) => c.elementList = New(j)
  /\ request[j].op = "rename_dimension" => SameParts(latest, c)
  /\ request[j].op \in KeepsIds => c.idsMap = latest.idsMap
  /\ request[j].op \in KeepsBoth => c.namesMap = latest.namesMap
  /\ AlignedNow(latest) \/ request[j].op = "move_bulk" => Aligned(c, positions'[c.posIndex])
  /\ NamesLead(latest) => NamesLead(c)

Makes(j) ==
  /\ HeapChanged(j)
  /\ Pessimistic(j) => HeapGivenBack
  /\ Made(j, mine'[j])

LEMMA HeapIsUnchanged ==
  ASSUME TypeInv, NEW j \in Job, UNCHANGED heap
  PROVE  HeapChanged(j) /\ HeapGivenBack
<1>1. positions' = positions /\ pageSize' = pageSize /\ nextId' = nextId
  BY DEF heap
<1>2. Kept(positions, positions) /\ Kept(pageSize, pageSize) /\ Kept(nextId, nextId)
  BY SameIsKept
<1>3. Heaps(positions, pageSize, nextId)
  BY DEF TypeInv
<1>4. pageSize \in [DOMAIN pageSize -> Nat] /\ nextId \in [DOMAIN nextId -> Nat]
  BY <1>3 DEF Heaps
<1>5. /\ Rearranged(positions, positions) /\ Grown(pageSize, pageSize)
      /\ Grown(nextId, nextId)
  BY <1>2, <1>4, KeptIs
<1> QED
  BY <1>1, <1>2, <1>3, <1>5 DEF HeapChanged, HeapGivenBack

(* The heap when only new objects were allocated.                          *)
LEMMA HeapAllocated ==
  ASSUME TypeInv, NEW j \in Job,
         Heaps(positions', pageSize', nextId'),
         Kept(positions, positions'), Kept(pageSize, pageSize'), Kept(nextId, nextId'),
         DOMAIN positions' \subseteq DOMAIN positions \union {New(j)},
         DOMAIN pageSize' \subseteq DOMAIN pageSize \union {New(j)},
         DOMAIN nextId' \subseteq DOMAIN nextId \union {New(j)}
  PROVE  HeapChanged(j)
<1>1. pageSize \in [DOMAIN pageSize -> Nat] /\ nextId \in [DOMAIN nextId -> Nat]
  BY DEF TypeInv, Heaps
<1>2. /\ Rearranged(positions, positions') /\ Grown(pageSize, pageSize')
      /\ Grown(nextId, nextId')
  BY <1>1, KeptIs
<1> QED
  BY <1>2 DEF HeapChanged

(* What the actions need of the latest dimension.                          *)
LEMMA LatestIs ==
  ASSUME Inv
  PROVE  /\ latest \in Dimensions
         /\ Heaps(positions, pageSize, nextId)
         /\ Sound(latest, positions, pageSize, nextId)
         /\ positions \in [DOMAIN positions -> Seq(Slot)]
         /\ pageSize \in [DOMAIN pageSize -> Nat]
         /\ nextId \in [DOMAIN nextId -> Nat]
         /\ latest.posIndex \in DOMAIN positions
         /\ positions[latest.posIndex] \in Seq(Slot)
         /\ latest.page # NoPage => latest.page \in DOMAIN pageSize
         /\ latest.holder \in DOMAIN nextId
         /\ Lists(latest, positions[latest.posIndex])
         /\ IdsLead(latest)
<1>1. /\ latest \in Dimensions
      /\ Heaps(positions, pageSize, nextId)
      /\ Sound(latest, positions, pageSize, nextId)
  BY DEF Inv, TypeInv, SoundInv, SoundNow
<1>2. /\ positions \in [DOMAIN positions -> Seq(Slot)]
      /\ pageSize \in [DOMAIN pageSize -> Nat]
      /\ nextId \in [DOMAIN nextId -> Nat]
  BY <1>1 DEF Heaps
<1>3. /\ latest.posIndex \in DOMAIN positions
      /\ latest.page # NoPage => latest.page \in DOMAIN pageSize
      /\ latest.holder \in DOMAIN nextId
      /\ Lists(latest, positions[latest.posIndex])
      /\ IdsLead(latest)
  BY <1>1 DEF Sound
<1> QED
  BY <1>1, <1>2, <1>3

(***************************************************************************)
(* What each change makes.                                                 *)
(***************************************************************************)

LEMMA RequestIs ==
  ASSUME request \in [Job -> Request], NEW j \in Job
  PROVE  /\ request[j].op \in {"create", "rename_dimension", "destroy", "destroy_bulk",
                               "rename", "move", "move_bulk", "clear"}
         /\ request[j].op \in {"create", "rename_dimension", "rename"} => request[j].name \in Name
         /\ request[j].op \in {"destroy", "destroy_bulk"} =>
              request[j].ids \in Seq(Id) /\ IsInjective(request[j].ids)
         /\ request[j].op = "move" => request[j].position \in Slot
         /\ request[j].op = "move_bulk" => request[j].moves \in Seq(Id \X Slot)
<1>1. PICK r \in Request : r = request[j]
  OBVIOUS
<1>2. CASE r \in [op : {"create", "rename_dimension"}, name : Name]
  BY <1>1, <1>2
<1>3. CASE r \in [op : {"destroy", "destroy_bulk"}, ids : {s \in Seq(Id) : IsInjective(s)}]
  BY <1>1, <1>3
<1>4. CASE r \in [op : {"rename"}, id : Id, name : Name]
  BY <1>1, <1>4
<1>5. CASE r \in [op : {"move"}, id : Id, position : Nat \ {0}]
  BY <1>1, <1>5 DEF Slot
<1>6. CASE r \in [op : {"move_bulk"}, moves : Seq(Id \X (Nat \ {0}))]
  BY <1>1, <1>6 DEF Slot
<1>7. CASE r \in [op : {"clear"}]
  BY <1>1, <1>7
<1> QED
  BY <1>2, <1>3, <1>4, <1>5, <1>6, <1>7 DEF Request

(* What holds whenever a job has made its copy.                            *)
LEMMA WorksIs ==
  ASSUME TypeInv, NEW j \in Job, NEW op, NEW c, Works(j, op, c)
  PROVE  /\ pc[j] = "start" /\ request[j].op = op
         /\ Changing(j)
         /\ mine'[j] = c
BY DEF Works, TypeInv, Changing

Counted(d, sizes, after) ==
  IF d.page = NoPage THEN sizes ELSE [sizes EXCEPT ![d.page] = after]

IsCounted(sizes2, d, sizes, p, after) ==
  /\ Holds(sizes2, Nat)
  /\ Grown(sizes, sizes2)
  /\ DOMAIN sizes2 = DOMAIN sizes \union {p}
  /\ sizes2[p] = after

LEMMA CountedIs ==
  ASSUME NEW d, NEW sizes, Holds(sizes, Nat), d.page # NoPage => d.page \in DOMAIN sizes,
         NEW after \in Nat, d.page # NoPage => sizes[d.page] <= after,
         NEW p, p \notin DOMAIN sizes,
         NEW sizes2, sizes2 = Allocate(Counted(d, sizes, after), p, after)
  PROVE  IsCounted(sizes2, d, sizes, p, after)
<1>0. PICK counted : counted = Counted(d, sizes, after)
  OBVIOUS
<1>1. \A q \in DOMAIN sizes : sizes[q] \in Nat
  BY DEF Holds
<1>2. /\ DOMAIN counted = DOMAIN sizes
      /\ \A q \in DOMAIN sizes : counted[q] \in Nat /\ sizes[q] <= counted[q]
  BY <1>0, <1>1 DEF Counted
<1>3. Holds(counted, Nat)
  <2>1. counted = [q \in DOMAIN counted |-> counted[q]]
    BY <1>0 DEF Holds, Counted
  <2> QED
    BY <1>2, <2>1 DEF Holds
<1>4. IsAllocated(sizes2, counted, p, after, Nat)
  BY <1>0, <1>2, <1>3, AllocateKeeps
<1>5. Grown(sizes, sizes2)
  BY <1>2, <1>4 DEF IsAllocated, Kept, Grown
<1> QED
  BY <1>2, <1>4, <1>5 DEF IsAllocated, IsCounted

LEMMA DrawnIs ==
  ASSUME NEW next, Holds(next, Nat), NEW h \in DOMAIN next,
         NEW next2, next2 = [next EXCEPT ![h] = @ + 1]
  PROVE  /\ Holds(next2, Nat)
         /\ Grown(next, next2)
         /\ DOMAIN next2 = DOMAIN next
         /\ next2[h] = next[h] + 1
<1>1. \A q \in DOMAIN next : next[q] \in Nat
  BY DEF Holds
<1>2. /\ DOMAIN next2 = DOMAIN next
      /\ next2[h] = next[h] + 1
      /\ \A q \in DOMAIN next : next2[q] \in Nat /\ next[q] <= next2[q]
  BY <1>1
<1>3. Holds(next2, Nat)
  <2>1. next2 = [q \in DOMAIN next2 |-> next2[q]]
    BY DEF Holds
  <2> QED
    BY <1>2, <2>1 DEF Holds
<1> QED
  BY <1>2, <1>3 DEF Grown

LEMMA CreateMakes ==
  ASSUME Inv, NEW j \in Job, Create(j)
  PROVE  Makes(j)
<1>1. PICK d : d = latest
  OBVIOUS
<1>2. PICK p : p = New(j)
  OBVIOUS
<1>3. PICK size : size = SizeOf(d, pageSize)
  OBVIOUS
<1>4. PICK slot : slot = SlotFor(d, size)
  OBVIOUS
<1>5. PICK after : after = SizeAfter(d, size, slot)
  OBVIOUS
<1>7. PICK name : name = request[j].name
  OBVIOUS
<1>8. PICK c : c = AddElement(d, p, slot, nextId[d.holder], name)
  OBVIOUS
<1>9. /\ request[j].op = "create"
      /\ name \notin DOMAIN d.namesMap
      /\ Works(j, "create", c)
      /\ positions' = Allocate(positions, p,
           Append(SubSeq(positions[d.posIndex], 1, SizeElements(d)), slot))
      /\ pageSize' = Allocate(Counted(d, pageSize, after), p, after)
      /\ nextId' = [nextId EXCEPT ![d.holder] = @ + 1]
  BY <1>1, <1>2, <1>3, <1>4, <1>5, <1>7, <1>8
     DEF Create, SizeOf, SlotFor, SizeAfter, Counted
<1>10. mine'[j] = c /\ Changing(j) /\ TypeInv /\ HeapInv
  BY <1>9, WorksIs DEF Inv
<1>11. p \in Pointer /\ p \notin DOMAIN positions /\ p \notin DOMAIN pageSize
  BY <1>2, <1>10, NewIsFresh
<1>12. name \in Name
  BY <1>7, <1>9, <1>10, RequestIs DEF TypeInv
<1>13. PICK pos : pos = positions
  OBVIOUS
<1>14. PICK sizes : sizes = pageSize
  OBVIOUS
<1>15. PICK next : next = nextId
  OBVIOUS
<1>16. /\ d \in Dimensions /\ Heaps(pos, sizes, next) /\ Sound(d, pos, sizes, next)
       /\ Holds(pos, Seq(Slot)) /\ Holds(sizes, Nat) /\ Holds(next, Nat)
       /\ pos[d.posIndex] \in Seq(Slot)
       /\ d.page # NoPage => d.page \in DOMAIN sizes
       /\ d.holder \in DOMAIN next
  BY <1>1, <1>13, <1>14, <1>15, LatestIs DEF Holds
<1>17. /\ size \in Nat /\ after \in Nat /\ slot \in Slot /\ size <= after
       /\ slot \notin DOMAIN d.slots
  BY <1>3, <1>4, <1>5, <1>14, <1>16, SlotIsNew
<1>18. PICK new : new = Append(SubSeq(pos[d.posIndex], 1, SizeElements(d)), slot)
  OBVIOUS
<1>19. PICK pos2 : pos2 = positions'
  OBVIOUS
<1>20. PICK sizes2 : sizes2 = pageSize'
  OBVIOUS
<1>21. PICK next2 : next2 = nextId'
  OBVIOUS
<1>22. pos2 = Allocate(pos, p, new)
  BY <1>9, <1>13, <1>18, <1>19
<1>23. p \in DOMAIN pos2 /\ pos2[p] = new
  BY <1>22 DEF Allocate
<1>24. /\ Holds(sizes2, Nat) /\ Grown(sizes, sizes2)
       /\ DOMAIN sizes2 = DOMAIN sizes \union {p} /\ sizes2[p] = after
  <2>1. d.page # NoPage => sizes[d.page] <= after
    BY <1>3, <1>14, <1>17 DEF SizeOf
  <2>2. sizes2 = Allocate(Counted(d, sizes, after), p, after)
    BY <1>9, <1>14, <1>20
  <2>4. p \notin DOMAIN sizes
    BY <1>11, <1>14
  <2>5. IsCounted(sizes2, d, sizes, p, after)
    BY <1>16, <1>17, <2>1, <2>2, <2>4, CountedIs
  <2> QED
    BY <2>5 DEF IsCounted
<1>25. /\ Holds(next2, Nat) /\ Grown(next, next2)
       /\ DOMAIN next2 = DOMAIN next /\ next2[d.holder] = next[d.holder] + 1
  BY <1>9, <1>15, <1>16, <1>21, DrawnIs
<1>26. /\ c \in Dimensions
       /\ c.elementList = p
       /\ Sound(c, pos2, sizes2, next2)
       /\ Aligned(d, pos[d.posIndex]) => Aligned(c, pos2[c.posIndex])
       /\ NamesLead(d) => NamesLead(c)
       /\ new = Append(pos[d.posIndex], slot)
  <2>1. c = AddElement(d, p, slot, next[d.holder], name)
    BY <1>8, <1>15
  <2>2. slot = SlotFor(d, SizeOf(d, sizes)) /\ sizes2[p] = SizeAfter(d, SizeOf(d, sizes), slot)
    BY <1>3, <1>4, <1>5, <1>14, <1>24
  <2>3. p \in DOMAIN sizes2 /\ d.holder \in DOMAIN next2
    BY <1>16, <1>24, <1>25
  <2>4. IsAdded(c, d, p, name, slot, pos, sizes, next, pos2, sizes2, next2)
    BY <1>11, <1>12, <1>16, <1>18, <1>23, <1>25, <2>1, <2>2, <2>3, AddElementSound
  <2> QED
    BY <1>9, <1>18, <1>23, <2>4 DEF IsAdded
<1>27. new \in Seq(Slot)
  BY <1>16, <1>17, <1>26
<1>28. /\ Kept(pos, pos2) /\ DOMAIN pos2 = DOMAIN pos \union {p} /\ Holds(pos2, Seq(Slot))
  <2>1. p \notin DOMAIN pos
    BY <1>11, <1>13
  <2>2. PICK V : V = Seq(Slot)
    OBVIOUS
  <2>3. Holds(pos, V) /\ new \in V
    BY <1>16, <1>27, <2>2
  <2>4. IsAllocated(pos2, pos, p, new, V)
    BY <1>22, <2>1, <2>3, AllocateKeeps
  <2> QED
    BY <2>2, <2>4 DEF IsAllocated
<1>29. HeapChanged(j)
  <2>1. Heaps(pos2, sizes2, next2)
    BY <1>24, <1>25, <1>28 DEF Heaps, Holds
  <2>2. Rearranged(pos, pos2)
    BY <1>28, KeptIs
  <2> QED
    BY <1>2, <1>13, <1>14, <1>15, <1>19, <1>20, <1>21, <1>24, <1>25, <1>28, <2>1, <2>2
       DEF HeapChanged
<1>30. ~Pessimistic(j)
  BY <1>9 DEF Pessimistic
<1>31. Made(j, c)
  BY <1>1, <1>2, <1>9, <1>13, <1>19, <1>20, <1>21, <1>26
     DEF Made, AlignedNow, KeepsIds, KeepsBoth
<1> QED
  BY <1>10, <1>29, <1>30, <1>31 DEF Makes

(* A page was copied, and perhaps a vector.                                *)
LEMMA CopyHeap ==
  ASSUME Inv, NEW j \in Job, Changing(j),
         pageSize' = CopyPage(latest, New(j)), nextId' = nextId,
         \/ positions' = positions
         \/ \E v \in Seq(Slot) : positions' = Allocate(positions, New(j), v)
  PROVE  /\ HeapChanged(j)
         /\ Heaps(positions', pageSize', nextId)
         /\ PageCopied(latest, New(j), pageSize, pageSize')
         /\ Kept(positions, positions')
<1>1. PICK p : p = New(j)
  OBVIOUS
<1>2. p \notin DOMAIN positions /\ p \notin DOMAIN pageSize
  BY <1>1, NewIsFresh DEF Inv
<1>3. PICK d : d = latest
  OBVIOUS
<1>4. PICK sizes2 : sizes2 = pageSize'
  OBVIOUS
<1>5. /\ sizes2 \in [DOMAIN sizes2 -> Nat]
      /\ Kept(pageSize, sizes2)
      /\ DOMAIN sizes2 \subseteq DOMAIN pageSize \union {p}
      /\ PageCopied(d, p, pageSize, sizes2)
  <2>1. d.page # NoPage => d.page \in DOMAIN pageSize
    BY <1>3, LatestIs
  <2>2. pageSize \in [DOMAIN pageSize -> Nat]
    BY LatestIs
  <2>3. sizes2 = CopyPage(d, p)
    BY <1>1, <1>3, <1>4
  <2> QED
    BY <1>2, <2>1, <2>2, <2>3, CopyPageIs
<1>6. PICK pos : pos = positions
  OBVIOUS
<1>7. PICK pos2 : pos2 = positions'
  OBVIOUS
<1>8. /\ Kept(pos, pos2)
      /\ DOMAIN pos2 \subseteq DOMAIN pos \union {p}
      /\ pos2 \in [DOMAIN pos2 -> Seq(Slot)]
  <2>1. pos \in [DOMAIN pos -> Seq(Slot)]
    BY <1>6, LatestIs
  <2>2. CASE pos2 = pos
    BY <2>1, <2>2, SameIsKept
  <2>3. CASE \E v \in Seq(Slot) : pos2 = Allocate(pos, p, v)
    <3>1. PICK V : V = Seq(Slot)
      OBVIOUS
    <3>2. PICK v \in V : pos2 = Allocate(pos, p, v)
      BY <2>3, <3>1
    <3>3. Holds(pos, V) /\ p \notin DOMAIN pos
      BY <1>2, <1>6, <2>1, <3>1 DEF Holds
    <3>4. IsAllocated(pos2, pos, p, v, V)
      BY <3>2, <3>3, AllocateKeeps
    <3> QED
      BY <3>1, <3>4 DEF IsAllocated, Holds
  <2> QED
    BY <1>1, <1>6, <1>7, <2>2, <2>3
<1>9. Heaps(pos2, sizes2, nextId)
  <2>1. nextId \in [DOMAIN nextId -> Nat]
    BY LatestIs
  <2> QED
    BY <1>5, <1>8, <2>1 DEF Heaps
<1>10. HeapChanged(j)
  <2>1. Kept(nextId, nextId')
    BY SameIsKept
  <2>2. TypeInv
    BY DEF Inv
  <2> QED
    BY <1>1, <1>4, <1>5, <1>6, <1>7, <1>8, <1>9, <2>1, <2>2, HeapAllocated
<1> QED
  BY <1>1, <1>3, <1>4, <1>5, <1>6, <1>7, <1>8, <1>9, <1>10

LEMMA RenameMakes ==
  ASSUME Inv, NEW j \in Job, Rename(j)
  PROVE  Makes(j)
<1>1. PICK d : d = latest
  OBVIOUS
<1>2. PICK p : p = New(j)
  OBVIOUS
<1>3. PICK name : name = request[j].name
  OBVIOUS
<1>4. PICK id : id = request[j].id
  OBVIOUS
<1>5. PICK slot : slot = d.idsMap[id]
  OBVIOUS
<1>6. PICK c : c = ChangeElementName(d, p, slot, name)
  OBVIOUS
<1>7. /\ request[j].op = "rename"
      /\ id \in DOMAIN d.idsMap
      /\ name \in DOMAIN d.namesMap => d.namesMap[name] = slot
      /\ Works(j, "rename", c)
      /\ pageSize' = CopyPage(d, p)
      /\ positions' = positions /\ nextId' = nextId
  BY <1>1, <1>2, <1>3, <1>4, <1>5, <1>6 DEF Rename
<1>8. mine'[j] = c /\ Changing(j) /\ TypeInv /\ HeapInv
  BY <1>7, WorksIs DEF Inv
<1>9. p \in Pointer
  BY <1>2, <1>8, NewIsFresh
<1>10. name \in Name
  BY <1>3, <1>7, <1>8, RequestIs DEF TypeInv
<1>11. /\ HeapChanged(j)
       /\ Heaps(positions, pageSize', nextId)
       /\ PageCopied(d, p, pageSize, pageSize')
  BY <1>1, <1>2, <1>7, <1>8, CopyHeap
<1>12. PICK pos : pos = positions
  OBVIOUS
<1>13. PICK sizes : sizes = pageSize
  OBVIOUS
<1>14. PICK next : next = nextId
  OBVIOUS
<1>15. PICK sizes2 : sizes2 = pageSize'
  OBVIOUS
<1>16. /\ d \in Dimensions /\ Heaps(pos, sizes, next) /\ Sound(d, pos, sizes, next) /\ IdsLead(d)
       /\ Heaps(pos, sizes2, next) /\ PageCopied(d, p, sizes, sizes2)
  BY <1>1, <1>11, <1>12, <1>13, <1>14, <1>15, LatestIs
<1>17. slot \in DOMAIN d.slots
  BY <1>5, <1>7, <1>16 DEF IdsLead
<1>18. /\ IsRenamed(c, d, p, slot, name)
       /\ NamesLead(d) => NamesLead(c)
  BY <1>6, <1>7, <1>9, <1>10, <1>16, <1>17, RenameIs
<1>19. /\ Sound(c, pos, sizes2, next)
       /\ Aligned(d, pos[d.posIndex]) => Aligned(c, pos[c.posIndex])
  BY <1>5, <1>7, <1>9, <1>10, <1>16, <1>18, RenameSound
<1>20. c \in Dimensions /\ c.elementList = p /\ c.idsMap = d.idsMap
  BY <1>18 DEF IsRenamed
<1>21. Made(j, c)
  BY <1>1, <1>2, <1>7, <1>12, <1>14, <1>15, <1>18, <1>19, <1>20
     DEF Made, AlignedNow, KeepsIds, KeepsBoth
<1>22. ~Pessimistic(j)
  BY <1>7 DEF Pessimistic
<1> QED
  BY <1>8, <1>11, <1>21, <1>22 DEF Makes

LEMMA MoveMakes ==
  ASSUME Inv, NEW j \in Job, Move(j)
  PROVE  Makes(j)
<1>1. PICK d : d = latest
  OBVIOUS
<1>2. PICK p : p = New(j)
  OBVIOUS
<1>3. PICK to : to = request[j].position
  OBVIOUS
<1>4. PICK id : id = request[j].id
  OBVIOUS
<1>5. PICK slot : slot = d.idsMap[id]
  OBVIOUS
<1>6. PICK from : from = d.slots[slot].position
  OBVIOUS
<1>7. PICK vec : vec = MovedVector(positions[d.posIndex], from, to, slot)
  OBVIOUS
<1>8. PICK P : P = Between(from, to)
  OBVIOUS
<1>9. PICK c : c = mine'[j]
  BY Zenon
<1>10. /\ request[j].op = "move"
       /\ id \in DOMAIN d.idsMap
       /\ to <= SizeElements(d)
       /\ pageSize' = CopyPage(d, p) /\ nextId' = nextId
       /\ \/ Works(j, "move", CheckOutElements(d, p)) /\ positions' = positions
          \/ Works(j, "move", Moved(d, p, vec, P)) /\ positions' = Allocate(positions, p, vec)
  BY <1>1, <1>2, <1>3, <1>4, <1>5, <1>6, <1>7, <1>8, Zenon DEF Move, MovedVector, Between, Moved
<1>11. /\ Changing(j) /\ TypeInv /\ HeapInv
       /\ \/ c = CheckOutElements(d, p) /\ positions' = positions
          \/ c = Moved(d, p, vec, P) /\ positions' = Allocate(positions, p, vec)
  BY <1>9, <1>10, WorksIs DEF Inv
<1>12. p \in Pointer
  BY <1>2, <1>11, NewIsFresh
<1>13. to \in Slot
  BY <1>3, <1>10, <1>11, RequestIs DEF TypeInv
<1>14. AlignedNow(latest)
  BY <1>10 DEF Inv, AlignInv, MapsApart, BulkApart, Asks
<1>15. PICK pos : pos = positions
  OBVIOUS
<1>16. PICK sizes : sizes = pageSize
  OBVIOUS
<1>17. PICK next : next = nextId
  OBVIOUS
<1>18. PICK pos2 : pos2 = positions'
  OBVIOUS
<1>19. PICK sizes2 : sizes2 = pageSize'
  OBVIOUS
<1>20. /\ d \in Dimensions /\ Heaps(pos, sizes, next) /\ Sound(d, pos, sizes, next)
       /\ Lists(d, pos[d.posIndex]) /\ IdsLead(d) /\ Aligned(d, pos[d.posIndex])
  BY <1>1, <1>14, <1>15, <1>16, <1>17, LatestIs DEF AlignedNow
<1>21. /\ vec \in Seq(Slot) /\ DOMAIN vec = DOMAIN pos[d.posIndex]
       /\ IsInjective(vec) /\ Range(vec) = Range(pos[d.posIndex])
       /\ P \in SUBSET DOMAIN vec /\ P \in SUBSET Slot
       /\ InPlace(d, vec, P)
  <2>1. PICK was : was = pos[d.posIndex]
    OBVIOUS
  <2>2. Lists(d, was) /\ Aligned(d, was) /\ vec = MovedVector(was, from, to, slot)
    BY <1>7, <1>15, <1>20, <2>1
  <2>3. IsMoved(vec, P, d, was)
    BY <1>5, <1>6, <1>8, <1>10, <1>13, <1>20, <2>2, MovedVectorIs
  <2> QED
    BY <1>20, <2>1, <2>3 DEF IsMoved
<1>22. /\ HeapChanged(j)
       /\ Heaps(pos2, sizes2, next)
       /\ PageCopied(d, p, sizes, sizes2)
  BY <1>1, <1>2, <1>10, <1>11, <1>16, <1>17, <1>18, <1>19, <1>21, CopyHeap
<1>23. /\ c \in Dimensions
       /\ c.elementList = p
       /\ c.idsMap = d.idsMap /\ c.namesMap = d.namesMap
       /\ Sound(c, pos2, sizes2, next)
       /\ Aligned(c, pos2[c.posIndex])
       /\ NamesLead(d) => NamesLead(c)
  <2>1. CASE c = CheckOutElements(d, p) /\ positions' = positions
    <3>1. pos2 = pos
      BY <1>15, <1>18, <2>1
    <3> QED
      BY <1>12, <1>20, <1>22, <2>1, <3>1, CheckOutSound
  <2>2. CASE c = Moved(d, p, vec, P) /\ positions' = Allocate(positions, p, vec)
    <3>1. p \in DOMAIN pos2 /\ pos2[p] = vec
      BY <1>18, <2>2 DEF Allocate
    <3> QED
      BY <1>12, <1>20, <1>21, <1>22, <2>2, <3>1, MoveSound
  <2> QED
    BY <1>11, <2>1, <2>2
<1>24. Made(j, c)
  BY <1>1, <1>2, <1>10, <1>17, <1>18, <1>19, <1>23
     DEF Made, AlignedNow, KeepsIds, KeepsBoth
<1>25. ~Pessimistic(j)
  BY <1>10 DEF Pessimistic
<1> QED
  BY <1>9, <1>22, <1>24, <1>25 DEF Makes

(* A vector was changed in place.                                          *)
IsWritten(pos2, pos, q, vec) ==
  /\ Holds(pos2, Seq(Slot))
  /\ DOMAIN pos2 = DOMAIN pos
  /\ pos2[q] = vec
  /\ Rearranged(pos, pos2)

LEMMA WrittenIs ==
  ASSUME NEW pos, Holds(pos, Seq(Slot)), NEW q \in DOMAIN pos,
         NEW vec, vec \in Seq(Slot), DOMAIN vec = DOMAIN pos[q],
         IsInjective(vec), Range(vec) = Range(pos[q]),
         NEW pos2, pos2 = [pos EXCEPT ![q] = vec]
  PROVE  IsWritten(pos2, pos, q, vec)
<1>1. PICK V : V = Seq(Slot)
  OBVIOUS
<1>2. \A p \in DOMAIN pos : pos[p] \in V
  BY <1>1 DEF Holds
<1>3. /\ DOMAIN pos2 = DOMAIN pos
      /\ pos2[q] = vec
      /\ \A p \in DOMAIN pos : p # q => pos2[p] = pos[p]
  OBVIOUS
<1>4. \A p \in DOMAIN pos2 : pos2[p] \in V
  BY <1>1, <1>2, <1>3
<1>5. pos2 = [p \in DOMAIN pos2 |-> pos2[p]]
  OBVIOUS
<1>6. Holds(pos2, V)
  BY <1>4, <1>5 DEF Holds
<1>7. Rearranged(pos, pos2)
  BY <1>3 DEF Rearranged
<1> QED
  BY <1>1, <1>3, <1>6, <1>7 DEF IsWritten

(* A vector was changed in place and the page copied.                      *)
LEMMA WriteHeap ==
  ASSUME Inv, NEW j \in Job, Changing(j), request[j].op = "move_bulk",
         pageSize' = CopyPage(latest, New(j)), nextId' = nextId,
         NEW q \in DOMAIN positions, NEW vec, IsWritten(positions', positions, q, vec)
  PROVE  /\ HeapChanged(j)
         /\ Heaps(positions', pageSize', nextId)
         /\ PageCopied(latest, New(j), pageSize, pageSize')
<1>1. PICK p : p = New(j)
  OBVIOUS
<1>2. p \notin DOMAIN pageSize
  BY <1>1, NewIsFresh DEF Inv
<1>3. PICK d : d = latest
  OBVIOUS
<1>4. PICK sizes2 : sizes2 = pageSize'
  OBVIOUS
<1>5. /\ sizes2 \in [DOMAIN sizes2 -> Nat]
      /\ Kept(pageSize, sizes2)
      /\ DOMAIN sizes2 \subseteq DOMAIN pageSize \union {p}
      /\ PageCopied(d, p, pageSize, sizes2)
  <2>1. d.page # NoPage => d.page \in DOMAIN pageSize
    BY <1>3, LatestIs
  <2>2. pageSize \in [DOMAIN pageSize -> Nat]
    BY LatestIs
  <2>3. sizes2 = CopyPage(d, p)
    BY <1>1, <1>3, <1>4
  <2> QED
    BY <1>2, <2>1, <2>2, <2>3, CopyPageIs
<1>6. PICK pos2 : pos2 = positions'
  OBVIOUS
<1>7. /\ pos2 \in [DOMAIN pos2 -> Seq(Slot)]
      /\ DOMAIN pos2 = DOMAIN positions
      /\ Rearranged(positions, pos2)
  BY <1>6 DEF IsWritten, Holds
<1>8. nextId \in [DOMAIN nextId -> Nat] /\ pageSize \in [DOMAIN pageSize -> Nat]
  BY LatestIs
<1>9. Heaps(pos2, sizes2, nextId)
  BY <1>5, <1>7, <1>8 DEF Heaps
<1>10. Grown(pageSize, sizes2) /\ Grown(nextId, nextId)
  BY <1>5, <1>8, KeptIs, SameIsKept
<1>11. HeapChanged(j)
  BY <1>1, <1>4, <1>5, <1>6, <1>7, <1>9, <1>10 DEF HeapChanged
<1> QED
  BY <1>1, <1>3, <1>4, <1>5, <1>6, <1>9, <1>11

LEMMA MoveBulkMakes ==
  ASSUME Inv, NEW j \in Job, MoveBulk(j)
  PROVE  Makes(j)
<1>1. PICK d : d = latest
  OBVIOUS
<1>2. PICK p : p = New(j)
  OBVIOUS
<1>3. PICK M : M = Range(request[j].moves)
  OBVIOUS
<1>4. PICK placed : placed = PlacedBy(d, M)
  OBVIOUS
<1>5. PICK was : was = positions[d.posIndex]
  OBVIOUS
<1>6. PICK vec : vec = Arrange(was, placed)
  OBVIOUS
<1>7. PICK P : P = DOMAIN vec
  OBVIOUS
<1>8. PICK c : c = Repositioned(d, p, vec, P)
  OBVIOUS
<1>9. /\ request[j].op = "move_bulk"
      /\ \A m \in M : m[1] \in DOMAIN d.idsMap /\ m[2] <= SizeElements(d)
      /\ \A m, n \in M : m[1] = n[1] <=> m[2] = n[2]
      /\ Works(j, "move_bulk", c)
      /\ positions' = [positions EXCEPT ![d.posIndex] = vec]
      /\ pageSize' = CopyPage(d, p) /\ nextId' = nextId
  <2>1. LET moves == Range(request[j].moves)
            new == Arrange(positions[latest.posIndex], PlacedBy(latest, moves)) IN
        /\ request[j].op = "move_bulk"
        /\ \A m \in moves : m[1] \in DOMAIN latest.idsMap /\ m[2] <= SizeElements(latest)
        /\ \A m, n \in moves : m[1] = n[1] <=> m[2] = n[2]
        /\ Works(j, "move_bulk", Repositioned(latest, New(j), new, DOMAIN new))
        /\ positions' = [positions EXCEPT ![latest.posIndex] = new]
        /\ pageSize' = CopyPage(latest, New(j)) /\ nextId' = nextId
    BY DEF MoveBulk, PlacedBy
  <2> QED
    BY <1>1, <1>2, <1>3, <1>4, <1>5, <1>6, <1>7, <1>8, <2>1
<1>10. mine'[j] = c /\ Changing(j) /\ TypeInv /\ HeapInv
  BY <1>9, WorksIs DEF Inv
<1>11. p \in Pointer
  BY <1>2, <1>10, NewIsFresh
<1>12. PICK pos : pos = positions
  OBVIOUS
<1>13. PICK sizes : sizes = pageSize
  OBVIOUS
<1>14. PICK next : next = nextId
  OBVIOUS
<1>15. PICK pos2 : pos2 = positions'
  OBVIOUS
<1>16. PICK sizes2 : sizes2 = pageSize'
  OBVIOUS
<1>17. /\ d \in Dimensions /\ Heaps(pos, sizes, next) /\ Sound(d, pos, sizes, next)
       /\ d.posIndex \in DOMAIN pos /\ was = pos[d.posIndex]
       /\ Lists(d, was) /\ IdsLead(d) /\ Holds(pos, Seq(Slot))
  BY <1>1, <1>5, <1>12, <1>13, <1>14, LatestIs DEF Holds
<1>18. /\ was \in Seq(Slot) /\ IsInjective(was)
       /\ DOMAIN was = 1 .. Len(was) /\ Len(was) \in Nat /\ SizeElements(d) = Len(was)
  BY <1>17, SizeIsLength DEF Lists
<1>19. M \subseteq Id \X Slot
  <2>1. PICK moves : moves = request[j].moves
    OBVIOUS
  <2>2. moves \in Seq(Id \X Slot)
    BY <1>9, <1>10, <2>1, RequestIs DEF TypeInv
  <2>3. \A k \in DOMAIN moves : moves[k] \in Id \X Slot
    BY <2>2
  <2> QED
    BY <1>3, <2>1, <2>3 DEF Range
<1>20. \A m \in M : m[1] \in DOMAIN d.idsMap /\ m[2] \in DOMAIN was
  <2>1. SUFFICES ASSUME NEW m \in M PROVE m[1] \in DOMAIN d.idsMap /\ m[2] \in DOMAIN was
    OBVIOUS
  <2>2. m[2] \in Nat /\ m[2] # 0
    BY <1>19 DEF Slot
  <2>3. m[1] \in DOMAIN d.idsMap /\ m[2] <= Len(was)
    BY <1>9, <1>18
  <2> QED
    BY <1>18, <2>2, <2>3
<1>21. /\ DOMAIN placed \in SUBSET DOMAIN was
       /\ IsInjective(placed)
       /\ Range(placed) \subseteq Range(was)
  BY <1>4, <1>9, <1>17, <1>20, PlacedByIs
<1>22. /\ vec \in Seq(Slot) /\ DOMAIN vec = DOMAIN was
       /\ IsInjective(vec) /\ Range(vec) = Range(was)
  <2>1. PICK V : V = Slot
    OBVIOUS
  <2>2. PICK D : D = DOMAIN placed
    OBVIOUS
  <2>3. was \in Seq(V) /\ D \in SUBSET DOMAIN was /\ DOMAIN placed = D
    BY <1>18, <1>21, <2>1, <2>2
  <2> QED
    BY <1>6, <1>18, <1>21, <2>1, <2>3, ArrangeVector
<1>23. IsWritten(pos2, pos, d.posIndex, vec)
  <2>1. PICK q : q = d.posIndex
    OBVIOUS
  <2>2. q \in DOMAIN pos /\ was = pos[q] /\ pos2 = [pos EXCEPT ![q] = vec]
    BY <1>9, <1>12, <1>15, <1>17, <2>1
  <2> QED
    BY <1>17, <1>22, <2>1, <2>2, WrittenIs
<1>24. /\ HeapChanged(j)
       /\ Heaps(pos2, sizes2, next)
       /\ PageCopied(d, p, sizes, sizes2)
  BY <1>1, <1>2, <1>9, <1>10, <1>12, <1>13, <1>14, <1>15, <1>16, <1>17, <1>23, WriteHeap
<1>25. /\ c \in Dimensions
       /\ c.elementList = p
       /\ c.idsMap = d.idsMap /\ c.namesMap = d.namesMap
       /\ Sound(c, pos2, sizes2, next)
       /\ Aligned(c, pos2[c.posIndex])
       /\ NamesLead(d) => NamesLead(c)
  <2>1. d.posIndex \in DOMAIN pos2 /\ pos2[d.posIndex] = vec
    BY <1>17, <1>23 DEF IsWritten
  <2> QED
    BY <1>7, <1>8, <1>11, <1>17, <1>22, <1>24, <2>1, MoveBulkSound
<1>26. Made(j, c)
  BY <1>1, <1>2, <1>9, <1>14, <1>15, <1>16, <1>25
     DEF Made, AlignedNow, KeepsIds, KeepsBoth
<1>27. ~Pessimistic(j)
  BY <1>9 DEF Pessimistic
<1> QED
  BY <1>10, <1>24, <1>26, <1>27 DEF Makes

(* Elements are deleted from a copy of the latest dimension.               *)
IsDestroyed(j, c) ==
  /\ c \in Dimensions
  /\ c.elementList = New(j)
  /\ Sound(c, positions', pageSize', nextId')
  /\ Aligned(c, positions'[c.posIndex])
  /\ NamesLead(latest) => NamesLead(c)

LEMMA DeletingMakes ==
  ASSUME Inv, NEW j \in Job, Changing(j), request[j].op \in {"destroy", "destroy_bulk"},
         AllocateDeleted(latest, New(j), request[j].ids),
         NEW c, c = DeleteElements(latest, New(j), positions[latest.posIndex], request[j].ids)
  PROVE  HeapChanged(j) /\ IsDestroyed(j, c)
<1>1. PICK d : d = latest
  OBVIOUS
<1>2. PICK p : p = New(j)
  OBVIOUS
<1>3. PICK ids : ids = request[j].ids
  OBVIOUS
<1>4. PICK was : was = positions[d.posIndex]
  OBVIOUS
<1>5. TypeInv /\ HeapInv
  BY DEF Inv
<1>6. p \in Pointer
  BY <1>2, <1>5, NewIsFresh
<1>7. ids \in Seq(Id) /\ IsInjective(ids)
  BY <1>3, <1>5, RequestIs DEF TypeInv
<1>8. PICK pos : pos = positions
  OBVIOUS
<1>9. PICK sizes : sizes = pageSize
  OBVIOUS
<1>10. PICK next : next = nextId
  OBVIOUS
<1>11. PICK pos2 : pos2 = positions'
  OBVIOUS
<1>12. PICK sizes2 : sizes2 = pageSize'
  OBVIOUS
<1>13. /\ d \in Dimensions /\ Heaps(pos, sizes, next) /\ Sound(d, pos, sizes, next)
       /\ d.posIndex \in DOMAIN pos /\ was = pos[d.posIndex] /\ was \in Seq(Slot)
       /\ Lists(d, was) /\ IdsLead(d)
  BY <1>1, <1>4, <1>8, <1>9, <1>10, LatestIs
<1>14. PICK vec : vec = Compact(was, SlotsOf(d, ids))
  OBVIOUS
<1>15. /\ positions' = Allocate(positions, p, vec)
       /\ pageSize' = CopyPage(d, p) /\ nextId' = nextId
  BY <1>1, <1>2, <1>3, <1>4, <1>14 DEF AllocateDeleted
<1>16. vec \in Seq(Slot)
  <2>1. IsInjective(was)
    BY <1>13 DEF Lists
  <2>2. PICK S : S = SlotsOf(d, ids)
    OBVIOUS
  <2> QED
    BY <1>13, <1>14, <2>1, <2>2, CompactIs
<1>17. /\ HeapChanged(j)
       /\ Heaps(pos2, sizes2, next)
       /\ PageCopied(d, p, sizes, sizes2)
  BY <1>1, <1>2, <1>9, <1>10, <1>11, <1>12, <1>15, <1>16, CopyHeap
<1>18. IsDeleted(c, d, p, was, ids)
  <2>1. c = DeleteElements(d, p, was, ids)
    BY <1>1, <1>2, <1>3, <1>4
  <2> QED
    BY <1>6, <1>7, <1>13, <2>1, DeleteIs
<1>19. /\ Sound(c, pos2, sizes2, next)
       /\ Aligned(c, pos2[c.posIndex])
       /\ NamesLead(d) => NamesLead(c)
  <2>1. p \in DOMAIN pos2 /\ pos2[p] = Compact(pos[d.posIndex], SlotsOf(d, ids))
    BY <1>8, <1>11, <1>13, <1>14, <1>15 DEF Allocate
  <2>2. IsDeleted(c, d, p, pos[d.posIndex], ids)
    BY <1>13, <1>18, SMTT(30)
  <2> QED
    BY <1>6, <1>7, <1>13, <1>17, <2>1, <2>2, DeleteSound
<1>20. c \in Dimensions /\ c.elementList = p
  BY <1>18 DEF IsDeleted
<1> QED
  BY <1>1, <1>2, <1>10, <1>11, <1>12, <1>15, <1>17, <1>19, <1>20 DEF IsDestroyed

LEMMA DestroyMakes ==
  ASSUME Inv, NEW j \in Job, Destroy(j)
  PROVE  Makes(j)
<1>1. PICK c : c = mine'[j]
  OBVIOUS
<1>2. PICK op \in {"destroy", "destroy_bulk"} : op = request[j].op
  BY DEF Destroy
<1>3. CASE Pessimistic(j)
  <2>1. Works(j, op, latest) /\ UNCHANGED heap
    BY <1>2, <1>3 DEF Destroy
  <2>2. c = latest /\ TypeInv
    BY <1>1, <2>1, WorksIs DEF Inv
  <2>3. HeapChanged(j) /\ HeapGivenBack
    BY <2>1, <2>2, HeapIsUnchanged
  <2>4. latest \in Dimensions /\ Sound(latest, positions, pageSize, nextId)
    BY LatestIs
  <2>5. positions' = positions /\ pageSize' = pageSize /\ nextId' = nextId
    BY <2>1 DEF heap
  <2>6. Made(j, c)
    BY <1>2, <1>3, <2>2, <2>4, <2>5 DEF Made, AlignedNow
  <2> QED
    BY <1>1, <2>3, <2>6 DEF Makes
<1>4. CASE ~Pessimistic(j)
  <2>1. PICK e : e = DeleteElements(latest, New(j), positions[latest.posIndex], request[j].ids)
    OBVIOUS
  <2>2. Works(j, op, e) /\ AllocateDeleted(latest, New(j), request[j].ids)
    BY <1>2, <1>4, <2>1 DEF Destroy
  <2>3. c = e /\ Changing(j)
    BY <1>1, <2>2, WorksIs DEF Inv
  <2>4. HeapChanged(j) /\ IsDestroyed(j, e)
    BY <1>2, <2>1, <2>2, <2>3, DeletingMakes
  <2>5. Made(j, c)
    BY <1>2, <2>3, <2>4 DEF Made, IsDestroyed, KeepsIds, KeepsBoth
  <2> QED
    BY <1>1, <1>4, <2>4, <2>5 DEF Makes
<1> QED
  BY <1>3, <1>4

LEMMA ClearMakes ==
  ASSUME Inv, NEW j \in Job, Clear(j)
  PROVE  Makes(j)
<1>1. PICK d : d = latest
  OBVIOUS
<1>2. PICK p : p = New(j)
  OBVIOUS
<1>3. PICK c : c = ClearElements(d, p)
  OBVIOUS
<1>4. /\ request[j].op = "clear"
      /\ Works(j, "clear", c)
      /\ positions' = Allocate(positions, p, <<>>)
      /\ nextId' = Allocate(nextId, p, 0)
      /\ pageSize' = pageSize
  BY <1>1, <1>2, <1>3 DEF Clear, Works
<1>5. mine'[j] = c /\ Changing(j) /\ TypeInv /\ HeapInv
  BY <1>4, WorksIs DEF Inv
<1>6. p \in Pointer /\ p \notin DOMAIN positions /\ p \notin DOMAIN nextId
  BY <1>2, <1>5, NewIsFresh
<1>7. PICK pos : pos = positions
  OBVIOUS
<1>8. PICK next : next = nextId
  OBVIOUS
<1>9. PICK pos2 : pos2 = positions'
  OBVIOUS
<1>10. PICK sizes2 : sizes2 = pageSize'
  OBVIOUS
<1>11. PICK next2 : next2 = nextId'
  OBVIOUS
<1>12. /\ d \in Dimensions /\ Holds(next, Nat) /\ Holds(pos, Seq(Slot))
       /\ pageSize \in [DOMAIN pageSize -> Nat]
  BY <1>1, <1>7, <1>8, LatestIs DEF Holds
<1>13. /\ Kept(pos, pos2)
       /\ DOMAIN pos2 = DOMAIN pos \union {p}
       /\ pos2[p] = <<>>
       /\ Holds(pos2, Seq(Slot))
  <2>1. PICK V : V = Seq(Slot)
    OBVIOUS
  <2>0. <<>> \in Seq(Slot)
    OBVIOUS
  <2>2. PICK v \in V : v = <<>>
    BY <2>0, <2>1
  <2>3. pos2 = Allocate(pos, p, v) /\ p \notin DOMAIN pos /\ Holds(pos, V)
    BY <1>4, <1>6, <1>7, <1>9, <1>12, <2>1, <2>2
  <2>4. IsAllocated(pos2, pos, p, v, V)
    BY <2>3, AllocateKeeps
  <2> QED
    BY <2>1, <2>2, <2>4 DEF IsAllocated
<1>14. /\ Kept(next, next2)
       /\ DOMAIN next2 = DOMAIN next \union {p}
       /\ Holds(next2, Nat)
  <2>1. next2 = Allocate(next, p, 0) /\ p \notin DOMAIN next /\ 0 \in Nat
    BY <1>4, <1>6, <1>8, <1>11
  <2>2. IsAllocated(next2, next, p, 0, Nat)
    BY <1>12, <2>1, AllocateKeeps
  <2> QED
    BY <2>2 DEF IsAllocated
<1>15. HeapChanged(j)
  <2>1. Heaps(pos2, sizes2, next2)
    BY <1>4, <1>10, <1>12, <1>13, <1>14 DEF Heaps, Holds
  <2>2. Kept(pageSize, pageSize')
    BY <1>4, SameIsKept
  <2>3. pageSize' = pageSize
    BY <1>4
  <2> QED
    BY <1>2, <1>5, <1>7, <1>8, <1>9, <1>10, <1>11, <1>13, <1>14, <2>1, <2>2, <2>3, HeapAllocated
<1>16. /\ c \in Dimensions
       /\ c.elementList = p
       /\ Sound(c, pos2, sizes2, next2)
       /\ Aligned(c, pos2[c.posIndex])
       /\ NamesLead(c)
  <2>1. p \in DOMAIN pos2 /\ p \in DOMAIN next2
    BY <1>13, <1>14
  <2> QED
    BY <1>3, <1>6, <1>12, <1>13, <2>1, ClearSound
<1>17. Made(j, c)
  BY <1>2, <1>4, <1>9, <1>10, <1>11, <1>16 DEF Made, KeepsIds, KeepsBoth
<1>18. ~Pessimistic(j)
  BY <1>4 DEF Pessimistic
<1> QED
  BY <1>5, <1>15, <1>17, <1>18 DEF Makes

(* A dimension is sound that differs in its name or in pointers only.      *)
LEMMA SameSound ==
  ASSUME NEW d, NEW c, Same(d, c), NEW pos, NEW sizes, NEW next
  PROVE  /\ Sound(d, pos, sizes, next) => Sound(c, pos, sizes, next)
         /\ Aligned(d, pos[d.posIndex]) => Aligned(c, pos[c.posIndex])
         /\ c.namesMap = d.namesMap => (NamesLead(d) => NamesLead(c))
<1>1. /\ c.page = d.page /\ c.free = d.free /\ c.holder = d.holder /\ c.slots = d.slots
      /\ c.idsMap = d.idsMap /\ c.posIndex = d.posIndex
  BY DEF Same
<1>2. Lists(d, pos[d.posIndex]) => Lists(c, pos[c.posIndex])
  BY <1>1 DEF Lists
<1>3. IdsLead(d) => IdsLead(c)
  BY <1>1 DEF IdsLead
<1>4. SlotsApart(d, sizes) => SlotsApart(c, sizes)
  BY <1>1 DEF SlotsApart
<1>5. IdsBelow(d, next) => IdsBelow(c, next)
  BY <1>1 DEF IdsBelow
<1>6. Sound(d, pos, sizes, next) => Sound(c, pos, sizes, next)
  BY <1>1, <1>2, <1>3, <1>4, <1>5 DEF Sound
<1>7. Aligned(d, pos[d.posIndex]) => Aligned(c, pos[c.posIndex])
  BY <1>1 DEF Aligned
<1>8. c.namesMap = d.namesMap => (NamesLead(d) => NamesLead(c))
  BY <1>1 DEF NamesLead
<1> QED
  BY <1>6, <1>7, <1>8

LEMMA NamedIs ==
  ASSUME NEW d \in Dimensions, NEW name \in Name, NEW c, c = [d EXCEPT !.name = name]
  PROVE  /\ c \in Dimensions
         /\ SameParts(d, c) /\ Same(d, c) /\ c.namesMap = d.namesMap
<1>1. c \in Dimensions
  BY DEF Dimensions
<1>2. /\ c.elementList = d.elementList /\ c.page = d.page /\ c.free = d.free
      /\ c.holder = d.holder /\ c.slots = d.slots /\ c.ids = d.ids /\ c.idsMap = d.idsMap
      /\ c.names = d.names /\ c.namesMap = d.namesMap /\ c.posIndex = d.posIndex
  BY DEF Dimensions
<1> QED
  BY <1>1, <1>2 DEF SameParts, Same

LEMMA RenameDimensionMakes ==
  ASSUME Inv, NEW j \in Job, RenameDimension(j)
  PROVE  Makes(j)
<1>1. PICK d : d = latest
  OBVIOUS
<1>2. PICK name : name = request[j].name
  OBVIOUS
<1>3. PICK c : c = [d EXCEPT !.name = name]
  OBVIOUS
<1>4. /\ request[j].op = "rename_dimension"
      /\ Works(j, "rename_dimension", c)
      /\ UNCHANGED heap
  BY <1>1, <1>2, <1>3 DEF RenameDimension
<1>5. mine'[j] = c /\ TypeInv
  BY <1>4, WorksIs DEF Inv
<1>6. name \in Name
  BY <1>2, <1>4, <1>5, RequestIs DEF TypeInv
<1>7. HeapChanged(j)
  BY <1>4, <1>5, HeapIsUnchanged
<1>8. positions' = positions /\ pageSize' = pageSize /\ nextId' = nextId
  BY <1>4 DEF heap
<1>9. /\ c \in Dimensions
      /\ SameParts(d, c)
      /\ c.idsMap = d.idsMap /\ c.namesMap = d.namesMap
      /\ Sound(c, positions, pageSize, nextId)
      /\ Aligned(d, positions[d.posIndex]) => Aligned(c, positions[c.posIndex])
      /\ NamesLead(d) => NamesLead(c)
  <2>1. d \in Dimensions /\ Sound(d, positions, pageSize, nextId)
    BY <1>1, LatestIs
  <2>2. /\ c \in Dimensions
        /\ SameParts(d, c) /\ Same(d, c) /\ c.namesMap = d.namesMap
    BY <1>3, <1>6, <2>1, NamedIs
  <2> QED
    BY <2>1, <2>2, SameSound DEF Same
<1>10. Made(j, c)
  BY <1>1, <1>4, <1>8, <1>9 DEF Made, AlignedNow
<1>11. ~Pessimistic(j)
  BY <1>4 DEF Pessimistic
<1> QED
  BY <1>5, <1>7, <1>10, <1>11 DEF Makes

(* A step that changes the job's copy.                                     *)
LEMMA ChangeMakes ==
  ASSUME Inv, NEW j \in Job, Change(j)
  PROVE  Makes(j) /\ \E op, c : Works(j, op, c)
<1>1. CASE Create(j)
  <2>1. Makes(j)
    BY <1>1, CreateMakes
  <2> QED
    BY <1>1, <2>1 DEF Create
<1>2. CASE Rename(j)
  <2>1. Makes(j)
    BY <1>2, RenameMakes
  <2> QED
    BY <1>2, <2>1, SMTT(30) DEF Rename
<1>3. CASE Move(j)
  <2>1. Makes(j)
    BY <1>3, MoveMakes
  <2> QED
    BY <1>3, <2>1, Zenon DEF Move
<1>4. CASE MoveBulk(j)
  <2>1. Makes(j)
    BY <1>4, MoveBulkMakes
  <2> QED
    BY <1>4, <2>1 DEF MoveBulk
<1>5. CASE Destroy(j)
  <2>1. Makes(j)
    BY <1>5, DestroyMakes
  <2> QED
    BY <1>5, <2>1 DEF Destroy
<1>6. CASE Clear(j)
  <2>1. Makes(j)
    BY <1>6, ClearMakes
  <2> QED
    BY <1>6, <2>1 DEF Clear
<1>7. CASE RenameDimension(j)
  <2>1. Makes(j)
    BY <1>7, RenameDimensionMakes
  <2> QED
    BY <1>7, <2>1 DEF RenameDimension
<1> QED
  BY <1>1, <1>2, <1>3, <1>4, <1>5, <1>6, <1>7 DEF Change

(***************************************************************************)
(* What is given out, and what a merge publishes.                          *)
(***************************************************************************)

(* A step that ends a try of job j, or all of them.                        *)
Ends(j) ==
  /\ pc[j] \in {"start", "working"}
  /\ UNCHANGED request
  /\ \/ /\ commitTry' = commitTry
        /\ pc' = [pc EXCEPT ![j] = "done"] \/ pc' = [pc EXCEPT ![j] = "failed"]
     \/ /\ commitTry' = [commitTry EXCEPT ![j] = @ + 1]
        /\ pc' = [pc EXCEPT ![j] = "start"] \/ pc' = [pc EXCEPT ![j] = "failed"]

LEMMA EndsIs ==
  ASSUME TypeInv, NEW j \in Job, Ends(j)
  PROVE  /\ \A k \in Job : k # j => commitTry'[k] = commitTry[k] /\ pc'[k] = pc[k]
         /\ \/ commitTry'[j] = commitTry[j] /\ pc'[j] \in {"done", "failed"}
            \/ commitTry'[j] = commitTry[j] + 1 /\ pc'[j] \in {"start", "failed"}
         /\ pc' \in [Job -> {"start", "working", "done", "failed"}]
         /\ commitTry' \in [Job -> Nat]
<1>1. /\ pc \in [Job -> {"start", "working", "done", "failed"}]
      /\ commitTry \in [Job -> Nat]
  BY DEF TypeInv
<1>2. CASE commitTry' = commitTry
           /\ (pc' = [pc EXCEPT ![j] = "done"] \/ pc' = [pc EXCEPT ![j] = "failed"])
  BY <1>1, <1>2
<1>3. CASE commitTry' = [commitTry EXCEPT ![j] = @ + 1]
           /\ (pc' = [pc EXCEPT ![j] = "start"] \/ pc' = [pc EXCEPT ![j] = "failed"])
  <2>1. /\ commitTry'[j] = commitTry[j] + 1
        /\ commitTry[j] \in Nat
        /\ \A k \in Job : k # j => commitTry'[k] = commitTry[k]
    BY <1>1, <1>3
  <2>2. commitTry' \in [Job -> Nat]
    BY <1>1, <1>3
  <2>3. /\ pc'[j] \in {"start", "failed"}
        /\ \A k \in Job : k # j => pc'[k] = pc[k]
        /\ pc' \in [Job -> {"start", "working", "done", "failed"}]
    BY <1>1, <1>3
  <2> QED
    BY <2>1, <2>2, <2>3
<1> QED
  BY <1>2, <1>3 DEF Ends

(* Nothing that was given out is taken back.                               *)
LEMMA EndsGives ==
  ASSUME TypeInv, NEW j \in Job, Ends(j)
  PROVE  /\ \A p : Given(p, commitTry, pc) => Given(p, commitTry', pc')
         /\ Given(New(j), commitTry', pc')
         /\ \A p : Allocated(p) => Allocated(p)'
<1>1. /\ \A k \in Job : k # j => commitTry'[k] = commitTry[k] /\ pc'[k] = pc[k]
      /\ \/ commitTry'[j] = commitTry[j] /\ pc'[j] \in {"done", "failed"}
         \/ commitTry'[j] = commitTry[j] + 1 /\ pc'[j] \in {"start", "failed"}
      /\ \A k \in Job : commitTry[k] \in Nat
      /\ pc[j] \in {"start", "working"}
      /\ request' = request
  BY EndsIs DEF TypeInv, Ends
<1>2. ASSUME NEW p, Given(p, commitTry, pc)
      PROVE  Given(p, commitTry', pc')
  <2>1. CASE p = <<NoJob, 0>>
    BY <1>2, <2>1 DEF Given
  <2>2. CASE p # <<NoJob, 0>>
    <3>1. PICK k \in Job : /\ p[1] = k
                           /\ \/ p[2] < commitTry[k]
                              \/ p[2] = commitTry[k] /\ pc[k] \notin {"start", "working"}
      BY <1>2, <2>2 DEF Given
    <3>2. CASE k = j
      <4>1. PICK n : n = p[2]
        OBVIOUS
      <4>2. n < commitTry[j]
        BY <1>1, <3>1, <3>2, <4>1
      <4>3. PICK t \in Nat : t = commitTry[j]
        BY <1>1
      <4>4. PICK u : u = commitTry'[j]
        OBVIOUS
      <4>5. n \in Nat
        BY <1>2, <2>2, <4>1 DEF Given, Pointer
      <4>6. u = t \/ u = t + 1
        BY <1>1, <4>3, <4>4
      <4>7. n < u
        BY <4>2, <4>3, <4>5, <4>6
      <4> QED
        BY <1>2, <3>1, <3>2, <4>1, <4>4, <4>7 DEF Given
    <3>3. CASE k # j
      BY <1>1, <1>2, <3>1, <3>3 DEF Given
    <3> QED
      BY <3>2, <3>3
  <2> QED
    BY <2>1, <2>2
<1>3. Given(New(j), commitTry', pc')
  <2>1. New(j)[1] = j /\ New(j)[2] = commitTry[j]
    BY DEF New
  <2>2. \/ New(j)[2] = commitTry'[j] /\ pc'[j] \notin {"start", "working"}
        \/ New(j)[2] < commitTry'[j]
    BY <1>1, <2>1
  <2>3. New(j) \in Pointer
    BY <1>1 DEF New, Pointer
  <2> QED
    BY <2>1, <2>2, <2>3 DEF Given
<1>4. ASSUME NEW p, Allocated(p)
      PROVE  Allocated(p)'
  <2>1. CASE Given(p, commitTry, pc)
    BY <1>2, <2>1 DEF Allocated
  <2>2. CASE \E k \in Job : p = New(k) /\ pc[k] = "working" /\ ~Pessimistic(k)
    <3>1. PICK k \in Job : p = New(k) /\ pc[k] = "working" /\ ~Pessimistic(k)
      BY <2>2
    <3>2. CASE k = j
      BY <1>3, <3>1, <3>2 DEF Allocated
    <3>3. CASE k # j
      <4>1. commitTry'[k] = commitTry[k] /\ pc'[k] = pc[k]
        BY <1>1, <3>3
      <4>2. p = New(k)'
        BY <3>1, <4>1 DEF New
      <4>3. ~Pessimistic(k)'
        BY <1>1, <3>1, <4>1 DEF Pessimistic
      <4> QED
        BY <3>1, <4>1, <4>2, <4>3 DEF Allocated
    <3> QED
      BY <3>2, <3>3
  <2> QED
    BY <1>4, <2>1, <2>2 DEF Allocated
<1> QED
  BY <1>2, <1>3, <1>4

(* What Dimension::merge makes after a change of the elements: the copy    *)
(* of the job, but for the name.                                           *)
LEMMA MergedElements ==
  ASSUME Inv, NEW j \in Job, Merge(j), request[j].op # "rename_dimension",
         NEW m, m = Merged(j)
  PROVE  /\ m \in Dimensions
         /\ Same(mine[j], m) /\ m.namesMap = mine[j].namesMap
         /\ m.elementList = New(j)
<1>1. PICK c : c = mine[j]
  OBVIOUS
<1>2. PICK o : o = old[j]
  OBVIOUS
<1>3. PICK d : d = latest
  OBVIOUS
<1>4. TypeInv /\ ListInv /\ MapsApart(request)
  BY DEF Inv
<1>5. c \in Dimensions /\ o \in Dimensions /\ d \in Dimensions
  BY <1>1, <1>2, <1>3, <1>4 DEF TypeInv
<1>6. pc[j] = "working" /\ ~Pessimistic(j) /\ ~Conflict(j)
  BY DEF Merge
<1>7. c.elementList = New(j) /\ Given(o.elementList, commitTry, pc)
  BY <1>1, <1>2, <1>4, <1>6 DEF ListInv, OfRequest
<1>8. ~Given(New(j), commitTry, pc)
  BY <1>4, <1>6, NewNotGiven
<1>9. c.elementList # o.elementList
  BY <1>7, <1>8
<1>10. Changed("elementList", j)
  BY <1>1, <1>2, <1>9 DEF Changed
<1>11. d.elementList = o.elementList
  BY <1>2, <1>3, <1>6, <1>10 DEF Conflict
<1>12. d.posIndex = o.posIndex
  BY <1>2, <1>3, <1>4, <1>6, <1>11 DEF ListInv, OfRequest, Same
<1>13. PICK name : name = IF Changed("name", j) THEN c.name ELSE d.name
  OBVIOUS
<1>14. PICK posIndex : posIndex = IF Changed("posIndex", j) THEN c.posIndex ELSE d.posIndex
  OBVIOUS
<1>15. posIndex = c.posIndex
  BY <1>1, <1>2, <1>12, <1>14 DEF Changed
<1>16. m = [name |-> name,
            elementList |-> c.elementList, page |-> c.page, free |-> c.free,
            holder |-> c.holder, slots |-> c.slots,
            ids |-> c.ids, idsMap |-> c.idsMap,
            names |-> c.names, namesMap |-> c.namesMap,
            posIndex |-> posIndex]
  BY <1>1, <1>3, <1>10, <1>13, <1>14 DEF Merged
<1>17. name \in Name /\ posIndex \in Pointer
  BY <1>5, <1>13, <1>15 DEF Dimensions
<1>18. m \in Dimensions
  BY <1>5, <1>16, <1>17 DEF Dimensions
<1> QED
  BY <1>1, <1>7, <1>15, <1>16, <1>18 DEF Same

(* What it makes after a rename of the dimension: the latest dimension,    *)
(* with the name and the pointers of the maps that the job has.            *)
LEMMA MergedName ==
  ASSUME Inv, NEW j \in Job, Merge(j), request[j].op = "rename_dimension",
         NEW m, m = Merged(j)
  PROVE  /\ m \in Dimensions
         /\ Same(latest, m)
         /\ m.elementList = latest.elementList
         /\ m.ids = mine[j].ids /\ m.names = mine[j].names
         /\ NamesApart(request) => m.namesMap = latest.namesMap
<1>1. PICK c : c = mine[j]
  OBVIOUS
<1>2. PICK o : o = old[j]
  OBVIOUS
<1>3. PICK d : d = latest
  OBVIOUS
<1>4. TypeInv /\ RenamesInv /\ MapsInv
  BY DEF Inv
<1>5. c \in Dimensions /\ d \in Dimensions
  BY <1>1, <1>3, <1>4 DEF TypeInv
<1>6. c.elementList = o.elementList /\ c.posIndex = o.posIndex
  BY <1>1, <1>2, <1>4 DEF RenamesInv
<1>7. ~Changed("elementList", j) /\ ~Changed("posIndex", j)
  BY <1>1, <1>2, <1>6 DEF Changed
<1>8. PICK name : name = IF Changed("name", j) THEN c.name ELSE d.name
  OBVIOUS
<1>9. m = [name |-> name,
           elementList |-> d.elementList, page |-> d.page, free |-> d.free,
           holder |-> d.holder, slots |-> d.slots,
           ids |-> c.ids, idsMap |-> c.idsMap,
           names |-> c.names, namesMap |-> c.namesMap,
           posIndex |-> d.posIndex]
  BY <1>1, <1>3, <1>7, <1>8 DEF Merged
<1>10. name \in Name
  BY <1>5, <1>8 DEF Dimensions
<1>11. m \in Dimensions
  BY <1>5, <1>9, <1>10 DEF Dimensions
<1>12. Asks(request, "rename_dimension")
  BY DEF Asks
<1>13. c.idsMap = d.idsMap /\ (NamesApart(request) => c.namesMap = d.namesMap)
  BY <1>1, <1>3, <1>4, <1>12 DEF MapsInv
<1> QED
  BY <1>1, <1>3, <1>9, <1>11, <1>13 DEF Same

(***************************************************************************)
(* A job changes its copy.                                                 *)
(***************************************************************************)

(* What the others have stays sound.                                       *)
LEMMA OthersKept ==
  ASSUME TypeInv, NEW j \in Job, HeapChanged(j), NEW d \in Dimensions, SoundNow(d)
  PROVE  /\ Sound(d, positions', pageSize', nextId')
         /\ request[j].op # "move_bulk" /\ AlignedNow(d) => Aligned(d, positions'[d.posIndex])
<1>1. Heaps(positions, pageSize, nextId) /\ Sound(d, positions, pageSize, nextId)
  BY DEF TypeInv, SoundNow
<1>2. /\ Heaps(positions', pageSize', nextId')
      /\ Rearranged(positions, positions')
      /\ Grown(pageSize, pageSize') /\ Grown(nextId, nextId')
      /\ request[j].op # "move_bulk" => Kept(positions, positions')
  BY DEF HeapChanged
<1>3. Sound(d, positions', pageSize', nextId')
  BY <1>1, <1>2, HeapKeepsSound
<1>4. d.posIndex \in DOMAIN positions
  BY <1>1 DEF Sound
<1>5. Kept(positions, positions') => positions'[d.posIndex] = positions[d.posIndex]
  BY <1>4 DEF Kept
<1> QED
  BY <1>2, <1>3, <1>5 DEF AlignedNow

LEMMA WorksChanges ==
  ASSUME TypeInv, NEW j \in Job, NEW op, NEW c, Works(j, op, c)
  PROVE  /\ old'[j] = latest /\ mine'[j] = c /\ pc[j] = "start" /\ pc'[j] = "working"
         /\ \A k \in Job : k # j => old'[k] = old[k] /\ mine'[k] = mine[k] /\ pc'[k] = pc[k]
         /\ request' = request /\ latest' = latest /\ commitTry' = commitTry /\ used' = used
         /\ pc' \in [Job -> {"start", "working", "done", "failed"}]
         /\ old' \in [Job -> Dimensions]
         /\ c \in Dimensions => mine' \in [Job -> Dimensions]
BY DEF Works, TypeInv

LEMMA WorksGives ==
  ASSUME TypeInv, NEW j \in Job, NEW op, NEW c, Works(j, op, c)
  PROVE  /\ \A p : Given(p, commitTry, pc) => Given(p, commitTry', pc')
         /\ \A p : p = New(j) /\ ~Pessimistic(j) => Allocated(p)'
         /\ \A p : Allocated(p) => Allocated(p)'
         /\ \A k \in Job : New(k)' = New(k) /\ Pessimistic(k)' = Pessimistic(k)
<1>1. /\ pc[j] = "start" /\ pc'[j] = "working"
      /\ \A k \in Job : k # j => pc'[k] = pc[k]
      /\ request' = request /\ commitTry' = commitTry
  BY WorksChanges
<1>2. ASSUME NEW p, Given(p, commitTry, pc)
      PROVE  Given(p, commitTry', pc')
  <2>1. p \in Pointer
    BY <1>2 DEF Given
  <2>2. ASSUME p # <<NoJob, 0>>
        PROVE  \E k \in Job : /\ p[1] = k
                              /\ \/ p[2] < commitTry'[k]
                                 \/ p[2] = commitTry'[k] /\ pc'[k] \notin {"start", "working"}
    <3>1. PICK k \in Job : /\ p[1] = k
                           /\ \/ p[2] < commitTry[k]
                              \/ p[2] = commitTry[k] /\ pc[k] \notin {"start", "working"}
      BY <1>2, <2>2 DEF Given
    <3> QED
      BY <1>1, <3>1
  <2> QED
    BY <2>1, <2>2 DEF Given
<1>3. \A k \in Job : New(k)' = New(k) /\ Pessimistic(k)' = Pessimistic(k)
  BY <1>1 DEF New, Pessimistic
<1>4. ASSUME NEW p, p = New(j), ~Pessimistic(j)
      PROVE  Allocated(p)'
  <2>1. p = New(j)' /\ ~Pessimistic(j)' /\ pc'[j] = "working"
    BY <1>1, <1>3, <1>4
  <2> QED
    BY <2>1 DEF Allocated
<1>5. ASSUME NEW p, Allocated(p)
      PROVE  Allocated(p)'
  <2>1. CASE Given(p, commitTry, pc)
    BY <1>2, <2>1 DEF Allocated
  <2>2. CASE \E k \in Job : p = New(k) /\ pc[k] = "working" /\ ~Pessimistic(k)
    <3>1. PICK k \in Job : p = New(k) /\ pc[k] = "working" /\ ~Pessimistic(k)
      BY <2>2
    <3>2. pc'[k] = "working" /\ p = New(k)' /\ ~Pessimistic(k)'
      BY <1>1, <1>3, <3>1
    <3> QED
      BY <3>2 DEF Allocated
  <2> QED
    BY <1>5, <2>1, <2>2 DEF Allocated
<1> QED
  BY <1>2, <1>3, <1>4, <1>5

LEMMA ChangeKeepsHeap ==
  ASSUME Inv, NEW j \in Job, NEW op, NEW c, Works(j, op, c), Makes(j)
  PROVE  TypeInv' /\ HeapInv' /\ SoundInv'
<1>1. TypeInv /\ HeapInv /\ SoundInv
  BY DEF Inv
<1>2. /\ old'[j] = latest /\ mine'[j] = c
      /\ \A k \in Job : k # j => old'[k] = old[k] /\ mine'[k] = mine[k]
      /\ request' = request /\ latest' = latest /\ commitTry' = commitTry /\ used' = used
      /\ pc' \in [Job -> {"start", "working", "done", "failed"}]
      /\ old' \in [Job -> Dimensions]
      /\ c \in Dimensions => mine' \in [Job -> Dimensions]
  BY <1>1, WorksChanges
<1>3. /\ HeapChanged(j) /\ Made(j, mine'[j])
      /\ Pessimistic(j) => HeapGivenBack
  BY DEF Makes
<1>4. c \in Dimensions /\ Sound(c, positions', pageSize', nextId')
  BY <1>2, <1>3 DEF Made
<1>5. TypeInv'
  <2>1. Heaps(positions', pageSize', nextId')
    BY <1>3 DEF HeapChanged
  <2> QED
    BY <1>1, <1>2, <1>4, <2>1 DEF TypeInv
<1>6. HeapInv'
  <2>1. SUFFICES ASSUME NEW p \in DOMAIN positions' \union DOMAIN pageSize' \union DOMAIN nextId'
                 PROVE  Allocated(p)'
    BY DEF HeapInv
  <2>2. /\ \A q : Allocated(q) => Allocated(q)'
        /\ \A q : q = New(j) /\ ~Pessimistic(j) => Allocated(q)'
    BY <1>1, WorksGives
  <2>3. CASE p \in DOMAIN positions \union DOMAIN pageSize \union DOMAIN nextId
    BY <1>1, <2>2, <2>3 DEF HeapInv
  <2>4. CASE p \notin DOMAIN positions \union DOMAIN pageSize \union DOMAIN nextId
    <3>1. p = New(j)
      BY <1>3, <2>1, <2>4 DEF HeapChanged
    <3>2. ~Pessimistic(j)
      BY <1>3, <2>1, <2>4 DEF HeapGivenBack
    <3> QED
      BY <2>2, <3>1, <3>2
  <2> QED
    BY <2>3, <2>4
<1>7. SoundInv'
  <2>1. \A d \in Dimensions : SoundNow(d) => Sound(d, positions', pageSize', nextId')
    BY <1>1, <1>3, OthersKept
  <2>2. Sound(latest', positions', pageSize', nextId')
    BY <1>1, <1>2, <2>1 DEF SoundInv, TypeInv
  <2>3. ASSUME NEW k \in Job
        PROVE  /\ Sound(old'[k], positions', pageSize', nextId')
               /\ Sound(mine'[k], positions', pageSize', nextId')
    <3>1. CASE k = j
      BY <1>2, <1>4, <2>2, <3>1
    <3>2. CASE k # j
      <4>1. old'[k] = old[k] /\ mine'[k] = mine[k]
        BY <1>2, <3>2
      <4>2. /\ old[k] \in Dimensions /\ mine[k] \in Dimensions
            /\ SoundNow(old[k]) /\ SoundNow(mine[k])
        BY <1>1 DEF SoundInv, TypeInv
      <4> QED
        BY <2>1, <4>1, <4>2
    <3> QED
      BY <3>1, <3>2
  <2> QED
    BY <2>2, <2>3 DEF SoundInv, SoundNow
<1> QED
  BY <1>5, <1>6, <1>7

LEMMA ChangeKeepsParts ==
  ASSUME Inv, NEW j \in Job, NEW op, NEW c, Works(j, op, c), Makes(j)
  PROVE  ListInv' /\ RenamesInv' /\ MapsInv'
<1>1. TypeInv /\ ListInv /\ RenamesInv /\ MapsInv /\ MapsApart(request)
  BY DEF Inv
<1>2. /\ old'[j] = latest /\ mine'[j] = c /\ pc[j] = "start" /\ pc'[j] = "working"
      /\ \A k \in Job : k # j => old'[k] = old[k] /\ mine'[k] = mine[k] /\ pc'[k] = pc[k]
      /\ request' = request /\ latest' = latest /\ commitTry' = commitTry
  BY <1>1, WorksChanges
<1>3. /\ \A p : Given(p, commitTry, pc) => Given(p, commitTry', pc')
      /\ \A k \in Job : New(k)' = New(k) /\ Pessimistic(k)' = Pessimistic(k)
  BY <1>1, WorksGives
<1>4. Made(j, c)
  BY <1>2 DEF Makes
<1>5. ListInv'
  <2>2. Given(latest'.elementList, commitTry', pc')
    BY <1>1, <1>2, <1>3 DEF ListInv
  <2>3. ASSUME NEW k \in Job
        PROVE  Given(old'[k].elementList, commitTry', pc')
    <3>1. CASE k = j
      BY <1>2, <2>2, <3>1
    <3>2. CASE k # j
      BY <1>1, <1>2, <1>3, <3>2 DEF ListInv
    <3> QED
      BY <3>1, <3>2
  <2>4. ASSUME NEW k \in Job, pc'[k] = "working", OfRequest(k)'
        PROVE  /\ mine'[k].elementList = New(k)'
               /\ latest'.elementList = old'[k].elementList =>
                    /\ Same(old'[k], latest')
                    /\ NamesApart(request) => latest'.namesMap = old'[k].namesMap
    <3>1. OfRequest(k)
      BY <1>2, <1>3, <2>4 DEF OfRequest
    <3>2. CASE k = j
      <4>1. c.elementList = New(j)
        BY <1>4, <3>1, <3>2 DEF Made, OfRequest
      <4>2. Same(latest, latest)
        BY DEF Same
      <4> QED
        BY <1>2, <1>3, <3>2, <4>1, <4>2
    <3>3. CASE k # j
      <4>1. old'[k] = old[k] /\ mine'[k] = mine[k] /\ pc[k] = "working"
        BY <1>2, <2>4, <3>3
      <4>2. /\ mine[k].elementList = New(k)
            /\ latest.elementList = old[k].elementList =>
                 /\ Same(old[k], latest)
                 /\ NamesApart(request) => latest.namesMap = old[k].namesMap
        BY <1>1, <3>1, <4>1 DEF ListInv
      <4> QED
        BY <1>2, <1>3, <4>1, <4>2
    <3> QED
      BY <3>2, <3>3
  <2> QED
    BY <1>2, <2>2, <2>3, <2>4 DEF ListInv
<1>6. RenamesInv'
  <2>1. SUFFICES ASSUME NEW k \in Job, request[k].op = "rename_dimension"
                 PROVE  /\ mine'[k].elementList = old'[k].elementList
                        /\ mine'[k].posIndex = old'[k].posIndex
    BY <1>2 DEF RenamesInv
  <2>2. CASE k = j
    BY <1>2, <1>4, <2>1, <2>2 DEF Made, SameParts
  <2>3. CASE k # j
    BY <1>1, <1>2, <2>1, <2>3 DEF RenamesInv
  <2> QED
    BY <2>2, <2>3
<1>7. MapsInv'
  <2>1. SUFFICES ASSUME Asks(request, "rename_dimension"), NEW k \in Job
                 PROVE  /\ mine'[k].idsMap = latest.idsMap
                        /\ NamesApart(request) => mine'[k].namesMap = latest.namesMap
    BY <1>2 DEF MapsInv
  <2>2. CASE k = j
    <3>1. request[j].op \in KeepsIds
      BY <1>1, <2>1 DEF MapsApart
    <3>2. NamesApart(request) => request[j].op \in KeepsBoth
      BY <2>1 DEF NamesApart
    <3>3. c.idsMap = latest.idsMap /\ (NamesApart(request) => c.namesMap = latest.namesMap)
      BY <1>4, <3>1, <3>2 DEF Made
    <3> QED
      BY <1>2, <2>2, <3>3
  <2>3. CASE k # j
    BY <1>1, <1>2, <2>1, <2>3 DEF MapsInv
  <2> QED
    BY <2>2, <2>3
<1> QED
  BY <1>5, <1>6, <1>7

LEMMA ChangeKeepsOrder ==
  ASSUME Inv, NEW j \in Job, NEW op, NEW c, Works(j, op, c), Makes(j)
  PROVE  AlignInv' /\ NamesInv' /\ BulkInv'
<1>1. TypeInv /\ SoundInv /\ AlignInv /\ NamesInv /\ BulkInv
  BY DEF Inv
<1>2. /\ old'[j] = latest /\ mine'[j] = c /\ pc[j] = "start" /\ pc'[j] = "working"
      /\ \A k \in Job : k # j => old'[k] = old[k] /\ mine'[k] = mine[k] /\ pc'[k] = pc[k]
      /\ request' = request /\ latest' = latest /\ commitTry' = commitTry
  BY <1>1, WorksChanges
<1>3. HeapChanged(j) /\ Made(j, c)
  BY <1>2 DEF Makes
<1>4. /\ AlignedNow(latest) \/ request[j].op = "move_bulk" => Aligned(c, positions'[c.posIndex])
      /\ NamesLead(latest) => NamesLead(c)
      /\ request[j].op = "rename_dimension" => SameParts(latest, c)
  BY <1>3 DEF Made
<1>5. \A d \in Dimensions : SoundNow(d) /\ request[j].op # "move_bulk" /\ AlignedNow(d)
                              => Aligned(d, positions'[d.posIndex])
  BY <1>1, <1>3, OthersKept
<1>6. /\ latest \in Dimensions /\ SoundNow(latest)
      /\ \A k \in Job : mine[k] \in Dimensions /\ SoundNow(mine[k])
  BY <1>1 DEF TypeInv, SoundInv
<1>7. AlignInv'
  <2>1. SUFFICES ASSUME ~Asks(request, "move_bulk")
                 PROVE  /\ Aligned(latest', positions'[latest'.posIndex])
                        /\ \A k \in Job : Aligned(mine'[k], positions'[mine'[k].posIndex])
    BY <1>2 DEF AlignInv, AlignedNow
  <2>2. request[j].op # "move_bulk"
    BY <2>1 DEF Asks
  <2>3. AlignedNow(latest) /\ \A k \in Job : AlignedNow(mine[k])
    BY <1>1, <2>1 DEF AlignInv
  <2>4. Aligned(latest', positions'[latest'.posIndex])
    BY <1>2, <1>5, <1>6, <2>2, <2>3
  <2>5. ASSUME NEW k \in Job
        PROVE  Aligned(mine'[k], positions'[mine'[k].posIndex])
    <3>1. CASE k = j
      BY <1>2, <1>4, <2>3, <3>1
    <3>2. CASE k # j
      BY <1>2, <1>5, <1>6, <2>2, <2>3, <3>2
    <3> QED
      BY <3>1, <3>2
  <2> QED
    BY <2>4, <2>5
<1>8. NamesInv'
  <2>1. SUFFICES ASSUME NamesApart(request)
                 PROVE  NamesLead(latest') /\ \A k \in Job : NamesLead(mine'[k])
    BY <1>2 DEF NamesInv
  <2>2. NamesLead(latest) /\ \A k \in Job : NamesLead(mine[k])
    BY <1>1, <2>1 DEF NamesInv
  <2>3. ASSUME NEW k \in Job
        PROVE  NamesLead(mine'[k])
    <3>1. CASE k = j
      BY <1>2, <1>4, <2>2, <3>1
    <3>2. CASE k # j
      BY <1>2, <2>2, <3>2
    <3> QED
      BY <3>1, <3>2
  <2> QED
    BY <1>2, <2>2, <2>3
<1>9. BulkInv'
  <2>1. SUFFICES ASSUME PartsApart(request), NEW b \in Job, request[b].op = "move_bulk"
                 PROVE  /\ pc'[b] # "done" =>
                             /\ SameParts(latest, old'[b])
                             /\ \A k \in Job : request[k].op = "rename_dimension" =>
                                  SameParts(latest, mine'[k])
                        /\ pc'[b] \in {"start", "done"} =>
                             Aligned(latest, positions'[latest.posIndex])
                        /\ pc'[b] = "working" => Aligned(mine'[b], positions'[mine'[b].posIndex])
    BY <1>2 DEF BulkInv, AlignedNow
  <2>2. /\ pc[b] # "done" =>
             /\ SameParts(latest, old[b])
             /\ \A k \in Job : request[k].op = "rename_dimension" => SameParts(latest, mine[k])
        /\ pc[b] \in {"start", "done"} => AlignedNow(latest)
        /\ pc[b] = "working" => AlignedNow(mine[b])
    BY <1>1, <2>1 DEF BulkInv
  <2>3. CASE b = j
    <3>1. SameParts(latest, old'[b])
      BY <1>2, <2>3 DEF SameParts
    <3>2. ASSUME NEW k \in Job, request[k].op = "rename_dimension"
          PROVE  SameParts(latest, mine'[k])
      BY <1>2, <2>1, <2>2, <2>3, <3>2
    <3>3. Aligned(mine'[b], positions'[mine'[b].posIndex])
      BY <1>2, <1>4, <2>1, <2>3
    <3> QED
      BY <1>2, <2>3, <3>1, <3>2, <3>3
  <2>4. CASE b # j
    <3>1. request[j].op = "rename_dimension"
      BY <2>1, <2>4 DEF PartsApart, BulkApart, Asks
    <3>2. old'[b] = old[b] /\ mine'[b] = mine[b] /\ pc'[b] = pc[b]
      BY <1>2, <2>4
    <3>3. ASSUME NEW k \in Job, request[k].op = "rename_dimension", pc[b] # "done"
          PROVE  SameParts(latest, mine'[k])
      BY <1>2, <1>4, <2>2, <3>1, <3>3
    <3>4. AlignedNow(latest) => Aligned(latest, positions'[latest.posIndex])
      BY <1>5, <1>6, <3>1
    <3>5. AlignedNow(mine[b]) => Aligned(mine[b], positions'[mine[b].posIndex])
      BY <1>5, <1>6, <3>1
    <3> QED
      BY <2>2, <3>2, <3>3, <3>4, <3>5
  <2> QED
    BY <2>3, <2>4
<1> QED
  BY <1>7, <1>8, <1>9

LEMMA ChangeKeepsInv ==
  ASSUME Inv, NEW j \in Job, Change(j)
  PROVE  Inv'
<1>1. PICK op, c : Works(j, op, c)
  BY ChangeMakes
<1>2. Makes(j)
  BY ChangeMakes
<1>3. TypeInv' /\ HeapInv' /\ SoundInv'
  BY <1>1, <1>2, ChangeKeepsHeap
<1>4. ListInv' /\ RenamesInv' /\ MapsInv'
  BY <1>1, <1>2, ChangeKeepsParts
<1>5. AlignInv' /\ NamesInv' /\ BulkInv'
  BY <1>1, <1>2, ChangeKeepsOrder
<1>6. request' = request /\ MapsApart(request)
  BY <1>1 DEF Works, Inv
<1>7. MapsApart(request)'
  BY <1>6 DEF MapsApart, BulkApart, Asks
<1> QED
  BY <1>3, <1>4, <1>5, <1>7 DEF Inv

(***************************************************************************)
(* A try of a job ends.                                                    *)
(***************************************************************************)

(* What job j may publish in place of the latest dimension.                *)
Follows(j, m) ==
  \/ m.elementList = New(j)
  \/ /\ m.elementList = latest.elementList
     /\ Same(latest, m)
     /\ NamesApart(request) => m.namesMap = latest.namesMap

LEMMA EndsKeepsParts ==
  ASSUME Inv, NEW j \in Job, Ends(j), UNCHANGED <<old, mine>>,
         NEW m, m = latest', Follows(j, m)
  PROVE  ListInv' /\ RenamesInv'
<1>1. TypeInv /\ ListInv /\ RenamesInv
  BY DEF Inv
<1>2. /\ \A k \in Job : k # j => commitTry'[k] = commitTry[k] /\ pc'[k] = pc[k]
      /\ pc'[j] # "working"
  BY <1>1, EndsIs
<1>3. /\ \A p : Given(p, commitTry, pc) => Given(p, commitTry', pc')
      /\ Given(New(j), commitTry', pc')
  BY <1>1, EndsGives
<1>4. pc[j] \in {"start", "working"} /\ request' = request /\ old' = old /\ mine' = mine
  BY DEF Ends
<1>5. ~Given(New(j), commitTry, pc)
  BY <1>1, <1>4, NewNotGiven
<1>6. Given(m.elementList, commitTry', pc')
  BY <1>1, <1>3 DEF ListInv, Follows
<1>7. ASSUME NEW k \in Job
      PROVE  Given(old[k].elementList, commitTry', pc')
  BY <1>1, <1>3 DEF ListInv
<1>8. ASSUME NEW k \in Job, pc'[k] = "working", OfRequest(k)'
      PROVE  /\ mine[k].elementList = New(k)'
             /\ m.elementList = old[k].elementList =>
                  /\ Same(old[k], m)
                  /\ NamesApart(request) => m.namesMap = old[k].namesMap
  <2>1. k # j /\ pc[k] = "working" /\ commitTry'[k] = commitTry[k]
    BY <1>2, <1>8
  <2>2. New(k)' = New(k) /\ OfRequest(k)
    BY <1>4, <1>8, <2>1 DEF New, OfRequest, Pessimistic
  <2>3. /\ mine[k].elementList = New(k)
        /\ latest.elementList = old[k].elementList =>
             /\ Same(old[k], latest)
             /\ NamesApart(request) => latest.namesMap = old[k].namesMap
    BY <1>1, <2>1, <2>2 DEF ListInv
  <2>4. ASSUME m.elementList = old[k].elementList
        PROVE  /\ Same(old[k], m)
               /\ NamesApart(request) => m.namesMap = old[k].namesMap
    <3>1. m.elementList # New(j)
      BY <1>1, <1>5, <2>4 DEF ListInv
    <3>2. /\ m.elementList = latest.elementList
          /\ Same(latest, m)
          /\ NamesApart(request) => m.namesMap = latest.namesMap
      BY <3>1 DEF Follows
    <3> QED
      BY <2>3, <2>4, <3>2 DEF Same
  <2> QED
    BY <2>2, <2>3, <2>4
<1>9. ListInv'
  BY <1>4, <1>6, <1>7, <1>8 DEF ListInv
<1>10. RenamesInv'
  BY <1>1, <1>4 DEF RenamesInv
<1> QED
  BY <1>9, <1>10

(* A merge changes nothing on the heap.                                    *)
LEMMA EndsKeepsHeap ==
  ASSUME Inv, NEW j \in Job, Ends(j), UNCHANGED <<heap, old, mine>>,
         latest' \in Dimensions, used' \subseteq Id
  PROVE  TypeInv' /\ HeapInv'
<1>1. TypeInv /\ HeapInv
  BY DEF Inv
<1>2. positions' = positions /\ pageSize' = pageSize /\ nextId' = nextId
  BY DEF heap
<1>3. request' = request /\ old' = old /\ mine' = mine
  BY DEF Ends
<1>4. TypeInv'
  <2>1. /\ pc' \in [Job -> {"start", "working", "done", "failed"}]
        /\ commitTry' \in [Job -> Nat]
    BY <1>1, EndsIs
  <2> QED
    BY <1>1, <1>2, <1>3, <2>1 DEF TypeInv
<1>5. HeapInv'
  <2>1. \A p : Allocated(p) => Allocated(p)'
    BY <1>1, EndsGives
  <2> QED
    BY <1>1, <1>2, <2>1 DEF HeapInv
<1> QED
  BY <1>4, <1>5

(* A try that fails publishes nothing.                                     *)
LEMMA FailsKeepsInv ==
  ASSUME Inv, NEW j \in Job, Ends(j), UNCHANGED <<latest, heap, old, mine, used>>,
         pc'[j] = "failed" \/ request[j].op # "move_bulk" \/ ~PartsApart(request)
  PROVE  Inv'
<1>1. TypeInv
  BY DEF Inv
<1>2. /\ request' = request /\ old' = old /\ mine' = mine /\ latest' = latest
      /\ positions' = positions /\ pageSize' = pageSize /\ nextId' = nextId /\ used' = used
  BY DEF Ends, heap
<1>3. TypeInv' /\ HeapInv'
  <2>1. latest' \in Dimensions /\ used' \subseteq Id
    BY <1>1, <1>2 DEF TypeInv
  <2> QED
    BY <2>1, EndsKeepsHeap
<1>4. ListInv' /\ RenamesInv'
  <2>1. PICK m : m = latest'
    OBVIOUS
  <2>2. Follows(j, m)
    BY <1>2, <2>1 DEF Follows, Same
  <2> QED
    BY <2>1, <2>2, EndsKeepsParts
<1>5. MapsInv'
  BY <1>2 DEF Inv, MapsInv
<1>6. SoundInv'
  BY <1>2 DEF Inv, SoundInv, SoundNow
<1>7. AlignInv'
  BY <1>2 DEF Inv, AlignInv, AlignedNow
<1>8. NamesInv'
  BY <1>2 DEF Inv, NamesInv
<1>9. BulkInv'
  <2>1. SUFFICES ASSUME PartsApart(request), NEW b \in Job, request[b].op = "move_bulk"
                 PROVE  /\ pc'[b] # "done" =>
                             /\ SameParts(latest, old[b])
                             /\ \A k \in Job : request[k].op = "rename_dimension" =>
                                  SameParts(latest, mine[k])
                        /\ pc'[b] \in {"start", "done"} => AlignedNow(latest)
                        /\ pc'[b] = "working" => AlignedNow(mine[b])
    BY <1>2 DEF BulkInv, AlignedNow
  <2>2. /\ pc[b] # "done" =>
             /\ SameParts(latest, old[b])
             /\ \A k \in Job : request[k].op = "rename_dimension" => SameParts(latest, mine[k])
        /\ pc[b] \in {"start", "done"} => AlignedNow(latest)
        /\ pc[b] = "working" => AlignedNow(mine[b])
    BY <2>1 DEF Inv, BulkInv
  <2>3. CASE b = j
    <3>1. pc'[b] = "failed" /\ pc[b] # "done"
      BY <2>1, <2>3 DEF Ends
    <3> QED
      BY <2>2, <3>1
  <2>4. CASE b # j
    <3>1. pc'[b] = pc[b]
      BY <1>1, <2>4, EndsIs
    <3> QED
      BY <2>2, <3>1
  <2> QED
    BY <2>3, <2>4
<1>10. MapsApart(request)'
  BY <1>2 DEF Inv, MapsApart, BulkApart, Asks
<1> QED
  BY <1>3, <1>4, <1>5, <1>6, <1>7, <1>8, <1>9, <1>10 DEF Inv

(* What a merge publishes.                                                 *)
IsMerged(j, m) ==
  /\ m \in Dimensions
  /\ SoundNow(m)
  /\ Follows(j, m)
  /\ AlignedNow(latest) /\ AlignedNow(mine[j]) => AlignedNow(m)
  /\ NamesApart(request) /\ NamesLead(latest) /\ NamesLead(mine[j]) => NamesLead(m)
  /\ Asks(request, "rename_dimension") =>
       /\ m.idsMap = latest.idsMap
       /\ NamesApart(request) => m.namesMap = latest.namesMap
  /\ request[j].op = "move_bulk" /\ AlignedNow(mine[j]) => AlignedNow(m)
  /\ request[j].op = "rename_dimension" =>
       /\ SameParts(latest, mine[j]) => SameParts(latest, m)
       /\ AlignedNow(latest) => AlignedNow(m)

LEMMA MergedIs ==
  ASSUME Inv, NEW j \in Job, Merge(j), NEW m, m = Merged(j)
  PROVE  IsMerged(j, m)
<1>1. TypeInv /\ SoundInv /\ MapsInv
  BY DEF Inv
<1>2. SoundNow(latest) /\ SoundNow(mine[j])
  BY <1>1 DEF SoundInv
<1>3. CASE request[j].op = "rename_dimension"
  <2>1. /\ m \in Dimensions
        /\ Same(latest, m)
        /\ m.elementList = latest.elementList
        /\ m.ids = mine[j].ids /\ m.names = mine[j].names
        /\ NamesApart(request) => m.namesMap = latest.namesMap
    BY <1>3, MergedName
  <2>2. Follows(j, m)
    BY <2>1 DEF Follows
  <2>3. /\ SoundNow(m)
        /\ AlignedNow(latest) => AlignedNow(m)
        /\ m.namesMap = latest.namesMap => (NamesLead(latest) => NamesLead(m))
    BY <1>2, <2>1, SameSound DEF SoundNow, AlignedNow
  <2>4. m.idsMap = latest.idsMap /\ m.posIndex = latest.posIndex
    BY <2>1 DEF Same
  <2>5. SameParts(latest, mine[j]) => SameParts(latest, m)
    BY <2>1, <2>4 DEF SameParts
  <2> QED
    BY <1>3, <2>1, <2>2, <2>3, <2>4, <2>5 DEF IsMerged
<1>4. CASE request[j].op # "rename_dimension"
  <2>1. /\ m \in Dimensions
        /\ Same(mine[j], m) /\ m.namesMap = mine[j].namesMap
        /\ m.elementList = New(j)
    BY <1>4, MergedElements
  <2>2. Follows(j, m)
    BY <2>1 DEF Follows
  <2>3. /\ SoundNow(m)
        /\ AlignedNow(mine[j]) => AlignedNow(m)
        /\ NamesLead(mine[j]) => NamesLead(m)
    BY <1>2, <2>1, SameSound DEF SoundNow, AlignedNow
  <2>4. Asks(request, "rename_dimension") =>
          /\ m.idsMap = latest.idsMap
          /\ NamesApart(request) => m.namesMap = latest.namesMap
    BY <1>1, <2>1 DEF MapsInv, Same
  <2> QED
    BY <1>4, <2>1, <2>2, <2>3, <2>4 DEF IsMerged
<1> QED
  BY <1>3, <1>4

LEMMA PublishIs ==
  ASSUME TypeInv, NEW j \in Job, pc[j] = "working", NEW m \in Dimensions, Publish(j, m)
  PROVE  /\ Ends(j) /\ pc'[j] = "done"
         /\ latest' = m /\ used' \subseteq Id
         /\ request' = request /\ old' = old /\ mine' = mine
<1>1. /\ latest' = m /\ pc' = [pc EXCEPT ![j] = "done"]
      /\ request' = request /\ commitTry' = commitTry /\ old' = old /\ mine' = mine
  BY DEF Publish
<1>2. Ends(j) /\ pc'[j] = "done"
  BY <1>1 DEF Ends, TypeInv
<1>3. PICK f : f = m.idsMap
  OBVIOUS
<1>4. f \in Partial(Id, Slot)
  BY <1>3 DEF Dimensions
<1>5. DOMAIN f \subseteq Id
  BY <1>4, PartialIs
<1>6. used \subseteq Id
  BY DEF TypeInv
<1>7. used' \subseteq Id
  BY <1>3, <1>5, <1>6 DEF Publish
<1> QED
  BY <1>1, <1>2, <1>7

LEMMA MergeKeepsInv ==
  ASSUME Inv, NEW j \in Job, Merge(j)
  PROVE  Inv'
<1>1. /\ MapsApart(request) /\ TypeInv /\ MapsInv /\ SoundInv /\ AlignInv /\ NamesInv
      /\ BulkInv
  BY DEF Inv
<1>2. PICK m : m = Merged(j)
  OBVIOUS
<1>3. IsMerged(j, m)
  BY <1>2, MergedIs
<1>4. m \in Dimensions /\ SoundNow(m) /\ Follows(j, m)
  BY <1>3 DEF IsMerged
<1>5. pc[j] = "working" /\ Publish(j, m) /\ UNCHANGED heap
  BY <1>2 DEF Merge
<1>6. /\ Ends(j) /\ pc'[j] = "done"
      /\ latest' = m /\ used' \subseteq Id
      /\ request' = request /\ old' = old /\ mine' = mine
  BY <1>1, <1>4, <1>5, PublishIs
<1>7. positions' = positions /\ pageSize' = pageSize /\ nextId' = nextId
  BY <1>5 DEF heap
<1>8. TypeInv' /\ HeapInv'
  BY <1>4, <1>5, <1>6, EndsKeepsHeap
<1>9. ListInv' /\ RenamesInv'
  BY <1>4, <1>6, EndsKeepsParts
<1>10. MapsInv'
  BY <1>1, <1>3, <1>6 DEF MapsInv, IsMerged
<1>11. SoundInv'
  BY <1>1, <1>4, <1>6, <1>7 DEF SoundInv, SoundNow
<1>12. AlignInv'
  BY <1>1, <1>3, <1>6, <1>7 DEF AlignInv, AlignedNow, IsMerged
<1>13. NamesInv'
  BY <1>1, <1>3, <1>6 DEF NamesInv, IsMerged
<1>14. BulkInv'
  <2>1. SUFFICES ASSUME PartsApart(request), NEW b \in Job, request[b].op = "move_bulk"
                 PROVE  /\ pc'[b] # "done" =>
                             /\ SameParts(m, old[b])
                             /\ \A k \in Job : request[k].op = "rename_dimension" =>
                                  SameParts(m, mine[k])
                        /\ pc'[b] \in {"start", "done"} => AlignedNow(m)
                        /\ pc'[b] = "working" => AlignedNow(mine[b])
    BY <1>6, <1>7 DEF BulkInv, AlignedNow
  <2>2. /\ pc[b] # "done" =>
             /\ SameParts(latest, old[b])
             /\ \A k \in Job : request[k].op = "rename_dimension" => SameParts(latest, mine[k])
        /\ pc[b] \in {"start", "done"} => AlignedNow(latest)
        /\ pc[b] = "working" => AlignedNow(mine[b])
    BY <1>1, <2>1 DEF BulkInv
  <2>3. CASE b = j
    <3>1. AlignedNow(m)
      BY <1>3, <1>5, <2>1, <2>2, <2>3 DEF IsMerged
    <3> QED
      BY <1>6, <2>3, <3>1
  <2>4. CASE b # j
    <3>1. request[j].op = "rename_dimension"
      BY <2>1, <2>4 DEF PartsApart, BulkApart, Asks
    <3>2. pc'[b] = pc[b]
      BY <1>1, <1>6, <2>4, EndsIs
    <3>3. AlignedNow(latest) => AlignedNow(m)
      BY <1>3, <3>1 DEF IsMerged
    <3>4. pc[b] # "done" => SameParts(latest, m)
      BY <1>3, <2>2, <3>1 DEF IsMerged
    <3> QED
      BY <2>2, <3>2, <3>3, <3>4 DEF SameParts
  <2> QED
    BY <2>3, <2>4
<1>15. MapsApart(request)'
  BY <1>1, <1>6 DEF MapsApart, BulkApart, Asks
<1> QED
  BY <1>8, <1>9, <1>10, <1>11, <1>12, <1>13, <1>14, <1>15 DEF Inv

LEMMA DestroyInMergeKeepsInv ==
  ASSUME Inv, NEW j \in Job, DestroyInMerge(j)
  PROVE  Inv'
<1>1. /\ MapsApart(request) /\ TypeInv /\ HeapInv /\ SoundInv /\ AlignInv /\ NamesInv
  BY DEF Inv
<1>2. PICK m : m = DeleteElements(latest, New(j), positions[latest.posIndex], request[j].ids)
  OBVIOUS
<1>3. /\ pc[j] = "working" /\ Pessimistic(j) /\ Publish(j, m)
      /\ AllocateDeleted(latest, New(j), request[j].ids)
  BY <1>2 DEF DestroyInMerge
<1>4. request[j].op \in {"destroy", "destroy_bulk"} /\ Changing(j)
  BY <1>3 DEF Pessimistic, Changing
<1>5. HeapChanged(j) /\ IsDestroyed(j, m)
  BY <1>2, <1>3, <1>4, DeletingMakes
<1>6. /\ m \in Dimensions /\ m.elementList = New(j)
      /\ Sound(m, positions', pageSize', nextId')
      /\ Aligned(m, positions'[m.posIndex])
      /\ NamesLead(latest) => NamesLead(m)
  BY <1>5 DEF IsDestroyed
<1>7. /\ Ends(j) /\ pc'[j] = "done"
      /\ latest' = m /\ used' \subseteq Id
      /\ request' = request /\ old' = old /\ mine' = mine
  BY <1>1, <1>3, <1>6, PublishIs
<1>8. TypeInv'
  <2>1. /\ pc' \in [Job -> {"start", "working", "done", "failed"}]
        /\ commitTry' \in [Job -> Nat]
    BY <1>1, <1>7, EndsIs
  <2>2. Heaps(positions', pageSize', nextId')
    BY <1>5 DEF HeapChanged
  <2> QED
    BY <1>1, <1>6, <1>7, <2>1, <2>2 DEF TypeInv
<1>9. HeapInv'
  <2>1. SUFFICES ASSUME NEW p \in DOMAIN positions' \union DOMAIN pageSize' \union DOMAIN nextId'
                 PROVE  Allocated(p)'
    BY DEF HeapInv
  <2>2. /\ \A q : Allocated(q) => Allocated(q)'
        /\ Given(New(j), commitTry', pc')
    BY <1>1, <1>7, EndsGives
  <2>3. CASE p \in DOMAIN positions \union DOMAIN pageSize \union DOMAIN nextId
    BY <1>1, <2>2, <2>3 DEF HeapInv
  <2>4. CASE p \notin DOMAIN positions \union DOMAIN pageSize \union DOMAIN nextId
    <3>1. p = New(j)
      BY <1>5, <2>1, <2>4 DEF HeapChanged
    <3> QED
      BY <2>2, <3>1 DEF Allocated
  <2> QED
    BY <2>3, <2>4
<1>10. ListInv' /\ RenamesInv'
  <2>1. Follows(j, m)
    BY <1>6 DEF Follows
  <2> QED
    BY <1>7, <2>1, EndsKeepsParts
<1>11. ~Asks(request, "rename_dimension")
  BY <1>1, <1>4 DEF MapsApart, KeepsIds
<1>12. MapsInv'
  BY <1>7, <1>11 DEF MapsInv, Asks
<1>13. \A d \in Dimensions : SoundNow(d) =>
         /\ Sound(d, positions', pageSize', nextId')
         /\ AlignedNow(d) => Aligned(d, positions'[d.posIndex])
  BY <1>1, <1>4, <1>5, OthersKept
<1>14. \A k \in Job : /\ old[k] \in Dimensions /\ mine[k] \in Dimensions
                      /\ SoundNow(old[k]) /\ SoundNow(mine[k])
  BY <1>1 DEF TypeInv, SoundInv
<1>15. SoundInv'
  <2>1. \A k \in Job : /\ Sound(old[k], positions', pageSize', nextId')
                       /\ Sound(mine[k], positions', pageSize', nextId')
    BY <1>13, <1>14
  <2> QED
    BY <1>6, <1>7, <2>1 DEF SoundInv, SoundNow
<1>16. AlignInv'
  <2>1. SUFFICES ASSUME ~Asks(request, "move_bulk")
                 PROVE  \A k \in Job : Aligned(mine[k], positions'[mine[k].posIndex])
    BY <1>6, <1>7 DEF AlignInv, AlignedNow
  <2>2. \A k \in Job : AlignedNow(mine[k])
    BY <1>1, <2>1 DEF AlignInv
  <2> QED
    BY <1>13, <1>14, <2>2
<1>17. NamesInv'
  BY <1>1, <1>6, <1>7 DEF NamesInv
<1>18. BulkInv'
  <2>1. PartsApart(request) => ~Asks(request, "move_bulk")
    BY <1>4 DEF PartsApart, BulkApart
  <2> QED
    BY <1>7, <2>1 DEF BulkInv, Asks
<1>19. MapsApart(request)'
  BY <1>1, <1>7 DEF MapsApart, BulkApart, Asks
<1> QED
  BY <1>8, <1>9, <1>10, <1>12, <1>15, <1>16, <1>17, <1>18, <1>19 DEF Inv

LEMMA MergeFailsKeepsInv ==
  ASSUME Inv, NEW j \in Job, MergeFails(j)
  PROVE  Inv'
<1>1. Ends(j) /\ UNCHANGED <<latest, heap, old, mine, used>>
  BY DEF MergeFails, Ends
<1>2. request[j].op # "move_bulk" \/ ~PartsApart(request)
  <2>1. SUFFICES ASSUME request[j].op = "move_bulk", PartsApart(request)
                 PROVE  FALSE
    OBVIOUS
  <2>2. pc[j] = "working" /\ Conflict(j)
    BY <2>1 DEF MergeFails, ConflictElsewhere
  <2>3. SameParts(latest, old[j])
    BY <2>1, <2>2 DEF Inv, BulkInv
  <2> QED
    BY <2>2, <2>3 DEF Conflict, SameParts
<1> QED
  BY <1>1, <1>2, FailsKeepsInv

LEMMA ThrowKeepsInv ==
  ASSUME Inv, NEW j \in Job, Throw(j)
  PROVE  Inv'
<1>1. Ends(j) /\ UNCHANGED <<latest, heap, old, mine, used>>
  BY DEF Throw, Ends
<1>2. pc'[j] = "failed"
  BY DEF Throw, Inv, TypeInv
<1> QED
  BY <1>1, <1>2, FailsKeepsInv

(***************************************************************************)
(* The dimension as it was loaded.                                         *)
(***************************************************************************)

LEMMA LoadedIs ==
  LET N == 1 .. Len(Loaded)
      p == <<NoJob, 0>> IN
  /\ Len(Loaded) \in Nat
  /\ \A s \in N : Loaded[s] \in Name
  /\ \A s, t \in N : Loaded[s] = Loaded[t] => s = t
  /\ Range(Loaded) = {Loaded[s] : s \in N}
  /\ p \in Pointer
<1>1. Loaded \in Seq(Name) /\ IsInjective(Loaded)
  BY LoadedAssumption
<1>2. DOMAIN Loaded = 1 .. Len(Loaded) /\ Len(Loaded) \in Nat
  BY <1>1
<1>3. \A s \in 1 .. Len(Loaded) : Loaded[s] \in Name
  BY <1>1, <1>2
<1>4. \A s, t \in 1 .. Len(Loaded) : Loaded[s] = Loaded[t] => s = t
  BY <1>1, <1>2 DEF IsInjective
<1>5. Range(Loaded) = {Loaded[s] : s \in 1 .. Len(Loaded)}
  BY <1>2 DEF Range
<1>6. <<NoJob, 0>> \in Pointer
  BY DEF Pointer
<1> QED
  BY <1>2, <1>3, <1>4, <1>5, <1>6

IsLoaded(d, n) ==
  /\ d \in Dimensions
  /\ d.free = <<>> /\ d.page = <<NoJob, 0>>
  /\ d.holder = <<NoJob, 0>> /\ d.posIndex = <<NoJob, 0>> /\ d.elementList = <<NoJob, 0>>
  /\ DOMAIN d.slots = 1 .. n
  /\ \A s \in 1 .. n :
       d.slots[s].id = s - 1 /\ d.slots[s].name = Loaded[s] /\ d.slots[s].position = s
  /\ DOMAIN d.idsMap = {s - 1 : s \in 1 .. n}
  /\ \A s \in 1 .. n : d.idsMap[s - 1] = s
  /\ DOMAIN d.namesMap = {Loaded[s] : s \in 1 .. n}
  /\ \A s \in 1 .. n : d.namesMap[Loaded[s]] = s

LEMMA LoadedDimensionIs ==
  ASSUME NEW d, d = LoadedDimension, NEW n, n = Len(Loaded)
  PROVE  n \in Nat /\ IsLoaded(d, n)
<1>1. /\ n \in Nat
      /\ \A s \in 1 .. n : Loaded[s] \in Name
      /\ \A s, t \in 1 .. n : Loaded[s] = Loaded[t] => s = t
      /\ Range(Loaded) = {Loaded[s] : s \in 1 .. n}
      /\ <<NoJob, 0>> \in Pointer
  BY LoadedIs
<1>2. PICK p : p = <<NoJob, 0>>
  OBVIOUS
<1>3. PICK slots : slots = [s \in 1 .. n |-> [id |-> s - 1, name |-> Loaded[s], position |-> s]]
  OBVIOUS
<1>4. PICK idsMap : idsMap = [i \in {s - 1 : s \in 1 .. n} |-> i + 1]
  OBVIOUS
<1>5. PICK namesMap : namesMap = [m \in Range(Loaded) |-> CHOOSE s \in 1 .. n : Loaded[s] = m]
  OBVIOUS
<1>6. d = [name |-> LoadedName,
           elementList |-> p, page |-> p, free |-> <<>>, holder |-> p,
           slots |-> slots, ids |-> p, idsMap |-> idsMap,
           names |-> p, namesMap |-> namesMap, posIndex |-> p]
  BY <1>2, <1>3, <1>4, <1>5 DEF LoadedDimension
<1>7. /\ DOMAIN slots = 1 .. n
      /\ \A s \in 1 .. n : slots[s].id = s - 1 /\ slots[s].name = Loaded[s] /\ slots[s].position = s
      /\ slots \in Partial(Slot, ElementRecord)
  <2>1. DOMAIN slots = 1 .. n
        /\ \A s \in 1 .. n : slots[s] = [id |-> s - 1, name |-> Loaded[s], position |-> s]
    BY <1>3
  <2>2. \A s \in 1 .. n : slots[s] \in ElementRecord
    <3>1. SUFFICES ASSUME NEW s \in 1 .. n PROVE slots[s] \in ElementRecord
      OBVIOUS
    <3>2. s - 1 \in Nat /\ s \in Nat \ {0}
      BY <1>1
    <3> QED
      BY <1>1, <2>1, <3>2 DEF ElementRecord, Id, Slot
  <2>3. slots \in [1 .. n -> ElementRecord]
    BY <1>3, <2>1, <2>2
  <2>4. 1 .. n \in SUBSET Slot
    BY <1>1 DEF Slot
  <2>5. slots \in Partial(Slot, ElementRecord)
    BY <2>3, <2>4 DEF Partial
  <2> QED
    BY <2>1, <2>5
<1>8. /\ DOMAIN idsMap = {s - 1 : s \in 1 .. n}
      /\ \A s \in 1 .. n : idsMap[s - 1] = s
      /\ idsMap \in Partial(Id, Slot)
  <2>1. PICK K : K = {s - 1 : s \in 1 .. n}
    OBVIOUS
  <2>2. \A i \in K : i \in Nat /\ i + 1 \in Slot
    BY <1>1, <2>1 DEF Slot
  <2>3. idsMap = [i \in K |-> i + 1]
    BY <1>4, <2>1
  <2>4. idsMap \in [K -> Slot] /\ K \in SUBSET Id
    BY <2>2, <2>3 DEF Id
  <2>5. \A s \in 1 .. n : s - 1 \in K /\ (s - 1) + 1 = s
    BY <1>1, <2>1
  <2>6. \A s \in 1 .. n : idsMap[s - 1] = s
    BY <2>3, <2>5
  <2> QED
    BY <2>1, <2>3, <2>4, <2>6 DEF Partial
<1>9. /\ DOMAIN namesMap = {Loaded[s] : s \in 1 .. n}
      /\ \A s \in 1 .. n : namesMap[Loaded[s]] = s
      /\ namesMap \in Partial(Name, Slot)
  <2>1. PICK K : K = {Loaded[s] : s \in 1 .. n}
    OBVIOUS
  <2>2. namesMap = [m \in K |-> CHOOSE s \in 1 .. n : Loaded[s] = m]
    BY <1>1, <1>5, <2>1
  <2>3. \A s \in 1 .. n : namesMap[Loaded[s]] = s
    BY <1>1, <2>1, <2>2
  <2>4. \A m \in K : namesMap[m] \in Slot
    BY <1>1, <2>1, <2>3 DEF Slot
  <2>5. namesMap \in [K -> Slot]
    BY <2>2, <2>4
  <2>6. K \in SUBSET Name
    BY <1>1, <2>1
  <2> QED
    BY <2>1, <2>2, <2>3, <2>5, <2>6 DEF Partial
<1>10. d \in Dimensions
  <2>1. LoadedName \in Name /\ <<>> \in Seq(Slot) /\ p \in Pointer
    BY <1>1, <1>2, LoadedAssumption
  <2> QED
    BY <1>6, <1>7, <1>8, <1>9, <2>1 DEF Dimensions
<1> QED
  BY <1>1, <1>2, <1>6, <1>7, <1>8, <1>9, <1>10 DEF IsLoaded

LEMMA LoadedSound ==
  ASSUME NEW d, NEW n \in Nat, IsLoaded(d, n),
         NEW p, p = <<NoJob, 0>>,
         NEW pos, p \in DOMAIN pos, pos[p] = [i \in 1 .. n |-> i],
         NEW sizes, p \in DOMAIN sizes, sizes[p] = n,
         NEW next, p \in DOMAIN next, next[p] = n
  PROVE  Sound(d, pos, sizes, next) /\ Aligned(d, pos[d.posIndex]) /\ NamesLead(d)
<1>1. PICK vec : vec = [i \in 1 .. n |-> i]
  OBVIOUS
<1>2. /\ DOMAIN vec = 1 .. n
      /\ \A i \in 1 .. n : vec[i] = i /\ i \in Slot
      /\ vec \in Seq(Slot)
  <2>1. DOMAIN vec = 1 .. n /\ \A i \in 1 .. n : vec[i] = i
    BY <1>1
  <2>2. \A i \in 1 .. n : i \in Slot
    BY DEF Slot
  <2>3. vec \in [1 .. n -> Slot]
    BY <1>1, <2>2
  <2>4. vec \in Seq(Slot)
    BY <2>3
  <2> QED
    BY <2>1, <2>2, <2>4
<1>3. /\ d.free = <<>> /\ d.page = p /\ d.holder = p /\ d.posIndex = p
      /\ DOMAIN d.slots = 1 .. n
      /\ \A s \in 1 .. n :
           d.slots[s].id = s - 1 /\ d.slots[s].name = Loaded[s] /\ d.slots[s].position = s
  BY DEF IsLoaded
<1>4. Lists(d, vec)
  <2>1. IsInjective(vec)
    BY <1>2 DEF IsInjective
  <2>2. Range(vec) = 1 .. n
    BY <1>2 DEF Range
  <2> QED
    BY <1>2, <1>3, <2>1, <2>2 DEF Lists
<1>5. IdsLead(d)
  <2>1. /\ DOMAIN d.idsMap = {s - 1 : s \in 1 .. n}
        /\ \A s \in 1 .. n : d.idsMap[s - 1] = s
    BY DEF IsLoaded
  <2>2. \A s \in DOMAIN d.slots : d.slots[s].id \in DOMAIN d.idsMap /\ d.idsMap[d.slots[s].id] = s
    BY <1>3, <2>1
  <2>3. ASSUME NEW i \in DOMAIN d.idsMap
        PROVE  d.idsMap[i] \in DOMAIN d.slots /\ d.slots[d.idsMap[i]].id = i
    <3>1. PICK s \in 1 .. n : i = s - 1
      BY <2>1
    <3> QED
      BY <1>3, <2>1, <3>1
  <2> QED
    BY <2>2, <2>3 DEF IdsLead
<1>6. NamesLead(d)
  <2>1. /\ DOMAIN d.namesMap = {Loaded[s] : s \in 1 .. n}
        /\ \A s \in 1 .. n : d.namesMap[Loaded[s]] = s
    BY DEF IsLoaded
  <2>2. \A s \in DOMAIN d.slots :
          d.slots[s].name \in DOMAIN d.namesMap /\ d.namesMap[d.slots[s].name] = s
    <3>1. SUFFICES ASSUME NEW s \in 1 .. n
                   PROVE  d.slots[s].name \in DOMAIN d.namesMap /\ d.namesMap[d.slots[s].name] = s
      BY <1>3
    <3>2. d.slots[s].name = Loaded[s]
      BY <1>3
    <3> QED
      BY <2>1, <3>2
  <2>3. ASSUME NEW m \in DOMAIN d.namesMap
        PROVE  d.namesMap[m] \in DOMAIN d.slots /\ d.slots[d.namesMap[m]].name = m
    <3>1. PICK s \in 1 .. n : m = Loaded[s]
      BY <2>1
    <3> QED
      BY <1>3, <2>1, <3>1
  <2> QED
    BY <2>2, <2>3 DEF NamesLead
<1>7. SlotsApart(d, sizes)
  <2>1. IsInjective(<<>>) /\ Range(<<>>) = {}
    BY DEF IsInjective, Range
  <2>2. p # NoPage
    BY DEF NoPage
  <2>3. \A s \in 1 .. n : s <= n
    OBVIOUS
  <2> QED
    BY <1>3, <2>1, <2>2, <2>3 DEF SlotsApart
<1>8. IdsBelow(d, next)
  <2>1. \A i \in DOMAIN d.idsMap : i < n
    BY DEF IsLoaded
  <2> QED
    BY <1>3, <2>1 DEF IdsBelow
<1>9. Aligned(d, vec)
  BY <1>2, <1>3 DEF Aligned
<1>10. pos[d.posIndex] = vec /\ d.posIndex \in DOMAIN pos
  BY <1>1, <1>3
<1> QED
  BY <1>3, <1>4, <1>5, <1>6, <1>7, <1>8, <1>9, <1>10 DEF Sound

LEMMA InitGivesInv ==
  ASSUME Init, MapsApart(request)
  PROVE  Inv
<1>1. PICK d : d = LoadedDimension
  OBVIOUS
<1>2. PICK n : n = Len(Loaded)
  OBVIOUS
<1>3. PICK p : p = <<NoJob, 0>>
  OBVIOUS
<1>4. n \in Nat /\ IsLoaded(d, n)
  BY <1>1, <1>2, LoadedDimensionIs
<1>5. /\ request \in [Job -> Request]
      /\ latest = d
      /\ \A j \in Job : old[j] = d /\ mine[j] = d /\ pc[j] = "start" /\ commitTry[j] = 0
  BY <1>1, AssignmentsAssumption DEF Init
<1>6. /\ positions = [q \in {p} |-> [i \in 1 .. n |-> i]]
      /\ pageSize = [q \in {p} |-> n]
      /\ nextId = [q \in {p} |-> n]
  BY <1>2, <1>3 DEF Init
<1>7. /\ d \in Dimensions /\ d.elementList = p
  BY <1>3, <1>4 DEF IsLoaded
<1>8. Sound(d, positions, pageSize, nextId) /\ AlignedNow(d) /\ NamesLead(d)
  <2>1. PICK pos : pos = positions
    OBVIOUS
  <2>2. PICK sizes : sizes = pageSize
    OBVIOUS
  <2>3. PICK next : next = nextId
    OBVIOUS
  <2>4. /\ p \in DOMAIN pos /\ pos[p] = [i \in 1 .. n |-> i]
        /\ p \in DOMAIN sizes /\ sizes[p] = n
        /\ p \in DOMAIN next /\ next[p] = n
    BY <1>6, <2>1, <2>2, <2>3
  <2> QED
    BY <1>3, <1>4, <2>1, <2>2, <2>3, <2>4, LoadedSound DEF AlignedNow
<1>9. TypeInv
  <2>1. Heaps(positions, pageSize, nextId)
    <3>1. [i \in 1 .. n |-> i] \in Seq(Slot)
      <4>1. [i \in 1 .. n |-> i] \in [1 .. n -> Slot]
        BY <1>4 DEF Slot
      <4> QED
        BY <1>4, <4>1
    <3>2. PICK v \in Seq(Slot) : v = [i \in 1 .. n |-> i]
      BY <3>1
    <3>3. positions = [q \in {p} |-> v]
      BY <1>6, <3>2
    <3>4. positions \in [DOMAIN positions -> Seq(Slot)]
      BY <3>3
    <3> QED
      BY <1>4, <1>6, <3>4 DEF Heaps
  <2>2. /\ pc \in [Job -> {"start", "working", "done", "failed"}]
        /\ commitTry \in [Job -> Nat]
        /\ old \in [Job -> Dimensions] /\ mine \in [Job -> Dimensions]
    BY <1>1, <1>7 DEF Init
  <2>3. used \subseteq Id
    BY <1>2, <1>4 DEF Init, Id
  <2> QED
    BY <1>5, <1>7, <2>1, <2>2, <2>3 DEF TypeInv
<1>10. Given(p, commitTry, pc)
  BY <1>3 DEF Given, Pointer
<1>11. HeapInv
  BY <1>6, <1>10 DEF HeapInv, Allocated
<1>12. ListInv
  BY <1>5, <1>7, <1>10 DEF ListInv
<1>13. RenamesInv /\ MapsInv
  BY <1>5 DEF RenamesInv, MapsInv
<1>14. SoundInv
  BY <1>5, <1>8 DEF SoundInv, SoundNow
<1>15. AlignInv /\ NamesInv
  BY <1>5, <1>8 DEF AlignInv, NamesInv
<1>16. BulkInv
  BY <1>5, <1>8 DEF BulkInv, SameParts
<1> QED
  BY <1>9, <1>11, <1>12, <1>13, <1>14, <1>15, <1>16 DEF Inv

(***************************************************************************)
(* The invariant, and what follows from it.                                *)
(***************************************************************************)

LEMMA NextKeepsInv ==
  ASSUME Inv, [Next]_vars
  PROVE  Inv'
<1>1. ASSUME NEW j \in Job, Change(j) PROVE Inv'
  BY <1>1, ChangeKeepsInv
<1>2. ASSUME NEW j \in Job, Commit(j) PROVE Inv'
  BY <1>2, MergeKeepsInv, DestroyInMergeKeepsInv, MergeFailsKeepsInv DEF Commit
<1>3. ASSUME NEW j \in Job, Throw(j) PROVE Inv'
  BY <1>3, ThrowKeepsInv
<1>4. ASSUME UNCHANGED vars PROVE Inv'
  <2>1. /\ request' = request /\ latest' = latest /\ positions' = positions
        /\ pageSize' = pageSize /\ nextId' = nextId /\ pc' = pc /\ commitTry' = commitTry
        /\ old' = old /\ mine' = mine /\ used' = used
    BY <1>4 DEF vars, heap
  <2>2. TypeInv' = TypeInv
    BY <2>1 DEF TypeInv
  <2>3. HeapInv' = HeapInv
    BY <2>1 DEF HeapInv, Allocated, New, Pessimistic
  <2>4. ListInv' = ListInv
    BY <2>1 DEF ListInv, OfRequest, New, Pessimistic
  <2>5. RenamesInv' = RenamesInv /\ MapsInv' = MapsInv
    BY <2>1 DEF RenamesInv, MapsInv
  <2>6. SoundInv' = SoundInv
    BY <2>1 DEF SoundInv, SoundNow
  <2>7. AlignInv' = AlignInv /\ NamesInv' = NamesInv /\ BulkInv' = BulkInv
    BY <2>1 DEF AlignInv, AlignedNow, NamesInv, BulkInv
  <2>8. MapsApart(request)' = MapsApart(request)
    BY <2>1 DEF MapsApart, BulkApart, Asks
  <2> QED
    BY <2>2, <2>3, <2>4, <2>5, <2>6, <2>7, <2>8 DEF Inv
<1> QED
  BY <1>1, <1>2, <1>3, <1>4 DEF Next, Idle

LEMMA SpecKeepsInv == Spec /\ MapsApart(request) => []Inv
<1>1. Init /\ MapsApart(request) => Inv
  BY InitGivesInv
<1>2. Inv /\ [Next]_vars => Inv'
  BY NextKeepsInv, ZenonT(30)
<1> QED
  BY <1>1, <1>2, PTL DEF Spec

LEMMA NextKeepsRequest == [Next]_vars => request' = request
BY ZenonT(30) DEF Next, Change, Create, Rename, Move, MoveBulk, Destroy, Clear, RenameDimension, Works,
       Commit, Merge, DestroyInMerge, Publish, MergeFails, Throw, Idle, vars

LEMMA SoundIsDimension ==
  ASSUME NEW d \in Dimensions, Sound(d, positions, pageSize, nextId)
  PROVE  IsDimension(d)
<1>1. /\ DOMAIN d = {"name", "elementList", "page", "free", "holder", "slots",
                     "ids", "idsMap", "names", "namesMap", "posIndex"}
      /\ d.name \in Name
      /\ {d.elementList, d.holder, d.ids, d.names, d.posIndex} \subseteq Pointer
      /\ d.page \in Pointer \union {NoPage}
      /\ d.free \in Seq(Slot)
      /\ d.slots \in Partial(Slot, ElementRecord)
      /\ d.idsMap \in Partial(Id, Slot)
      /\ d.namesMap \in Partial(Name, Slot)
  BY DEF Dimensions
<1>2. d.slots \in [DOMAIN d.slots -> [id : Id, name : Name, position : Slot]]
  <2>1. PICK f : f = d.slots
    OBVIOUS
  <2>2. f \in [DOMAIN f -> ElementRecord]
    BY <1>1, <2>1, PartialIs
  <2> QED
    BY <2>1, <2>2 DEF ElementRecord
<1>3. d.idsMap \in [DOMAIN d.idsMap -> Slot] /\ DOMAIN d.idsMap \subseteq Id
  BY <1>1, PartialIs
<1>4. d.namesMap \in [DOMAIN d.namesMap -> Slot] /\ DOMAIN d.namesMap \subseteq Name
  BY <1>1, PartialIs
<1>5. /\ d.posIndex \in DOMAIN positions
      /\ d.page # NoPage => d.page \in DOMAIN pageSize
      /\ d.holder \in DOMAIN nextId
  BY DEF Sound
<1> QED
  BY <1>1, <1>2, <1>3, <1>4, <1>5 DEF IsDimension

LEMMA InvGivesTypeOK ==
  ASSUME Inv, request \in Assignments
  PROVE  TypeOK
<1>1. TypeInv /\ SoundInv
  BY DEF Inv
<1>2. \A d \in Dimensions : SoundNow(d) => IsDimension(d)
  BY SoundIsDimension DEF SoundNow
<1>3. IsDimension(latest) /\ \A j \in Job : IsDimension(old[j]) /\ IsDimension(mine[j])
  BY <1>1, <1>2 DEF TypeInv, SoundInv
<1> QED
  BY <1>1, <1>3 DEF TypeOK, TypeInv, Heaps

(* The names of a sound dimension are as many as its identifiers.          *)
LEMMA SoundIsInStep ==
  ASSUME NEW d \in Dimensions, Sound(d, positions, pageSize, nextId), AlignedNow(d), NamesLead(d)
  PROVE  InStep(d)
<1>1. PICK vec : vec = positions[d.posIndex]
  OBVIOUS
<1>2. Lists(d, vec) /\ IdsLead(d) /\ Aligned(d, vec)
  BY <1>1 DEF Sound, AlignedNow
<1>3. PICK n : n = Len(vec)
  OBVIOUS
<1>4. SizeElements(d) = n /\ DOMAIN vec = 1 .. n /\ n \in Nat
  BY <1>2, <1>3, SizeIsLength
<1>5. PICK Live : Live = DOMAIN d.slots
  OBVIOUS
<1>6. \A i \in 1 .. n : i \in DOMAIN vec /\ vec[i] \in Live
  BY <1>2, <1>4, <1>5 DEF Lists, Range
<1>7. \A s \in Live :
        /\ d.slots[s].position \in DOMAIN vec
        /\ vec[d.slots[s].position] = s
        /\ d.slots[s].id \in DOMAIN d.idsMap
        /\ d.idsMap[d.slots[s].id] = s
        /\ d.slots[s].name \in DOMAIN d.namesMap
        /\ d.namesMap[d.slots[s].name] = s
  BY <1>2, <1>5 DEF Lists, Aligned, IdsLead, NamesLead
<1>8. IsFiniteSet(DOMAIN vec) /\ Cardinality(DOMAIN vec) = n
  BY <1>4, FS_Interval
<1>9. IsFiniteSet(Live) /\ Cardinality(Live) = n
  <2>1. \A i, k \in DOMAIN vec : vec[i] = vec[k] => i = k
    BY <1>2 DEF Lists, IsInjective
  <2>2. \A s \in Live : \E i \in DOMAIN vec : vec[i] = s
    BY <1>7
  <2>3. PICK D : D = DOMAIN vec
    OBVIOUS
  <2>4. vec \in [D -> Live]
    BY <1>2, <1>4, <1>6, <2>3 DEF Lists
  <2>5. vec \in Bijection(D, Live)
    BY <2>1, <2>2, <2>3, <2>4 DEF Bijection, Injection, Surjection, IsInjective
  <2> QED
    BY <1>8, <2>3, <2>5, FS_Bijection DEF ExistsBijection
<1>10. Cardinality(DOMAIN d.namesMap) = n
  <2>1. PICK f : f = [s \in Live |-> d.slots[s].name]
    OBVIOUS
  <2>2. PICK K : K = DOMAIN d.namesMap
    OBVIOUS
  <2>3. f \in [Live -> K]
    BY <1>7, <2>1, <2>2
  <2>4. \A s, t \in Live : f[s] = f[t] => s = t
    BY <1>7, <2>1
  <2>5. \A m \in K : \E s \in Live : f[s] = m
    BY <1>5, <2>1, <2>2 DEF NamesLead
  <2>6. f \in Bijection(Live, K)
    BY <2>3, <2>4, <2>5 DEF Bijection, Injection, Surjection, IsInjective
  <2> QED
    BY <1>9, <2>2, <2>6, FS_Bijection DEF ExistsBijection
<1> QED
  BY <1>1, <1>4, <1>5, <1>6, <1>7, <1>9, <1>10 DEF InStep

LEMMA InvGivesInStep ==
  ASSUME Inv, PartsApart(request)
  PROVE  InStepAtRest
<1>1. SUFFICES ASSUME \A j \in Job : request[j].op = "move_bulk" => pc[j] \in {"start", "done"}
               PROVE  InStep(latest)
  BY DEF InStepAtRest, Verify
<1>2. latest \in Dimensions /\ Sound(latest, positions, pageSize, nextId)
  BY LatestIs
<1>3. AlignedNow(latest)
  <2>1. CASE Asks(request, "move_bulk")
    <3>1. PICK b \in Job : request[b].op = "move_bulk"
      BY <2>1 DEF Asks
    <3>2. pc[b] \in {"start", "done"}
      BY <1>1, <3>1
    <3> QED
      BY <3>1, <3>2 DEF Inv, BulkInv
  <2>2. CASE ~Asks(request, "move_bulk")
    BY <2>2 DEF Inv, AlignInv
  <2> QED
    BY <2>1, <2>2
<1>4. NamesLead(latest)
  BY DEF Inv, NamesInv, PartsApart
<1> QED
  BY <1>2, <1>3, <1>4, SoundIsInStep

LEMMA PartsApartIs ==
  ASSUME PartsApart(request)
  PROVE  MapsApart(request)
BY DEF PartsApart, NamesApart, MapsApart, BulkApart, Asks, KeepsIds, KeepsBoth

(* Every step but one of element/move_bulk keeps the vectors.              *)
LEMMA NextKeepsVectors ==
  ASSUME Inv, [Next]_vars, ~MovesInBulk
  PROVE  Kept(positions, positions')
<1>1. ASSUME NEW j \in Job, HeapChanged(j) PROVE Kept(positions, positions')
  BY <1>1 DEF HeapChanged, MovesInBulk
<1>2. ASSUME NEW j \in Job, Change(j) PROVE Kept(positions, positions')
  <2>1. Makes(j)
    BY <1>2, ChangeMakes
  <2> QED
    BY <1>1, <2>1 DEF Makes
<1>3. ASSUME NEW j \in Job, DestroyInMerge(j) PROVE Kept(positions, positions')
  <2>1. /\ Changing(j) /\ request[j].op \in {"destroy", "destroy_bulk"}
        /\ AllocateDeleted(latest, New(j), request[j].ids)
    BY <1>3 DEF DestroyInMerge, Changing, Pessimistic
  <2>2. HeapChanged(j)
    BY <2>1, DeletingMakes
  <2> QED
    BY <1>1, <2>2
<1>4. ASSUME UNCHANGED heap PROVE Kept(positions, positions')
  BY <1>4, SameIsKept DEF heap
<1>5. ASSUME NEW j \in Job, Commit(j) PROVE Kept(positions, positions')
  BY <1>3, <1>4, <1>5 DEF Commit, Merge, MergeFails
<1>6. ASSUME NEW j \in Job, Throw(j) PROVE Kept(positions, positions')
  BY <1>4, <1>6 DEF Throw
<1>7. ASSUME UNCHANGED vars PROVE Kept(positions, positions')
  BY <1>4, <1>7 DEF vars
<1> QED
  BY <1>2, <1>5, <1>6, <1>7 DEF Next, Idle

LEMMA KeepsReaders ==
  ASSUME Inv, Kept(positions, positions')
  PROVE  Undisturbed
<1>1. ASSUME NEW d \in Dimensions, SoundNow(d)
      PROVE  positions'[d.posIndex] = positions[d.posIndex]
  BY <1>1 DEF SoundNow, Sound, Kept
<1>2. ASSUME NEW j \in Job, old'[j] = old[j]
      PROVE  Order(old[j])' = Order(old[j])
  <2>1. positions'[old[j].posIndex] = positions[old[j].posIndex]
    BY <1>1 DEF Inv, TypeInv, SoundInv
  <2> QED
    BY <1>2, <2>1 DEF Order, SizeElements
<1>3. ASSUME latest' = latest
      PROVE  Order(latest)' = Order(latest)
  <2>1. positions'[latest.posIndex] = positions[latest.posIndex]
    BY <1>1 DEF Inv, TypeInv, SoundInv
  <2> QED
    BY <1>3, <2>1 DEF Order, SizeElements
<1> QED
  BY <1>2, <1>3 DEF Undisturbed

(* Dimension::addElement, deleteElements, changeElementName, moveElement,  *)
(* moveElements, clearElements and merge keep every dimension well formed, *)
(* the latest one and the copies the jobs hold.                            *)
THEOREM TypeCorrect == Spec /\ MapsApart(request) => []TypeOK
<1>1. Init => request \in Assignments
  BY DEF Init
<1>2. request \in Assignments /\ [Next]_vars => (request \in Assignments)'
  BY NextKeepsRequest
<1>3. Inv /\ request \in Assignments => TypeOK
  BY InvGivesTypeOK
<1> QED
  BY <1>1, <1>2, <1>3, SpecKeepsInv, PTL DEF Spec

(* ElementList recycles slots safely: what deleteElements puts on the free *)
(* list no element of the published dimension uses, and addElement never   *)
(* counts a page past what it was given out.                               *)
THEOREM FreeSlotsAreFreeCorrect == Spec /\ MapsApart(request) => []FreeSlotsAreFree
<1>1. Inv => FreeSlotsAreFree
  BY DEF Inv, SoundInv, SoundNow, Sound, SlotsApart, FreeSlotsAreFree
<1> QED
  BY <1>1, SpecKeepsInv, PTL

(* Dimension::merge publishes dimensions that pass Dimension::verify, the  *)
(* check it has switched off: the list and its three indexes agree.        *)
THEOREM InStepAtRestCorrect == Spec /\ PartsApart(request) => []InStepAtRest
<1>1. Spec /\ PartsApart(request) => MapsApart(request)
  BY PartsApartIs
<1>2. PartsApart(request) /\ [Next]_vars => PartsApart(request)'
  BY NextKeepsRequest DEF PartsApart, BulkApart, NamesApart, Asks
<1>3. Inv /\ PartsApart(request) => InStepAtRest
  BY InvGivesInStep
<1> QED
  BY <1>1, <1>2, <1>3, SpecKeepsInv, PTL DEF Spec

(* A tree that somebody reads shows its elements in the same order as long *)
(* as it lives: no change but moveElements writes a vector of posIndex     *)
(* that is shared.                                                         *)
THEOREM OthersLeaveReadersCorrect == Spec /\ MapsApart(request) => OthersLeaveReaders
<1>1. Inv /\ [Next]_vars => [MovesInBulk \/ Undisturbed]_vars
  BY NextKeepsVectors, KeepsReaders
<1> QED
  BY <1>1, SpecKeepsInv, PTL DEF Spec, OthersLeaveReaders
-----------------------------------------------------------------------------
(***************************************************************************)
(* The order of the elements: the requests, and what they do to it.        *)
(***************************************************************************)

(* No two renames of the dimension give it one name, none the loaded one.  *)
(* The rename to the name that the job's copy has is acknowledged without  *)
(* an effect, also when another job has renamed the dimension meanwhile.   *)
(* Such a rename comes before the other one in the serial order, while the *)
(* refinement puts each request where it is merged.                        *)
RenamesApart(q) ==
  \A j \in Job : q[j].op = "rename_dimension" =>
    /\ q[j].name # LoadedName
    /\ \A k \in Job : q[k].op = "rename_dimension" /\ k # j => q[k].name # q[j].name

OrderApart(q) == PartsApart(q) /\ RenamesApart(q)

Entry(e) == [id |-> e.id, name |-> e.name]

(* The elements of d in the order of the vector.                           *)
Listed(d, vec) == [i \in 1 .. SizeElements(d) |-> Entry(d.slots[vec[i]])]

Entries == [id : Id, name : Name]

(* What is in the order: each identifier once, and each name.              *)
IsOrder(o, d) ==
  /\ o \in Seq(Entries)
  /\ \A i, k \in DOMAIN o : o[i].id = o[k].id => i = k
  /\ \A i \in DOMAIN o : o[i].id \in DOMAIN d.idsMap
  /\ \A x \in DOMAIN d.idsMap : \E i \in DOMAIN o : o[i].id = x
  /\ \A i \in DOMAIN o : o[i].name \in DOMAIN d.namesMap
  /\ \A n \in DOMAIN d.namesMap : \E i \in DOMAIN o : o[i].name = n

(* What request q makes of the order a of d: the order b of c.             *)
Created(q, d, a, c, b) ==
  \E x \in DOMAIN c.idsMap \ DOMAIN d.idsMap :
    /\ b = Append(a, [id |-> x, name |-> q.name])
    /\ DOMAIN c.idsMap = DOMAIN d.idsMap \union {x}
    /\ \A i \in DOMAIN a : a[i].name # q.name

Renamed(q, d, a, c, b) ==
  \E i \in DOMAIN a :
    /\ a[i].id = q.id
    /\ \A k \in DOMAIN a : a[k].name = q.name => a[i].name = q.name
    /\ b = [a EXCEPT ![i].name = q.name]
    /\ DOMAIN c.idsMap = DOMAIN d.idsMap

Shifted(q, d, a, c, b) ==
  \E i \in DOMAIN a :
    /\ a[i].id = q.id
    /\ q.position \in DOMAIN a
    /\ b = InsertAt(RemoveAt(a, i), q.position, a[i])
    /\ DOMAIN c.idsMap = DOMAIN d.idsMap

Destroyed(q, d, a, c, b) ==
  /\ b = Sublist(a, {i \in DOMAIN a : a[i].id \notin Range(q.ids)})
  /\ DOMAIN c.idsMap \subseteq DOMAIN d.idsMap

Cleared(c, b) == b = <<>> /\ DOMAIN c.idsMap = {}

Effect(q, d, a, c, b) ==
  /\ c.name = d.name
  /\ c.holder = d.holder <=> q.op # "clear"
  /\ q.op = "create" => Created(q, d, a, c, b)
  /\ q.op = "rename" => Renamed(q, d, a, c, b)
  /\ q.op = "move" => Shifted(q, d, a, c, b)
  /\ q.op \in {"destroy", "destroy_bulk"} => Destroyed(q, d, a, c, b)
  /\ q.op = "clear" => Cleared(c, b)

(* A copy has the effect of its request.                                   *)
EffectOf(j) ==
  pc[j] = "working" /\ OfRequest(j) =>
    Effect(request[j], old[j], Order(old[j]), mine[j], Order(mine[j]))

EffectInv == \A j \in Job : EffectOf(j)

(* What a job drew nobody has published, as long as the job may commit.    *)
DrawnOf(j) ==
  pc[j] = "working" /\ request[j].op = "create" /\ latest.elementList = old[j].elementList =>
    \A i \in DOMAIN mine[j].idsMap \ DOMAIN old[j].idsMap : i \notin used

(* What was published is below the counter of the holder.                  *)
UsedInv ==
  /\ DOMAIN latest.idsMap \subseteq used
  /\ \A i \in used : i < nextId[latest.holder]
  /\ \A j \in Job : DrawnOf(j)

(* A name of the dimension is the loaded one or that of one rename.        *)
NameOf(name, q, J) ==
  name = LoadedName \/ \E k \in J : q[k].op = "rename_dimension" /\ name = q[k].name

NamedOf(j) ==
  pc[j] = "working" /\ request[j].op = "rename_dimension" =>
    mine[j].name = request[j].name /\ NameOf(old[j].name, request, Job \ {j})

DoneJobs == {k \in Job : pc[k] = "done"}

NameInv ==
  /\ NameOf(latest.name, request, DoneJobs)
  /\ \A j \in Job : NamedOf(j)

OrderInv ==
  /\ OrderApart(request) /\ ~Asks(request, "move_bulk")
  /\ EffectInv /\ UsedInv /\ NameInv

-----------------------------------------------------------------------------
(* The listed elements of a dimension.                                     *)
IsListed(o, d, vec) ==
  /\ o \in Seq(Entries)
  /\ Len(o) = Len(vec) /\ Len(vec) \in Nat
  /\ DOMAIN o = 1 .. Len(vec) /\ DOMAIN vec = 1 .. Len(vec)
  /\ \A i \in 1 .. Len(vec) :
       /\ vec[i] \in DOMAIN d.slots
       /\ o[i] = Entry(d.slots[vec[i]])
       /\ o[i].id = d.slots[vec[i]].id /\ o[i].name = d.slots[vec[i]].name

LEMMA ListedIs ==
  ASSUME NEW d \in Dimensions, NEW vec, Lists(d, vec), IdsLead(d),
         NEW o, o = Listed(d, vec)
  PROVE  IsListed(o, d, vec)
<1>1. PICK n : n = Len(vec)
  OBVIOUS
<1>2. SizeElements(d) = n /\ DOMAIN vec = 1 .. n /\ n \in Nat
  BY <1>1, SizeIsLength
<1>3. o = [i \in 1 .. n |-> Entry(d.slots[vec[i]])]
  BY <1>2 DEF Listed
<1>4. ASSUME NEW i \in 1 .. n
      PROVE  /\ vec[i] \in DOMAIN d.slots
             /\ Entry(d.slots[vec[i]]) \in Entries
             /\ Entry(d.slots[vec[i]]).id = d.slots[vec[i]].id
             /\ Entry(d.slots[vec[i]]).name = d.slots[vec[i]].name
  <2>1. vec[i] \in DOMAIN d.slots
    BY <1>2, <1>4 DEF Lists, Range
  <2>2. d.slots \in Partial(Slot, ElementRecord)
    BY DEF Dimensions
  <2>3. PICK slots : slots = d.slots
    OBVIOUS
  <2>4. slots[vec[i]] \in ElementRecord
    BY <2>1, <2>2, <2>3, PartialIs
  <2> QED
    BY <2>1, <2>3, <2>4 DEF Entry, Entries, ElementRecord
<1>5. o \in [1 .. n -> Entries]
  BY <1>3, <1>4
<1>6. o \in Seq(Entries) /\ Len(o) = n
  BY <1>2, <1>5
<1> QED
  BY <1>1, <1>2, <1>3, <1>4, <1>6 DEF IsListed

LEMMA ListedIsOrder ==
  ASSUME NEW d \in Dimensions, NEW vec, Lists(d, vec), IdsLead(d), NamesLead(d),
         NEW o, o = Listed(d, vec)
  PROVE  IsOrder(o, d)
<1>1. IsListed(o, d, vec)
  BY ListedIs
<1>2. /\ o \in Seq(Entries)
      /\ DOMAIN o = 1 .. Len(vec) /\ DOMAIN vec = 1 .. Len(vec)
      /\ \A i \in 1 .. Len(vec) :
           /\ vec[i] \in DOMAIN d.slots
           /\ o[i].id = d.slots[vec[i]].id /\ o[i].name = d.slots[vec[i]].name
  BY <1>1 DEF IsListed
<1>3. \A i, k \in 1 .. Len(vec) : vec[i] = vec[k] => i = k
  BY <1>2 DEF Lists, IsInjective
<1>4. \A s \in DOMAIN d.slots : \E i \in 1 .. Len(vec) : vec[i] = s
  BY <1>2 DEF Lists, Range
<1>5. ASSUME NEW i \in DOMAIN o, NEW k \in DOMAIN o, o[i].id = o[k].id
      PROVE  i = k
  <2>1. vec[i] = vec[k]
    BY <1>2, <1>5 DEF IdsLead
  <2> QED
    BY <1>2, <1>3, <2>1
<1>6. \A i \in DOMAIN o : o[i].id \in DOMAIN d.idsMap /\ o[i].name \in DOMAIN d.namesMap
  BY <1>2 DEF IdsLead, NamesLead
<1>7. ASSUME NEW x \in DOMAIN d.idsMap
      PROVE  \E i \in DOMAIN o : o[i].id = x
  <2>1. PICK s \in DOMAIN d.slots : d.slots[s].id = x
    BY DEF IdsLead
  <2>2. PICK i \in 1 .. Len(vec) : vec[i] = s
    BY <1>4
  <2> QED
    BY <1>2, <2>1, <2>2
<1>8. ASSUME NEW n \in DOMAIN d.namesMap
      PROVE  \E i \in DOMAIN o : o[i].name = n
  <2>1. PICK s \in DOMAIN d.slots : d.slots[s].name = n
    BY DEF NamesLead
  <2>2. PICK i \in 1 .. Len(vec) : vec[i] = s
    BY <1>4
  <2> QED
    BY <1>2, <2>1, <2>2
<1> QED
  BY <1>2, <1>5, <1>6, <1>7, <1>8 DEF IsOrder

(* Two sequences of one length with equal elements.                        *)
LEMMA SequencesAreEqual ==
  ASSUME NEW S, NEW a \in Seq(S), NEW b \in Seq(S), Len(a) = Len(b),
         \A i \in 1 .. Len(a) : a[i] = b[i]
  PROVE  a = b
OBVIOUS

(* Dimension::addElement appends an element.                               *)
LEMMA CreatedIs ==
  ASSUME NEW d \in Dimensions, NEW vec, Lists(d, vec), IdsLead(d), NamesLead(d),
         NEW c \in Dimensions, NEW vec2, Lists(c, vec2), IdsLead(c),
         NEW slot, slot \notin DOMAIN d.slots, vec2 = Append(vec, slot),
         NEW e, c.slots = Allocate(d.slots, slot, e),
         e.id \notin DOMAIN d.idsMap, c.idsMap = Allocate(d.idsMap, e.id, slot),
         e.name \notin DOMAIN d.namesMap,
         NEW q, q.name = e.name,
         NEW a, a = Listed(d, vec), NEW b, b = Listed(c, vec2)
  PROVE  Created(q, d, a, c, b)
<1>1. IsListed(a, d, vec) /\ IsListed(b, c, vec2)
  BY ListedIs
<1>2. /\ a \in Seq(Entries) /\ Len(a) = Len(vec) /\ Len(vec) \in Nat
      /\ DOMAIN a = 1 .. Len(vec) /\ DOMAIN vec = 1 .. Len(vec)
      /\ \A i \in 1 .. Len(vec) :
           vec[i] \in DOMAIN d.slots /\ a[i] = Entry(d.slots[vec[i]]) /\ a[i].name = d.slots[vec[i]].name
  BY <1>1 DEF IsListed
<1>3. /\ b \in Seq(Entries) /\ Len(b) = Len(vec2)
      /\ \A i \in 1 .. Len(vec2) : b[i] = Entry(c.slots[vec2[i]])
  BY <1>1 DEF IsListed
<1>4. vec \in Seq(Slot) /\ vec2 \in Seq(Slot)
  BY SMTT(30) DEF Lists
<1>5. PICK n \in Nat : n = Len(vec)
  BY <1>2
<1>6. /\ Len(vec2) = n + 1
      /\ \A i \in 1 .. n : vec2[i] = vec[i]
      /\ vec2[n + 1] = slot
  BY <1>4, <1>5
<1>7. PICK x : x = [id |-> e.id, name |-> q.name]
  OBVIOUS
<1>8. c.slots[slot] = e /\ \A s \in DOMAIN d.slots : c.slots[s] = d.slots[s]
  BY DEF Allocate
<1>9. b[n + 1] = x
  BY <1>3, <1>5, <1>6, <1>7, <1>8 DEF Entry
<1>10. \A i \in 1 .. n : b[i] = a[i]
  BY <1>2, <1>3, <1>5, <1>6, <1>8
<1>11. x \in Entries
  BY <1>3, <1>5, <1>6, <1>9
<1>12. b = Append(a, x)
  <2>1. PICK a2 : a2 = Append(a, x)
    OBVIOUS
  <2>2. /\ a2 \in Seq(Entries) /\ Len(a2) = n + 1
        /\ \A i \in 1 .. n : a2[i] = a[i]
        /\ a2[n + 1] = x
    BY <1>2, <1>5, <1>11, <2>1
  <2>3. \A i \in 1 .. n + 1 : a2[i] = b[i]
    BY <1>9, <1>10, <2>2
  <2> QED
    BY <1>3, <1>6, <2>1, <2>2, <2>3, SequencesAreEqual
<1>13. DOMAIN c.idsMap = DOMAIN d.idsMap \union {e.id}
  BY DEF Allocate
<1>14. \A i \in DOMAIN a : a[i].name # q.name
  BY <1>2 DEF NamesLead
<1>15. e.id \in DOMAIN c.idsMap \ DOMAIN d.idsMap
  BY <1>13
<1> QED
  BY <1>7, <1>12, <1>13, <1>14, <1>15 DEF Created

(* Dimension::changeElementName changes a name.                            *)
LEMMA RenamedIs ==
  ASSUME NEW d \in Dimensions, NEW vec, Lists(d, vec), IdsLead(d), NamesLead(d),
         NEW c \in Dimensions, Lists(c, vec), IdsLead(c),
         NEW q, q.id \in DOMAIN d.idsMap, NEW slot, slot = d.idsMap[q.id],
         q.name \in DOMAIN d.namesMap => d.namesMap[q.name] = slot,
         NEW p, IsRenamed(c, d, p, slot, q.name),
         NEW a, a = Listed(d, vec), NEW b, b = Listed(c, vec)
  PROVE  Renamed(q, d, a, c, b)
<1>1. IsListed(a, d, vec) /\ IsListed(b, c, vec)
  BY ListedIs
<1>2. /\ a \in Seq(Entries) /\ Len(a) = Len(vec) /\ Len(vec) \in Nat
      /\ DOMAIN a = 1 .. Len(vec) /\ DOMAIN vec = 1 .. Len(vec)
      /\ \A i \in 1 .. Len(vec) :
           /\ vec[i] \in DOMAIN d.slots /\ a[i] = Entry(d.slots[vec[i]])
           /\ a[i].id = d.slots[vec[i]].id /\ a[i].name = d.slots[vec[i]].name
  BY <1>1 DEF IsListed
<1>3. /\ b \in Seq(Entries) /\ Len(b) = Len(vec) /\ DOMAIN b = 1 .. Len(vec)
      /\ \A i \in 1 .. Len(vec) : b[i] = Entry(c.slots[vec[i]])
  BY <1>1 DEF IsListed
<1>4. slot \in DOMAIN d.slots /\ d.slots[slot].id = q.id
  BY DEF IdsLead
<1>5. PICK i \in 1 .. Len(vec) : vec[i] = slot
  BY <1>2, <1>4 DEF Lists, Range
<1>6. \A k \in 1 .. Len(vec) : k # i => vec[k] # slot
  BY <1>2, <1>5 DEF Lists, IsInjective
<1>7. a[i].id = q.id
  BY <1>2, <1>4, <1>5
<1>8. ASSUME NEW k \in DOMAIN a, a[k].name = q.name
      PROVE  a[i].name = q.name
  <2>1. d.namesMap[q.name] = vec[k] /\ q.name \in DOMAIN d.namesMap
    BY <1>2, <1>8 DEF NamesLead
  <2>2. k = i
    BY <1>2, <1>6, <1>8, <2>1
  <2> QED
    BY <1>8, <2>2
<1>9. b = [a EXCEPT ![i].name = q.name]
  <2>1. PICK r : r = [a EXCEPT ![i].name = q.name]
    OBVIOUS
  <2>2. ASSUME NEW k \in 1 .. Len(vec)
        PROVE  b[k] = r[k]
    <3>1. a[k] = [id |-> d.slots[vec[k]].id, name |-> d.slots[vec[k]].name]
      BY <1>2 DEF Entry
    <3>2. b[k] = [id |-> c.slots[vec[k]].id, name |-> c.slots[vec[k]].name]
      BY <1>3 DEF Entry
    <3>3. /\ c.slots[vec[k]].id = d.slots[vec[k]].id
          /\ c.slots[vec[k]].name = IF vec[k] = slot THEN q.name ELSE d.slots[vec[k]].name
      BY <1>2 DEF IsRenamed
    <3>4. CASE k = i
      <4>1. b[k] = [id |-> d.slots[vec[k]].id, name |-> q.name]
        BY <1>5, <3>2, <3>3, <3>4
      <4>2. r[k] = [a[k] EXCEPT !.name = q.name]
        BY <1>2, <2>1, <3>4
      <4> QED
        BY <3>1, <4>1, <4>2
    <3>5. CASE k # i
      <4>1. b[k] = a[k]
        BY <1>6, <3>1, <3>2, <3>3, <3>5
      <4>2. r[k] = a[k]
        BY <1>2, <2>1, <3>5
      <4> QED
        BY <4>1, <4>2
    <3> QED
      BY <3>4, <3>5
  <2>3. b = [k \in 1 .. Len(vec) |-> b[k]]
    BY <1>3
  <2>4. r = [k \in 1 .. Len(vec) |-> r[k]]
    <3>1. a = [k \in 1 .. Len(vec) |-> a[k]]
      BY <1>2
    <3> QED
      BY <1>2, <2>1, <3>1
  <2> QED
    BY <2>1, <2>2, <2>3, <2>4
<1>10. DOMAIN c.idsMap = DOMAIN d.idsMap
  BY DEF IsRenamed
<1> QED
  BY <1>2, <1>5, <1>7, <1>8, <1>9, <1>10 DEF Renamed

IsCarried(new, vec, from, to, S) ==
  /\ new \in Seq(S) /\ Len(new) = Len(vec)
  /\ \A i \in 1 .. Len(vec) : new[i] = vec[Source(i, from, to)]

LEMMA CarriedIs ==
  ASSUME NEW S, NEW vec \in Seq(S), NEW from \in DOMAIN vec, NEW to \in DOMAIN vec,
         NEW e, vec[from] = e, NEW new, new = InsertAt(RemoveAt(vec, from), to, e)
  PROVE  IsCarried(new, vec, from, to, S)
<1>1. /\ new \in Seq(S) /\ Len(new) = Len(vec)
      /\ \A i \in DOMAIN vec : new[i] = vec[Source(i, from, to)]
  BY MoveVector
<1>2. DOMAIN vec = 1 .. Len(vec)
  OBVIOUS
<1> QED
  BY <1>1, <1>2 DEF IsCarried

(* Dimension::moveElement carries one element to its new position.         *)
LEMMA ShiftedIs ==
  ASSUME NEW d \in Dimensions, NEW vec, Lists(d, vec), IdsLead(d),
         NEW c \in Dimensions, NEW vec2, Lists(c, vec2), IdsLead(c), c.idsMap = d.idsMap,
         \A s \in DOMAIN d.slots :
           c.slots[s].id = d.slots[s].id /\ c.slots[s].name = d.slots[s].name,
         NEW q, NEW slot \in DOMAIN d.slots, d.slots[slot].id = q.id,
         NEW from \in DOMAIN vec, vec[from] = slot, q.position \in DOMAIN vec,
         \/ vec2 = MovedVector(vec, from, q.position, slot)
         \/ vec2 = vec /\ from = q.position,
         NEW a, a = Listed(d, vec), NEW b, b = Listed(c, vec2)
  PROVE  Shifted(q, d, a, c, b)
<1>1. IsListed(a, d, vec) /\ IsListed(b, c, vec2)
  BY ListedIs
<1>2. /\ a \in Seq(Entries) /\ Len(a) = Len(vec) /\ Len(vec) \in Nat
      /\ DOMAIN a = 1 .. Len(vec) /\ DOMAIN vec = 1 .. Len(vec)
      /\ \A i \in 1 .. Len(vec) :
           /\ vec[i] \in DOMAIN d.slots /\ a[i] = Entry(d.slots[vec[i]])
           /\ a[i].id = d.slots[vec[i]].id /\ a[i].name = d.slots[vec[i]].name
  BY <1>1 DEF IsListed
<1>3. /\ b \in Seq(Entries) /\ Len(b) = Len(vec2)
      /\ \A i \in 1 .. Len(vec2) : b[i] = Entry(c.slots[vec2[i]])
  BY <1>1 DEF IsListed
<1>4. vec \in Seq(Slot)
  BY DEF Lists
<1>5. PICK to : to = q.position
  OBVIOUS
<1>6. to \in DOMAIN vec /\ from \in DOMAIN a /\ to \in DOMAIN a
  BY <1>2, <1>5, SMTT(30)
<1>7. PICK n \in Nat : n = Len(vec)
  BY <1>2, Zenon
<1>8. SourcePermutes(n, from, to)
  BY <1>2, <1>6, <1>7, SourceIsBijection
<1>9. \A i \in 1 .. n : Source(i, from, to) \in 1 .. n
  BY <1>8 DEF SourcePermutes
<1>10. Len(vec2) = n /\ \A i \in 1 .. n : vec2[i] = vec[Source(i, from, to)]
  <2>1. CASE vec2 = MovedVector(vec, from, to, slot)
    <3>1. vec2 = InsertAt(RemoveAt(vec, from), to, slot)
      BY <2>1 DEF MovedVector
    <3>2. IsCarried(vec2, vec, from, to, Slot)
      BY <1>4, <1>6, <3>1, CarriedIs
    <3> QED
      BY <1>7, <3>2 DEF IsCarried
  <2>2. CASE vec2 = vec /\ from = to
    BY <1>7, <2>2 DEF Source
  <2> QED
    BY <1>5, <2>1, <2>2
<1>11. PICK m : m = InsertAt(RemoveAt(a, from), to, a[from])
  OBVIOUS
<1>12. m \in Seq(Entries) /\ Len(m) = n /\ \A i \in 1 .. n : m[i] = a[Source(i, from, to)]
  <2>1. PICK e : e = a[from]
    OBVIOUS
  <2>2. m = InsertAt(RemoveAt(a, from), to, e)
    BY <1>11, <2>1
  <2>3. IsCarried(m, a, from, to, Entries)
    BY <1>2, <1>6, <2>1, <2>2, CarriedIs
  <2> QED
    BY <1>2, <1>7, <2>3 DEF IsCarried
<1>13. ASSUME NEW i \in 1 .. n
       PROVE  b[i] = m[i]
  <2>1. PICK k \in 1 .. n : k = Source(i, from, to)
    BY <1>9
  <2>2. b[i] = Entry(c.slots[vec[k]]) /\ m[i] = Entry(d.slots[vec[k]])
    BY <1>2, <1>3, <1>7, <1>10, <1>12, <2>1
  <2>3. vec[k] \in DOMAIN d.slots
    BY <1>2, <1>7
  <2> QED
    BY <2>2, <2>3 DEF Entry
<1>14. b = m
  BY <1>3, <1>10, <1>12, <1>13, SequencesAreEqual
<1>15. a[from].id = q.id
  BY <1>2, <1>6
<1> QED
  BY <1>5, <1>6, <1>11, <1>14, <1>15 DEF Shifted

(* Dimension::deleteElements leaves the others in their order.             *)
LEMMA DestroyedIs ==
  ASSUME NEW d \in Dimensions, NEW vec, Lists(d, vec), IdsLead(d),
         NEW q, NEW p, NEW c, IsDeleted(c, d, p, vec, q.ids),
         NEW vec2, vec2 = Compact(vec, SlotsOf(d, q.ids)), Lists(c, vec2), IdsLead(c),
         NEW a, a = Listed(d, vec), NEW b, b = Listed(c, vec2)
  PROVE  Destroyed(q, d, a, c, b)
<1>0. c \in Dimensions
  BY DEF IsDeleted
<1>1. IsListed(a, d, vec) /\ IsListed(b, c, vec2)
  BY <1>0, ListedIs
<1>2. /\ a \in Seq(Entries) /\ Len(a) = Len(vec) /\ Len(vec) \in Nat
      /\ DOMAIN a = 1 .. Len(vec) /\ DOMAIN vec = 1 .. Len(vec)
      /\ \A i \in 1 .. Len(vec) :
           /\ vec[i] \in DOMAIN d.slots /\ a[i] = Entry(d.slots[vec[i]])
           /\ a[i].id = d.slots[vec[i]].id
  BY <1>1 DEF IsListed
<1>3. /\ b \in Seq(Entries) /\ Len(b) = Len(vec2)
      /\ \A i \in 1 .. Len(vec2) : vec2[i] \in DOMAIN c.slots /\ b[i] = Entry(c.slots[vec2[i]])
  BY <1>1 DEF IsListed
<1>4. PICK K : K = {i \in DOMAIN vec : vec[i] \notin SlotsOf(d, q.ids)}
  OBVIOUS
<1>5. PICK L : L = {i \in DOMAIN a : a[i].id \notin Range(q.ids)}
  OBVIOUS
<1>6. K = L
  <2>1. \A s \in DOMAIN d.slots : s \in SlotsOf(d, q.ids) <=> d.slots[s].id \in Range(q.ids)
    BY DEF SlotsOf, IdsLead
  <2> QED
    BY <1>2, <1>4, <1>5, <2>1
<1>7. vec \in Seq(Slot) /\ vec2 = Sublist(vec, K)
  BY <1>4 DEF Compact, Lists
<1>8. PICK r : r = Sublist(a, K)
  OBVIOUS
<1>9. K \in SUBSET DOMAIN vec /\ K \in SUBSET DOMAIN a
  BY <1>4, <1>5, <1>6
<1>10. /\ r \in Seq(Entries) /\ Len(r) = Cardinality(K)
       /\ \A k \in K : r[Rank(K, k)] = a[k]
  BY <1>2, <1>8, <1>9, SublistHolds
<1>11. /\ Len(vec2) = Cardinality(K) /\ Cardinality(K) \in 0 .. Len(vec)
       /\ \A i \in 1 .. Cardinality(K) : \E k \in K : Rank(K, k) = i /\ vec2[i] = vec[k]
  BY <1>7, <1>9, SublistHolds
<1>12. ASSUME NEW i \in 1 .. Cardinality(K)
       PROVE  b[i] = r[i]
  <2>1. PICK k \in K : Rank(K, k) = i /\ vec2[i] = vec[k]
    BY <1>11
  <2>2. r[i] = Entry(d.slots[vec[k]]) /\ b[i] = Entry(c.slots[vec[k]])
    BY <1>2, <1>3, <1>9, <1>10, <1>11, <2>1
  <2>3. vec[k] \in DOMAIN c.slots
    BY <1>3, <1>11, <2>1
  <2>4. c.slots[vec[k]].id = d.slots[vec[k]].id /\ c.slots[vec[k]].name = d.slots[vec[k]].name
    BY <2>3 DEF IsDeleted
  <2> QED
    BY <2>2, <2>4 DEF Entry
<1>13. b = r
  BY <1>3, <1>10, <1>11, <1>12, SequencesAreEqual
<1>14. DOMAIN c.idsMap \subseteq DOMAIN d.idsMap
  BY DEF IsDeleted, Without
<1> QED
  BY <1>5, <1>6, <1>8, <1>13, <1>14 DEF Destroyed

(* Dimension::clearElements leaves none.                                   *)
LEMMA ClearedIs ==
  ASSUME NEW c \in Dimensions, NEW vec2, c.idsMap = [x \in {} |-> 0],
         NEW b, b = Listed(c, vec2)
  PROVE  Cleared(c, b)
<1>1. DOMAIN c.idsMap = {}
  OBVIOUS
<1>2. SizeElements(c) = 0
  BY <1>1, FS_EmptySet DEF SizeElements
<1>3. b = [i \in 1 .. 0 |-> Entry(c.slots[vec2[i]])]
  BY <1>2 DEF Listed
<1>4. b = <<>>
  BY <1>3
<1> QED
  BY <1>1, <1>4 DEF Cleared

-----------------------------------------------------------------------------
(* What each change makes of the order of the elements.                    *)

OrderInNext(c) == Listed(c, positions'[c.posIndex])

HasEffect(j) ==
  Effect(request[j], latest, Order(latest), mine'[j], OrderInNext(mine'[j]))

(* The identifier that Create draws is the counter of the holder.          *)
Draws(j) ==
  \A i \in DOMAIN mine'[j].idsMap \ DOMAIN latest.idsMap : i = nextId[latest.holder]

LEMMA OrderIs ==
  ASSUME NEW d
  PROVE  Order(d) = Listed(d, positions[d.posIndex])
BY DEF Order, Listed, Entry

LEMMA CopyIs ==
  ASSUME NEW j \in Job, Makes(j), NEW c, c = mine'[j],
         NEW vec2, vec2 = positions'[c.posIndex]
  PROVE  c \in Dimensions /\ Lists(c, vec2) /\ IdsLead(c)
BY DEF Makes, Made, Sound

LEMMA CreateHasEffect ==
  ASSUME Inv, NamesLead(latest), NEW j \in Job, Create(j)
  PROVE  HasEffect(j) /\ Draws(j)
<1>1. PICK d : d = latest
  OBVIOUS
<1>2. PICK p : p = New(j)
  OBVIOUS
<1>3. PICK size : size = SizeOf(d, pageSize)
  OBVIOUS
<1>4. PICK slot : slot = SlotFor(d, size)
  OBVIOUS
<1>5. PICK id : id = nextId[d.holder]
  OBVIOUS
<1>6. PICK q : q = request[j]
  OBVIOUS
<1>7. PICK c : c = AddElement(d, p, slot, id, q.name)
  OBVIOUS
<1>8. /\ q.op = "create"
      /\ q.name \notin DOMAIN d.namesMap
      /\ Works(j, "create", c)
      /\ positions' = Allocate(positions, p,
           Append(SubSeq(positions[d.posIndex], 1, SizeElements(d)), slot))
  BY <1>1, <1>2, <1>3, <1>4, <1>5, <1>6, <1>7 DEF Create, SizeOf, SlotFor
<1>9. mine'[j] = c /\ Changing(j) /\ TypeInv /\ HeapInv
  BY <1>8, WorksIs DEF Inv
<1>10. p \in Pointer
  BY <1>2, <1>9, NewIsFresh
<1>11. q.name \in Name
  BY <1>6, <1>8, <1>9, RequestIs DEF TypeInv
<1>12. PICK vec : vec = positions[d.posIndex]
  OBVIOUS
<1>13. PICK pos : pos = positions
  OBVIOUS
<1>14. PICK sizes : sizes = pageSize
  OBVIOUS
<1>15. PICK next : next = nextId
  OBVIOUS
<1>16. /\ d \in Dimensions /\ Heaps(pos, sizes, next) /\ Sound(d, pos, sizes, next)
       /\ Lists(d, vec) /\ IdsLead(d) /\ NamesLead(d) /\ vec \in Seq(Slot)
  BY <1>1, <1>12, <1>13, <1>14, <1>15, LatestIs
<1>17. slot \in Slot /\ slot \notin DOMAIN d.slots
  <2>1. PICK after : after = SizeAfter(d, size, slot)
    OBVIOUS
  <2> QED
    BY <1>3, <1>4, <1>14, <1>16, <2>1, SlotIsNew
<1>18. id \in Id /\ id \notin DOMAIN d.idsMap
  <2>1. id = next[d.holder] /\ d.holder \in DOMAIN next /\ next \in [DOMAIN next -> Nat]
    BY <1>5, <1>15, <1>16 DEF Sound, Heaps
  <2>2. id \in Nat
    BY <2>1
  <2>3. \A i \in DOMAIN d.idsMap : i < id
    BY <1>16, <2>1 DEF Sound, IdsBelow
  <2>4. ~(id < id)
    BY <2>2
  <2> QED
    BY <2>2, <2>3, <2>4 DEF Id
<1>19. SizeElements(d) = Len(vec) /\ Len(vec) \in Nat
  BY <1>16, SizeIsLength
<1>20. PICK e : e = [id |-> id, name |-> q.name, position |-> SizeElements(d) + 1]
  OBVIOUS
<1>21. /\ c.name = d.name /\ c.holder = d.holder /\ c.posIndex = p
       /\ c.slots = Allocate(d.slots, slot, e)
       /\ c.idsMap = Allocate(d.idsMap, id, slot)
  BY <1>7, <1>10, <1>11, <1>16, <1>17, <1>18, <1>19, <1>20, AddElementIs
<1>22. PICK vec2 : vec2 = positions'[c.posIndex]
  OBVIOUS
<1>23. vec2 = Append(vec, slot)
  <2>1. SubSeq(vec, 1, Len(vec)) = vec
    BY <1>16
  <2>2. vec2 = Append(SubSeq(vec, 1, SizeElements(d)), slot)
    BY <1>8, <1>12, <1>21, <1>22 DEF Allocate
  <2> QED
    BY <1>19, <2>1, <2>2
<1>24. c \in Dimensions /\ Lists(c, vec2) /\ IdsLead(c)
  <2>1. Makes(j)
    BY CreateMakes
  <2> QED
    BY <1>9, <1>22, <2>1, CopyIs
<1>25. PICK a : a = Listed(d, vec)
  OBVIOUS
<1>26. PICK b : b = Listed(c, vec2)
  OBVIOUS
<1>27. e.id = id /\ e.name = q.name
  BY <1>20
<1>28. Created(q, d, a, c, b)
  BY <1>8, <1>16, <1>17, <1>18, <1>21, <1>23, <1>24, <1>25, <1>26, <1>27, CreatedIs
<1>29. Effect(q, d, a, c, b)
  BY <1>8, <1>21, <1>28 DEF Effect
<1>30. a = Order(latest) /\ b = OrderInNext(c)
  BY <1>1, <1>12, <1>22, <1>25, <1>26, OrderIs DEF OrderInNext
<1>31. \A i \in DOMAIN c.idsMap \ DOMAIN d.idsMap : i = id
  BY <1>21 DEF Allocate
<1>32. Draws(j)
  BY <1>1, <1>5, <1>9, <1>31 DEF Draws
<1> QED
  BY <1>1, <1>6, <1>9, <1>29, <1>30, <1>32 DEF HasEffect

LEMMA RenameHasEffect ==
  ASSUME Inv, NamesLead(latest), NEW j \in Job, Rename(j)
  PROVE  HasEffect(j)
<1>1. PICK d : d = latest
  OBVIOUS
<1>2. PICK p : p = New(j)
  OBVIOUS
<1>3. PICK q : q = request[j]
  OBVIOUS
<1>5. PICK slot : slot = d.idsMap[q.id]
  OBVIOUS
<1>6. PICK c : c = ChangeElementName(d, p, slot, q.name)
  OBVIOUS
<1>7. /\ q.op = "rename"
      /\ q.id \in DOMAIN d.idsMap
      /\ q.name \in DOMAIN d.namesMap => d.namesMap[q.name] = slot
      /\ Works(j, "rename", c)
      /\ positions' = positions
  BY <1>1, <1>2, <1>3, <1>5, <1>6 DEF Rename
<1>8. mine'[j] = c /\ Changing(j) /\ TypeInv /\ HeapInv
  BY <1>7, WorksIs DEF Inv
<1>9. p \in Pointer
  BY <1>2, <1>8, NewIsFresh
<1>10. q.name \in Name
  BY <1>3, <1>7, <1>8, RequestIs DEF TypeInv
<1>11. PICK vec : vec = positions[d.posIndex]
  OBVIOUS
<1>12. d \in Dimensions /\ Lists(d, vec) /\ IdsLead(d) /\ NamesLead(d)
  BY <1>1, <1>11, LatestIs
<1>13. slot \in DOMAIN d.slots
  BY <1>5, <1>7, <1>12 DEF IdsLead
<1>14. IsRenamed(c, d, p, slot, q.name)
  BY <1>6, <1>9, <1>10, <1>12, <1>13, RenameIs
<1>15. c.name = d.name /\ c.holder = d.holder /\ c.posIndex = d.posIndex
  BY <1>14 DEF IsRenamed
<1>16. vec = positions'[c.posIndex]
  BY <1>7, <1>11, <1>15
<1>17. c \in Dimensions /\ Lists(c, vec) /\ IdsLead(c)
  <2>1. Makes(j)
    BY RenameMakes
  <2> QED
    BY <1>8, <1>16, <2>1, CopyIs
<1>18. PICK a : a = Listed(d, vec)
  OBVIOUS
<1>19. PICK b : b = Listed(c, vec)
  OBVIOUS
<1>20. Renamed(q, d, a, c, b)
  BY <1>5, <1>7, <1>12, <1>14, <1>17, <1>18, <1>19, RenamedIs
<1>21. Effect(q, d, a, c, b)
  BY <1>7, <1>15, <1>20 DEF Effect
<1>22. a = Order(latest) /\ b = OrderInNext(c)
  BY <1>1, <1>11, <1>16, <1>18, <1>19, OrderIs DEF OrderInNext
<1> QED
  BY <1>1, <1>3, <1>8, <1>21, <1>22 DEF HasEffect

LEMMA MoveHasEffect ==
  ASSUME Inv, NEW j \in Job, Move(j)
  PROVE  HasEffect(j)
<1>1. PICK d : d = latest
  OBVIOUS
<1>2. PICK p : p = New(j)
  OBVIOUS
<1>3. PICK q : q = request[j]
  OBVIOUS
<1>4. PICK to : to = q.position
  OBVIOUS
<1>5. PICK slot : slot = d.idsMap[q.id]
  OBVIOUS
<1>6. PICK from : from = d.slots[slot].position
  OBVIOUS
<1>7. PICK was : was = positions[d.posIndex]
  OBVIOUS
<1>8. PICK vec : vec = MovedVector(was, from, to, slot)
  BY Zenon
<1>9. PICK P : P = Between(from, to)
  OBVIOUS
<1>10. PICK c : c = mine'[j]
  OBVIOUS
<1>11. /\ q.op = "move"
       /\ q.id \in DOMAIN d.idsMap
       /\ to <= SizeElements(d)
       /\ \/ /\ from = to /\ Works(j, "move", CheckOutElements(d, p))
             /\ positions' = positions
          \/ /\ Works(j, "move", Moved(d, p, vec, P))
             /\ positions' = Allocate(positions, p, vec)
  BY <1>1, <1>2, <1>3, <1>4, <1>5, <1>6, <1>7, <1>8, <1>9, Zenon
     DEF Move, MovedVector, Between, Moved
<1>12. /\ Changing(j) /\ TypeInv /\ HeapInv
       /\ \/ from = to /\ c = CheckOutElements(d, p) /\ positions' = positions
          \/ c = Moved(d, p, vec, P) /\ positions' = Allocate(positions, p, vec)
  BY <1>10, <1>11, WorksIs DEF Inv
<1>13. p \in Pointer
  BY <1>2, <1>12, NewIsFresh
<1>14. to \in Slot
  BY <1>3, <1>4, <1>11, <1>12, RequestIs DEF TypeInv
<1>15. AlignedNow(latest)
  BY <1>3, <1>11 DEF Inv, AlignInv, MapsApart, BulkApart, Asks
<1>16. d \in Dimensions /\ Lists(d, was) /\ IdsLead(d) /\ Aligned(d, was)
  BY <1>1, <1>7, <1>15, LatestIs DEF AlignedNow
<1>17. slot \in DOMAIN d.slots /\ d.slots[slot].id = q.id
  BY <1>5, <1>11, <1>16 DEF IdsLead
<1>18. from \in DOMAIN was /\ was[from] = slot
  BY <1>6, <1>16, <1>17, PositionIs
<1>19. to \in DOMAIN was
  <2>1. SizeElements(d) = Len(was) /\ DOMAIN was = 1 .. Len(was) /\ Len(was) \in Nat
    BY <1>16, SizeIsLength
  <2> QED
    BY <1>11, <1>14, <2>1 DEF Slot
<1>20. PICK vec2 : vec2 = positions'[c.posIndex]
  OBVIOUS
<1>21. /\ c.name = d.name /\ c.holder = d.holder /\ c.idsMap = d.idsMap
       /\ \A s \in DOMAIN d.slots :
            c.slots[s].id = d.slots[s].id /\ c.slots[s].name = d.slots[s].name
       /\ vec2 = MovedVector(was, from, to, slot) \/ (vec2 = was /\ from = to)
  <2>1. CASE from = to /\ c = CheckOutElements(d, p) /\ positions' = positions
    <3>1. /\ c.name = d.name /\ c.holder = d.holder /\ c.idsMap = d.idsMap
          /\ c.slots = d.slots /\ c.posIndex = d.posIndex
      BY <1>13, <1>16, <2>1, CheckOutIs
    <3> QED
      BY <1>7, <1>20, <2>1, <3>1
  <2>2. CASE c = Moved(d, p, vec, P) /\ positions' = Allocate(positions, p, vec)
    <3>1. IsMoved(vec, P, d, was)
      BY <1>5, <1>6, <1>8, <1>9, <1>11, <1>14, <1>16, MovedVectorIs
    <3>2. /\ vec \in Seq(Slot) /\ DOMAIN vec = DOMAIN was
          /\ IsInjective(vec) /\ Range(vec) = Range(was)
          /\ P \in SUBSET DOMAIN vec /\ P \in SUBSET Slot
          /\ InPlace(d, vec, P)
      BY <3>1 DEF IsMoved
    <3>3. /\ c.name = d.name /\ c.holder = d.holder /\ c.idsMap = d.idsMap
          /\ c.slots = Reposition(d.slots, vec, P) /\ c.posIndex = p
      BY <1>13, <1>16, <2>2, <3>2, MovedIs
    <3>4. Lists(d, vec)
      BY <1>16, <3>2 DEF Lists
    <3>5. \A s \in DOMAIN d.slots :
            c.slots[s].id = d.slots[s].id /\ c.slots[s].name = d.slots[s].name
      BY <1>16, <3>2, <3>3, <3>4, RepositionLists
    <3>6. vec2 = vec
      BY <1>20, <2>2, <3>3 DEF Allocate
    <3> QED
      BY <1>8, <3>3, <3>5, <3>6, SMTT(30)
  <2> QED
    BY <1>12, <2>1, <2>2
<1>22. c \in Dimensions /\ Lists(c, vec2) /\ IdsLead(c)
  <2>1. Makes(j)
    BY MoveMakes
  <2> QED
    BY <1>10, <1>20, <2>1, CopyIs
<1>23. PICK a : a = Listed(d, was)
  OBVIOUS
<1>24. PICK b : b = Listed(c, vec2)
  OBVIOUS
<1>25. Shifted(q, d, a, c, b)
  BY <1>4, <1>16, <1>17, <1>18, <1>19, <1>21, <1>22, <1>23, <1>24, ShiftedIs
<1>26. Effect(q, d, a, c, b)
  BY <1>11, <1>21, <1>25 DEF Effect
<1>27. a = Order(latest) /\ b = OrderInNext(c)
  BY <1>1, <1>7, <1>20, <1>23, <1>24, OrderIs DEF OrderInNext
<1> QED
  BY <1>1, <1>3, <1>10, <1>26, <1>27 DEF HasEffect

(* What deleteElements makes of the latest dimension, in the copy of a job *)
(* or inside the merge.                                                    *)
DeletesInOrder(j, c) ==
  /\ c.name = latest.name /\ c.holder = latest.holder
  /\ Destroyed(request[j], latest, Order(latest), c, OrderInNext(c))

LEMMA DeletingHasEffect ==
  ASSUME Inv, NEW j \in Job, Changing(j), request[j].op \in {"destroy", "destroy_bulk"},
         AllocateDeleted(latest, New(j), request[j].ids),
         NEW c, c = DeleteElements(latest, New(j), positions[latest.posIndex], request[j].ids)
  PROVE  DeletesInOrder(j, c)
<1>1. PICK d : d = latest
  OBVIOUS
<1>2. PICK p : p = New(j)
  OBVIOUS
<1>3. PICK q : q = request[j]
  OBVIOUS
<1>4. PICK ids : ids = q.ids
  OBVIOUS
<1>5. PICK was : was = positions[d.posIndex]
  OBVIOUS
<1>6. TypeInv /\ HeapInv
  BY DEF Inv
<1>7. p \in Pointer
  BY <1>2, <1>6, NewIsFresh
<1>8. ids \in Seq(Id) /\ IsInjective(ids)
  BY <1>3, <1>4, <1>6, RequestIs DEF TypeInv
<1>9. d \in Dimensions /\ Lists(d, was) /\ IdsLead(d)
  BY <1>1, <1>5, LatestIs
<1>10. IsDeleted(c, d, p, was, ids)
  <2>1. c = DeleteElements(d, p, was, ids)
    BY <1>1, <1>2, <1>3, <1>4, <1>5, SMTT(30)
  <2> QED
    BY <1>7, <1>8, <1>9, <2>1, DeleteIs
<1>11. c.name = d.name /\ c.holder = d.holder /\ c.posIndex = p
  BY <1>10 DEF IsDeleted
<1>12. PICK vec2 : vec2 = positions'[c.posIndex]
  OBVIOUS
<1>13. vec2 = Compact(was, SlotsOf(d, ids))
  BY <1>1, <1>2, <1>3, <1>4, <1>5, <1>11, <1>12 DEF AllocateDeleted, Allocate
<1>14. Lists(c, vec2) /\ IdsLead(c)
  <2>1. IsDestroyed(j, c)
    BY DeletingMakes
  <2> QED
    BY <1>12, <2>1 DEF IsDestroyed, Sound
<1>15. PICK a : a = Listed(d, was)
  OBVIOUS
<1>16. PICK b : b = Listed(c, vec2)
  OBVIOUS
<1>17. Destroyed(q, d, a, c, b)
  <2>1. IsDeleted(c, d, p, was, q.ids) /\ vec2 = Compact(was, SlotsOf(d, q.ids))
    BY <1>4, <1>10, <1>13
  <2> QED
    BY <1>9, <1>14, <1>15, <1>16, <2>1, DestroyedIs
<1>18. a = Order(latest) /\ b = OrderInNext(c)
  BY <1>1, <1>5, <1>12, <1>15, <1>16, OrderIs DEF OrderInNext
<1> QED
  BY <1>1, <1>3, <1>11, <1>17, <1>18 DEF DeletesInOrder

LEMMA DestroyHasEffect ==
  ASSUME Inv, NEW j \in Job, Destroy(j), ~Pessimistic(j)
  PROVE  HasEffect(j)
<1>1. PICK c : c = DeleteElements(latest, New(j), positions[latest.posIndex], request[j].ids)
  OBVIOUS
<1>2. PICK op \in {"destroy", "destroy_bulk"} : op = request[j].op
  BY DEF Destroy
<1>3. Works(j, op, c) /\ AllocateDeleted(latest, New(j), request[j].ids)
  BY <1>1, <1>2 DEF Destroy
<1>4. mine'[j] = c /\ Changing(j)
  BY <1>3, WorksIs DEF Inv
<1>5. DeletesInOrder(j, c)
  BY <1>1, <1>2, <1>3, <1>4, DeletingHasEffect
<1> QED
  BY <1>2, <1>4, <1>5 DEF HasEffect, Effect, DeletesInOrder

LEMMA ClearHasEffect ==
  ASSUME Inv, NEW j \in Job, Clear(j)
  PROVE  HasEffect(j)
<1>1. PICK d : d = latest
  OBVIOUS
<1>2. PICK p : p = New(j)
  OBVIOUS
<1>3. PICK c : c = ClearElements(d, p)
  OBVIOUS
<1>4. request[j].op = "clear" /\ Works(j, "clear", c)
  BY <1>1, <1>2, <1>3 DEF Clear, Works
<1>5. mine'[j] = c /\ Changing(j) /\ TypeInv /\ HeapInv
  BY <1>4, WorksIs DEF Inv
<1>6. p \in Pointer /\ p \notin DOMAIN nextId
  BY <1>2, <1>5, NewIsFresh
<1>7. d \in Dimensions /\ d.holder \in DOMAIN nextId
  BY <1>1, LatestIs
<1>8. c \in Dimensions
  <2>1. Makes(j)
    BY ClearMakes
  <2> QED
    BY <1>5, <2>1, CopyIs
<1>9. c.name = d.name /\ c.holder = p /\ c.idsMap = [x \in {} |-> 0]
  <2>1. PICK e : e = CheckOutAll(d, p)
    OBVIOUS
  <2>2. e \in Dimensions /\ e.name = d.name
    BY <1>6, <1>7, <2>1, CheckOutIs
  <2>3. PICK empty : empty = [x \in {} |-> 0]
    OBVIOUS
  <2>4. c = [e EXCEPT !.page = NoPage, !.free = <<>>, !.holder = p, !.slots = empty,
                      !.idsMap = empty, !.namesMap = empty]
    BY <1>3, <2>1, <2>3 DEF ClearElements
  <2> QED
    BY <2>2, <2>3, <2>4 DEF Dimensions
<1>10. PICK vec2 : vec2 = positions'[c.posIndex]
  OBVIOUS
<1>11. Cleared(c, OrderInNext(c))
  BY <1>8, <1>9, <1>10, ClearedIs DEF OrderInNext
<1>12. c.holder # d.holder
  BY <1>6, <1>7, <1>9
<1> QED
  BY <1>1, <1>4, <1>5, <1>9, <1>11, <1>12 DEF HasEffect, Effect

LEMMA ChangeHasEffect ==
  ASSUME Inv, NamesLead(latest), NEW j \in Job, Change(j), OfRequest(j),
         request[j].op # "move_bulk"
  PROVE  HasEffect(j)
<1>1. ~MoveBulk(j) /\ ~RenameDimension(j) /\ ~Pessimistic(j)
  BY DEF OfRequest, MoveBulk, RenameDimension
<1> QED
  BY <1>1, CreateHasEffect, RenameHasEffect, MoveHasEffect, DestroyHasEffect, ClearHasEffect
     DEF Change

-----------------------------------------------------------------------------
(* The invariant of the order: a job changes its copy.                     *)

LEMMA OrderIsKept ==
  ASSUME Kept(positions, positions'), NEW d, SoundNow(d)
  PROVE  OrderInNext(d) = Order(d)
<1>1. positions'[d.posIndex] = positions[d.posIndex]
  BY DEF SoundNow, Sound, Kept
<1> QED
  BY <1>1, OrderIs DEF OrderInNext

LEMMA OrderOfNext ==
  ASSUME NEW j \in Job
  PROVE  /\ Order(old[j])' = OrderInNext(old'[j])
         /\ Order(mine[j])' = OrderInNext(mine'[j])
BY DEF Order, OrderInNext, Listed, Entry

(* What another step leaves alone.                                         *)
LeftAlone(k) ==
  /\ old'[k] = old[k] /\ mine'[k] = mine[k]
  /\ pc'[k] = "working" => pc[k] = "working" /\ commitTry'[k] = commitTry[k]

LEMMA EffectIsKept ==
  ASSUME Inv, EffectInv, Kept(positions, positions'), request' = request,
         NEW k \in Job, LeftAlone(k)
  PROVE  EffectOf(k)'
<1>1. SUFFICES ASSUME pc'[k] = "working", OfRequest(k)'
               PROVE  Effect(request[k], old'[k], Order(old[k])', mine'[k], Order(mine[k])')
  BY DEF EffectOf
<1>2. pc[k] = "working" /\ commitTry'[k] = commitTry[k]
  BY <1>1 DEF LeftAlone
<1>3. OfRequest(k)
  BY <1>1, <1>2 DEF OfRequest, Pessimistic
<1>4. Effect(request[k], old[k], Order(old[k]), mine[k], Order(mine[k]))
  BY <1>2, <1>3 DEF EffectInv, EffectOf
<1>5. SoundNow(old[k]) /\ SoundNow(mine[k])
  BY DEF Inv, SoundInv
<1>6. OrderInNext(old[k]) = Order(old[k]) /\ OrderInNext(mine[k]) = Order(mine[k])
  BY <1>5, OrderIsKept
<1>7. old'[k] = old[k] /\ mine'[k] = mine[k]
  BY DEF LeftAlone
<1>8. Order(old[k])' = Order(old[k]) /\ Order(mine[k])' = Order(mine[k])
  BY <1>6, <1>7, OrderOfNext
<1> QED
  BY <1>4, <1>7, <1>8

LEMMA NameOfMore ==
  ASSUME NEW name, NEW q, NEW J, NEW K, J \subseteq K, NameOf(name, q, J)
  PROVE  NameOf(name, q, K)
BY DEF NameOf

LEMMA ChangeKeepsOrders ==
  ASSUME Inv, OrderInv, NEW j \in Job, Change(j)
  PROVE  OrderInv'
<1>1. PICK op, c : Works(j, op, c)
  BY ChangeMakes
<1>2. Makes(j)
  BY ChangeMakes
<1>3. /\ TypeInv /\ SoundInv /\ NamesInv
      /\ OrderApart(request) /\ ~Asks(request, "move_bulk")
      /\ EffectInv /\ UsedInv /\ NameInv
  BY DEF Inv, OrderInv
<1>4. /\ old'[j] = latest /\ mine'[j] = c /\ pc[j] = "start" /\ pc'[j] = "working"
      /\ \A k \in Job : k # j => old'[k] = old[k] /\ mine'[k] = mine[k] /\ pc'[k] = pc[k]
      /\ request' = request /\ latest' = latest /\ commitTry' = commitTry /\ used' = used
  BY <1>1, <1>3, WorksChanges
<1>5. request[j].op # "move_bulk"
  BY <1>3 DEF Asks
<1>6. /\ Kept(positions, positions') /\ Grown(nextId, nextId')
      /\ Heaps(positions', pageSize', nextId')
  BY <1>2, <1>5 DEF Makes, HeapChanged
<1>7. NamesLead(latest) /\ NamesApart(request) /\ MapsApart(request)
  BY <1>3 DEF NamesInv, OrderApart, PartsApart, Inv
<1>8. \A k \in Job : k # j => LeftAlone(k)
  BY <1>4 DEF LeftAlone
<1>9. EffectInv'
  <2>1. ASSUME OfRequest(j)'
        PROVE  Effect(request[j], latest, Order(old[j])', c, Order(mine[j])')
    <3>1. OfRequest(j)
      BY <1>4, <2>1 DEF OfRequest, Pessimistic
    <3>2. HasEffect(j)
      BY <1>5, <1>7, <3>1, ChangeHasEffect
    <3>3. SoundNow(latest)
      BY <1>3 DEF SoundInv
    <3>4. OrderInNext(latest) = Order(latest)
      BY <1>6, <3>3, OrderIsKept
    <3>5. Order(old[j])' = Order(latest) /\ Order(mine[j])' = OrderInNext(mine'[j])
      BY <1>4, <3>4, OrderOfNext
    <3> QED
      BY <1>4, <3>2, <3>5 DEF HasEffect
  <2>2. EffectOf(j)'
    BY <1>4, <2>1 DEF EffectOf
  <2>3. \A k \in Job : k # j => EffectOf(k)'
    BY <1>3, <1>4, <1>6, <1>8, EffectIsKept
  <2> QED
    BY <2>2, <2>3 DEF EffectInv
<1>10. UsedInv'
  <2>1. ASSUME NEW i \in used
        PROVE  i < nextId'[latest.holder]
    <3>1. PICK h : h = latest.holder
      OBVIOUS
    <3>2. h \in DOMAIN nextId /\ nextId[h] \in Nat
      BY <3>1, LatestIs
    <3>3. h \in DOMAIN nextId' /\ nextId[h] <= nextId'[h]
      BY <1>6, <3>2 DEF Grown
    <3>4. nextId'[h] \in Nat
      BY <1>6, <3>3 DEF Heaps
    <3>5. i < nextId[h] /\ i \in Nat
      BY <1>3, <2>1, <3>1 DEF UsedInv, TypeInv, Id
    <3> QED
      BY <3>1, <3>2, <3>3, <3>4, <3>5
  <2>2. DrawnOf(j)'
    <3>1. SUFFICES ASSUME request[j].op = "create",
                          NEW i \in DOMAIN mine'[j].idsMap \ DOMAIN latest.idsMap
                   PROVE  i \notin used
      BY <1>4 DEF DrawnOf
    <3>2. Create(j)
      BY <3>1 DEF Change, Create, Rename, Move, MoveBulk, Destroy, Clear, Works, RenameDimension
    <3>3. i = nextId[latest.holder]
      BY <1>7, <3>1, <3>2, CreateHasEffect DEF Draws
    <3>4. PICK n \in Nat : n = nextId[latest.holder]
      BY LatestIs
    <3>5. ~(n < n)
      OBVIOUS
    <3> QED
      BY <1>3, <3>3, <3>4, <3>5 DEF UsedInv
  <2>3. \A k \in Job : k # j => DrawnOf(k)'
    BY <1>3, <1>4 DEF UsedInv, DrawnOf
  <2>4. DOMAIN latest.idsMap \subseteq used
    BY <1>3 DEF UsedInv
  <2> QED
    BY <1>4, <2>1, <2>2, <2>3, <2>4 DEF UsedInv
<1>11. NameInv'
  <2>1. DoneJobs' = DoneJobs /\ DoneJobs \subseteq Job \ {j}
    BY <1>4 DEF DoneJobs
  <2>2. NameOf(latest.name, request, DoneJobs)
    BY <1>3 DEF NameInv
  <2>3. NameOf(latest.name, request, Job \ {j})
    BY <2>1, <2>2, NameOfMore
  <2>4. NamedOf(j)'
    <3>1. SUFFICES ASSUME request[j].op = "rename_dimension"
                   PROVE  mine'[j].name = request[j].name
      BY <1>4, <2>3 DEF NamedOf
    <3>2. RenameDimension(j)
      BY <3>1 DEF Change, Create, Rename, Move, MoveBulk, Destroy, Clear, Works
    <3>3. PICK d : d = latest
      OBVIOUS
    <3>4. PICK name : name = request[j].name
      OBVIOUS
    <3>5. mine'[j] = [d EXCEPT !.name = name] /\ name \in Name
      BY <1>3, <3>1, <3>2, <3>3, <3>4, RequestIs DEF RenameDimension, Works, TypeInv
    <3>6. d \in Dimensions
      BY <3>3, LatestIs
    <3> QED
      BY <3>4, <3>5, <3>6 DEF Dimensions
  <2>5. \A k \in Job : k # j => NamedOf(k)'
    BY <1>3, <1>4 DEF NameInv, NamedOf
  <2> QED
    BY <1>4, <2>1, <2>2, <2>4, <2>5 DEF NameInv
<1>12. OrderApart(request') /\ ~Asks(request', "move_bulk")
  BY <1>3, <1>4
<1> QED
  BY <1>9, <1>10, <1>11, <1>12 DEF OrderInv

-----------------------------------------------------------------------------
(* The invariant of the order: a job publishes, or its try ends.           *)

LEMMA SameOrder ==
  ASSUME NEW d, NEW e, Same(d, e)
  PROVE  Order(e) = Order(d)
BY DEF Same, Order, SizeElements

LEMMA EffectOfSame ==
  ASSUME NEW q, NEW a, NEW b, NEW d, NEW d2, NEW c, NEW c2,
         Same(d, d2), Same(c, c2), c2.name = d2.name, Effect(q, d, a, c, b)
  PROVE  Effect(q, d2, a, c2, b)
<1>1. d2.holder = d.holder /\ d2.idsMap = d.idsMap /\ c2.holder = c.holder /\ c2.idsMap = c.idsMap
  BY DEF Same
<1> QED
  BY <1>1 DEF Effect, Created, Renamed, Shifted, Destroyed, Cleared

(* The dimension that Dimension::merge publishes is the latest one with    *)
(* the effect of the request.                                              *)
MergesInOrder(j, m) ==
  /\ m \in Dimensions /\ m.elementList = New(j) /\ m.name = latest.name
  /\ Effect(request[j], latest, Order(latest), m, Order(m))
  /\ latest.elementList = old[j].elementList
  /\ m.idsMap = mine[j].idsMap /\ latest.idsMap = old[j].idsMap

LEMMA MergeHasEffect ==
  ASSUME Inv, EffectInv, NEW j \in Job, Merge(j), request[j].op # "rename_dimension",
         NEW m, m = Merged(j)
  PROVE  MergesInOrder(j, m)
<1>1. /\ m \in Dimensions
      /\ Same(mine[j], m)
      /\ m.elementList = New(j)
  BY MergedElements
<1>2. pc[j] = "working" /\ ~Conflict(j) /\ OfRequest(j)
  BY DEF Merge, OfRequest
<1>3. TypeInv /\ ListInv
  BY DEF Inv
<1>4. mine[j].elementList = New(j) /\ Given(old[j].elementList, commitTry, pc)
  BY <1>2, <1>3 DEF ListInv
<1>5. ~Given(New(j), commitTry, pc)
  BY <1>2, <1>3, NewNotGiven
<1>6. Changed("elementList", j)
  BY <1>4, <1>5 DEF Changed
<1>7. latest.elementList = old[j].elementList
  BY <1>2, <1>6 DEF Conflict
<1>8. Same(old[j], latest)
  BY <1>2, <1>3, <1>7 DEF ListInv
<1>9. Effect(request[j], old[j], Order(old[j]), mine[j], Order(mine[j]))
  BY <1>2 DEF EffectInv, EffectOf
<1>10. m.name = latest.name
  <2>1. ~Changed("name", j)
    BY <1>9 DEF Effect, Changed
  <2>2. Merged(j).name = latest.name
    BY <2>1 DEF Merged
  <2> QED
    BY <2>2
<1>11. Order(latest) = Order(old[j]) /\ Order(m) = Order(mine[j])
  BY <1>1, <1>8, SameOrder
<1>12. Effect(request[j], latest, Order(latest), m, Order(m))
  <2>1. PICK a : a = Order(old[j])
    OBVIOUS
  <2>2. PICK b : b = Order(mine[j])
    OBVIOUS
  <2>3. PICK d : d = old[j]
    OBVIOUS
  <2>4. PICK c : c = mine[j]
    OBVIOUS
  <2>5. PICK d2 : d2 = latest
    OBVIOUS
  <2>6. PICK q : q = request[j]
    OBVIOUS
  <2>7. Same(d, d2) /\ Same(c, m) /\ m.name = d2.name /\ Effect(q, d, a, c, b)
    BY <1>1, <1>8, <1>9, <1>10, <2>1, <2>2, <2>3, <2>4, <2>5, <2>6
  <2>8. Effect(q, d2, a, m, b)
    BY <2>7, EffectOfSame
  <2> QED
    BY <1>11, <2>1, <2>2, <2>5, <2>6, <2>8
<1> QED
  BY <1>1, <1>7, <1>8, <1>10, <1>12 DEF MergesInOrder, Same

(* What dimension/rename publishes: the latest dimension with its name.    *)
RenamesInOrder(j, m) ==
  /\ m \in Dimensions /\ m.name = request[j].name
  /\ m.holder = latest.holder /\ m.idsMap = latest.idsMap
  /\ Order(m) = Order(latest)

LEMMA MergeHasName ==
  ASSUME Inv, OrderApart(request), NameInv, NEW j \in Job, Merge(j),
         request[j].op = "rename_dimension",
         NEW m, m = Merged(j)
  PROVE  RenamesInOrder(j, m)
<1>1. m \in Dimensions /\ Same(latest, m)
  BY MergedName
<1>2. mine[j].name = request[j].name /\ NameOf(old[j].name, request, Job \ {j})
  BY DEF NameInv, NamedOf, Merge
<1>3. old[j].name # request[j].name
  BY <1>2 DEF NameOf, OrderApart, RenamesApart
<1>4. Changed("name", j)
  BY <1>2, <1>3 DEF Changed
<1>5. Merged(j).name = mine[j].name
  BY <1>4 DEF Merged
<1>6. Order(m) = Order(latest)
  BY <1>1, SameOrder
<1> QED
  BY <1>1, <1>2, <1>5, <1>6 DEF RenamesInOrder, Same

(* What was published keeps the identifiers and the names apart.           *)
LEMMA PublishKeepsUsed ==
  ASSUME Inv, UsedInv, NEW j \in Job, pc[j] = "working", NEW m \in Dimensions, Publish(j, m),
         nextId' = nextId, IdsBelow(m, nextId),
         m.elementList = New(j) \/ request[j].op = "rename_dimension"
  PROVE  UsedInv'
<1>1. TypeInv /\ ListInv /\ MapsApart(request)
  BY DEF Inv
<1>2. /\ latest' = m /\ request' = request /\ old' = old /\ mine' = mine
      /\ used' = IF m.holder = latest.holder THEN used \union DOMAIN m.idsMap ELSE DOMAIN m.idsMap
      /\ pc' = [pc EXCEPT ![j] = "done"]
  BY DEF Publish
<1>3. DOMAIN m.idsMap \subseteq used'
  BY <1>2
<1>4. \A i \in used' : i < nextId[m.holder]
  BY <1>2 DEF UsedInv, IdsBelow
<1>5. ASSUME NEW k \in Job
      PROVE  DrawnOf(k)'
  <2>1. SUFFICES ASSUME pc'[k] = "working", request[k].op = "create",
                        m.elementList = old[k].elementList
                 PROVE  FALSE
    BY <1>2 DEF DrawnOf
  <2>2. CASE m.elementList = New(j)
    <3>1. ~Given(New(j), commitTry, pc)
      BY <1>1, NewNotGiven
    <3> QED
      BY <1>1, <2>1, <2>2, <3>1 DEF ListInv
  <2>3. CASE request[j].op = "rename_dimension"
    BY <1>1, <2>1, <2>3 DEF MapsApart, Asks, KeepsIds
  <2> QED
    BY <2>2, <2>3
<1> QED
  BY <1>2, <1>3, <1>4, <1>5 DEF UsedInv

LEMMA PublishKeepsNames ==
  ASSUME Inv, NameInv, NEW j \in Job, pc[j] = "working", NEW m, Publish(j, m),
         m.name = latest.name \/ (request[j].op = "rename_dimension" /\ m.name = request[j].name)
  PROVE  NameInv'
<1>1. TypeInv
  BY DEF Inv
<1>2. /\ latest' = m /\ request' = request /\ old' = old /\ mine' = mine
      /\ pc' = [pc EXCEPT ![j] = "done"]
  BY DEF Publish
<1>3. DoneJobs' = DoneJobs \union {j}
  BY <1>1, <1>2 DEF DoneJobs, TypeInv
<1>4. NameOf(m.name, request, DoneJobs')
  BY <1>3 DEF NameInv, NameOf
<1>5. ASSUME NEW k \in Job PROVE NamedOf(k)'
  <2>1. pc'[k] = "working" => pc[k] = "working"
    BY <1>1, <1>2 DEF TypeInv
  <2> QED
    BY <1>2, <2>1 DEF NameInv, NamedOf
<1> QED
  BY <1>2, <1>4, <1>5 DEF NameInv

LEMMA EndsLeavesAlone ==
  ASSUME TypeInv, NEW j \in Job, Ends(j), UNCHANGED <<old, mine>>
  PROVE  \A k \in Job : LeftAlone(k)
<1>1. /\ \A k \in Job : k # j => commitTry'[k] = commitTry[k] /\ pc'[k] = pc[k]
      /\ pc'[j] # "working"
  BY EndsIs
<1> QED
  BY <1>1 DEF LeftAlone

LEMMA MergeKeepsOrders ==
  ASSUME Inv, OrderInv, NEW j \in Job, Merge(j)
  PROVE  OrderInv'
<1>1. /\ OrderApart(request) /\ ~Asks(request, "move_bulk")
      /\ EffectInv /\ UsedInv /\ NameInv
  BY DEF OrderInv
<1>2. TypeInv
  BY DEF Inv
<1>3. PICK m : m = Merged(j)
  OBVIOUS
<1>4. IsMerged(j, m)
  BY <1>3, MergedIs
<1>5. pc[j] = "working" /\ Publish(j, m) /\ UNCHANGED heap
  BY <1>3 DEF Merge
<1>6. m \in Dimensions /\ IdsBelow(m, nextId)
  BY <1>4 DEF IsMerged, SoundNow, Sound
<1>7. positions' = positions /\ nextId' = nextId
  BY <1>5 DEF heap
<1>8. Ends(j) /\ request' = request /\ old' = old /\ mine' = mine
  BY <1>2, <1>5, <1>6, PublishIs
<1>9. \/ m.elementList = New(j) /\ m.name = latest.name
      \/ request[j].op = "rename_dimension" /\ m.name = request[j].name
  BY <1>1, <1>3, MergeHasEffect, MergeHasName DEF MergesInOrder, RenamesInOrder
<1>10. EffectInv'
  <2>1. Kept(positions, positions')
    BY <1>7, SameIsKept
  <2>2. \A k \in Job : LeftAlone(k)
    BY <1>2, <1>8, EndsLeavesAlone
  <2> QED
    BY <1>1, <1>8, <2>1, <2>2, EffectIsKept DEF EffectInv
<1>11. UsedInv'
  BY <1>1, <1>5, <1>6, <1>7, <1>9, PublishKeepsUsed
<1>12. NameInv'
  BY <1>1, <1>5, <1>9, PublishKeepsNames
<1> QED
  BY <1>1, <1>8, <1>10, <1>11, <1>12 DEF OrderInv

LEMMA DestroyInMergeKeepsOrders ==
  ASSUME Inv, OrderInv, NEW j \in Job, DestroyInMerge(j)
  PROVE  OrderInv'
<1>1. /\ OrderApart(request) /\ ~Asks(request, "move_bulk")
      /\ EffectInv /\ UsedInv /\ NameInv
  BY DEF OrderInv
<1>2. TypeInv
  BY DEF Inv
<1>3. PICK m : m = DeleteElements(latest, New(j), positions[latest.posIndex], request[j].ids)
  OBVIOUS
<1>4. /\ pc[j] = "working" /\ Pessimistic(j) /\ Publish(j, m)
      /\ AllocateDeleted(latest, New(j), request[j].ids)
  BY <1>3 DEF DestroyInMerge
<1>5. request[j].op \in {"destroy", "destroy_bulk"} /\ Changing(j)
  BY <1>4 DEF Pessimistic, Changing
<1>6. HeapChanged(j) /\ IsDestroyed(j, m) /\ DeletesInOrder(j, m)
  BY <1>3, <1>4, <1>5, DeletingMakes, DeletingHasEffect
<1>7. nextId' = nextId
  BY <1>4 DEF AllocateDeleted
<1>8. m \in Dimensions /\ m.elementList = New(j) /\ IdsBelow(m, nextId) /\ m.name = latest.name
  BY <1>6, <1>7 DEF IsDestroyed, Sound, DeletesInOrder
<1>9. Ends(j) /\ request' = request /\ old' = old /\ mine' = mine
  BY <1>2, <1>4, <1>8, PublishIs
<1>10. EffectInv'
  <2>1. Kept(positions, positions')
    BY <1>5, <1>6 DEF HeapChanged
  <2>2. \A k \in Job : LeftAlone(k)
    BY <1>2, <1>9, EndsLeavesAlone
  <2> QED
    BY <1>1, <1>9, <2>1, <2>2, EffectIsKept DEF EffectInv
<1>11. UsedInv'
  BY <1>1, <1>4, <1>7, <1>8, PublishKeepsUsed
<1>12. NameInv'
  BY <1>1, <1>4, <1>8, PublishKeepsNames
<1> QED
  BY <1>1, <1>9, <1>10, <1>11, <1>12 DEF OrderInv

(* A step that publishes nothing and begins no try.                        *)
LEMMA OthersKeepOrders ==
  ASSUME Inv, OrderInv, UNCHANGED <<request, latest, heap, old, mine, used>>,
         \A k \in Job : pc'[k] = "working" => pc[k] = "working" /\ commitTry'[k] = commitTry[k],
         \A k \in Job : pc'[k] = "done" <=> pc[k] = "done"
  PROVE  OrderInv'
<1>1. /\ OrderApart(request) /\ ~Asks(request, "move_bulk")
      /\ EffectInv /\ UsedInv /\ NameInv
  BY DEF OrderInv
<1>2. positions' = positions /\ nextId' = nextId
  BY DEF heap
<1>3. EffectInv'
  <2>1. Kept(positions, positions')
    BY <1>2, SameIsKept
  <2>2. \A k \in Job : LeftAlone(k)
    BY DEF LeftAlone
  <2> QED
    BY <1>1, <2>1, <2>2, EffectIsKept DEF EffectInv
<1>4. UsedInv'
  BY <1>1, <1>2 DEF UsedInv, DrawnOf
<1>5. NameInv'
  <2>1. DoneJobs' = DoneJobs
    BY DEF DoneJobs
  <2> QED
    BY <1>1, <2>1 DEF NameInv, NamedOf
<1> QED
  BY <1>1, <1>3, <1>4, <1>5 DEF OrderInv

LEMMA FailsKeepOrders ==
  ASSUME Inv, OrderInv, NEW j \in Job, MergeFails(j) \/ Throw(j)
  PROVE  OrderInv'
<1>1. TypeInv
  BY DEF Inv
<1>2. /\ UNCHANGED <<request, latest, heap, old, mine, used>>
      /\ pc[j] \in {"start", "working"}
      /\ \/ pc' = [pc EXCEPT ![j] = "start"] /\ commitTry' = [commitTry EXCEPT ![j] = @ + 1]
         \/ pc' = [pc EXCEPT ![j] = "failed"] /\ commitTry' = [commitTry EXCEPT ![j] = @ + 1]
         \/ pc' = [pc EXCEPT ![j] = "failed"] /\ commitTry' = commitTry
  BY DEF MergeFails, Throw
<1>3. \A k \in Job : pc'[k] = "working" => pc[k] = "working" /\ commitTry'[k] = commitTry[k]
  BY <1>1, <1>2 DEF TypeInv
<1>4. \A k \in Job : pc'[k] = "done" <=> pc[k] = "done"
  BY <1>1, <1>2 DEF TypeInv
<1> QED
  BY <1>2, <1>3, <1>4, OthersKeepOrders

LEMMA NextKeepsOrders ==
  ASSUME Inv, OrderInv, [Next]_vars
  PROVE  OrderInv'
<1>1. ASSUME NEW j \in Job, Change(j) PROVE OrderInv'
  BY <1>1, ChangeKeepsOrders
<1>2. ASSUME NEW j \in Job, Commit(j) PROVE OrderInv'
  BY <1>2, MergeKeepsOrders, DestroyInMergeKeepsOrders, FailsKeepOrders DEF Commit
<1>3. ASSUME NEW j \in Job, Throw(j) PROVE OrderInv'
  BY <1>3, FailsKeepOrders
<1>4. ASSUME UNCHANGED vars PROVE OrderInv'
  <2>1. UNCHANGED <<request, latest, heap, old, mine, used>> /\ pc' = pc /\ commitTry' = commitTry
    BY <1>4 DEF vars
  <2> QED
    BY <2>1, OthersKeepOrders
<1> QED
  BY <1>1, <1>2, <1>3, <1>4 DEF Next, Idle

-----------------------------------------------------------------------------
(* Every step is a step of the ordered list, or none.                      *)

LEMMA InitGivesOrders ==
  ASSUME Init, OrderApart(request), ~Asks(request, "move_bulk")
  PROVE  OrderInv
<1>1. PICK d : d = LoadedDimension
  OBVIOUS
<1>2. PICK n : n = Len(Loaded)
  OBVIOUS
<1>3. n \in Nat /\ IsLoaded(d, n)
  BY <1>1, <1>2, LoadedDimensionIs
<1>4. latest = d /\ \A j \in Job : pc[j] = "start"
  BY <1>1 DEF Init
<1>5. EffectInv
  BY <1>4 DEF EffectInv, EffectOf
<1>6. UsedInv
  <2>1. used = {s - 1 : s \in 1 .. n} /\ nextId = [q \in {<<NoJob, 0>>} |-> n]
    BY <1>2 DEF Init
  <2>2. DOMAIN d.idsMap = {s - 1 : s \in 1 .. n} /\ d.holder = <<NoJob, 0>>
    BY <1>3 DEF IsLoaded
  <2>3. nextId[d.holder] = n
    BY <2>1, <2>2
  <2>4. \A i \in used : i < n
    BY <1>3, <2>1
  <2>5. \A j \in Job : DrawnOf(j)
    BY <1>4 DEF DrawnOf
  <2> QED
    BY <1>4, <2>1, <2>2, <2>3, <2>4, <2>5 DEF UsedInv
<1>7. NameInv
  <2>1. latest.name = LoadedName
    BY DEF Init, LoadedDimension
  <2> QED
    BY <1>4, <2>1 DEF NameInv, NameOf, NamedOf
<1> QED
  BY <1>5, <1>6, <1>7 DEF OrderInv

Outcome == [j \in Job |-> CASE pc[j] = "done" -> "applied"
                            [] pc[j] = "failed" -> "refused"
                            [] OTHER -> "pending"]

LEMMA OutcomeIs ==
  ASSUME TypeInv, NEW j \in Job, pc[j] \in {"start", "working"}
  PROVE  /\ Outcome[j] = "pending"
         /\ pc' = [pc EXCEPT ![j] = "done"] => Outcome' = [Outcome EXCEPT ![j] = "applied"]
         /\ pc' = [pc EXCEPT ![j] = "failed"] => Outcome' = [Outcome EXCEPT ![j] = "refused"]
         /\ pc' = [pc EXCEPT ![j] = "start"] \/ pc' = [pc EXCEPT ![j] = "working"]
              => Outcome' = Outcome
<1>1. pc \in [Job -> {"start", "working", "done", "failed"}]
  BY DEF TypeInv
<1>2. Outcome[j] = "pending"
  BY <1>1 DEF Outcome
<1>3. ASSUME pc' = [pc EXCEPT ![j] = "done"]
      PROVE  Outcome' = [Outcome EXCEPT ![j] = "applied"]
  BY <1>1, <1>3 DEF Outcome
<1>4. ASSUME pc' = [pc EXCEPT ![j] = "failed"]
      PROVE  Outcome' = [Outcome EXCEPT ![j] = "refused"]
  BY <1>1, <1>4 DEF Outcome
<1>5. ASSUME pc' = [pc EXCEPT ![j] = "start"] \/ pc' = [pc EXCEPT ![j] = "working"]
      PROVE  Outcome' = Outcome
  BY <1>1, <1>5 DEF Outcome
<1> QED
  BY <1>2, <1>3, <1>4, <1>5

LEMMA AppliedIs ==
  ASSUME TypeInv, NEW j \in Job, pc[j] = "working", pc' = [pc EXCEPT ![j] = "done"],
         request' = request, NEW op, request[j].op \in op
  PROVE  Elements!Applied(j, op)
<1>1. Outcome[j] = "pending" /\ Outcome' = [Outcome EXCEPT ![j] = "applied"]
  BY OutcomeIs
<1> QED
  BY <1>1 DEF Elements!Applied, Outcome

LEMMA RefusedIs ==
  ASSUME TypeInv, NEW j \in Job, pc[j] \in {"start", "working"},
         pc' = [pc EXCEPT ![j] = "failed"],
         request' = request, Order(latest)' = Order(latest), latest' = latest, used' = used
  PROVE  Elements!Refuse(j)
<1>1. Outcome[j] = "pending" /\ Outcome' = [Outcome EXCEPT ![j] = "refused"]
  BY OutcomeIs
<1> QED
  BY <1>1 DEF Elements!Refuse, Outcome

LEMMA UnseenIs ==
  ASSUME Outcome' = Outcome, request' = request, Order(latest)' = Order(latest),
         latest' = latest, used' = used
  PROVE  UNCHANGED Elements!vars
BY DEF Elements!vars, Outcome

(* The order of the latest dimension.                                      *)
LEMMA LatestOrder ==
  ASSUME Inv, NamesLead(latest), NEW a, a = Order(latest)
  PROVE  IsOrder(a, latest)
<1>1. PICK d : d = latest
  OBVIOUS
<1>2. PICK vec : vec = positions[d.posIndex]
  OBVIOUS
<1>3. d \in Dimensions /\ Lists(d, vec) /\ IdsLead(d) /\ NamesLead(d)
  BY <1>1, <1>2, LatestIs
<1>4. a = Listed(d, vec)
  BY <1>1, <1>2, OrderIs
<1> QED
  BY <1>1, <1>3, <1>4, ListedIsOrder

LEMMA PublishUses ==
  ASSUME UsedInv, NEW j \in Job, NEW m, Publish(j, m)
  PROVE  /\ m.holder = latest.holder /\ DOMAIN m.idsMap \subseteq DOMAIN latest.idsMap
              => used' = used
         /\ m.holder # latest.holder => used' = DOMAIN m.idsMap
         /\ \A x : m.holder = latest.holder /\ DOMAIN m.idsMap = DOMAIN latest.idsMap \union {x}
              => used' = used \union {x}
BY DEF UsedInv, Publish

(* What the actions of the list say of the orders a and b.                 *)
LEMMA CreateStep ==
  ASSUME NEW a \in Seq(Entries), NEW d, NEW c, NEW q, NEW b, Created(q, d, a, c, b),
         b \in Seq(Entries)
  PROVE  /\ b # <<>>
         /\ \A i \in DOMAIN a : a[i].name # q.name
         /\ b = Append(a, [id |-> b[Len(b)].id, name |-> q.name])
         /\ b[Len(b)].id \in DOMAIN c.idsMap \ DOMAIN d.idsMap
         /\ DOMAIN c.idsMap = DOMAIN d.idsMap \union {b[Len(b)].id}
<1>1. PICK x \in DOMAIN c.idsMap \ DOMAIN d.idsMap :
        /\ b = Append(a, [id |-> x, name |-> q.name])
        /\ DOMAIN c.idsMap = DOMAIN d.idsMap \union {x}
        /\ \A i \in DOMAIN a : a[i].name # q.name
  BY DEF Created
<1>2. PICK e : e = [id |-> x, name |-> q.name]
  OBVIOUS
<1>3. Len(b) = Len(a) + 1 /\ b[Len(b)] = e /\ Len(a) \in Nat
  BY <1>1, <1>2
<1>4. b # <<>>
  BY <1>3
<1>5. b[Len(b)].id = x
  BY <1>2, <1>3
<1> QED
  BY <1>1, <1>4, <1>5

(* The instance's own copies of the operators are the ones used here.      *)
LEMMA SublistsAgree ==
  ASSUME NEW a, NEW K PROVE Elements!Sublist(a, K) = Sublist(a, K)
  BY Zenon DEF Elements!Sublist, Sublist, Elements!Rank, Rank, Elements!Cardinality, Cardinality

LEMMA RemainsAgree ==
  ASSUME NEW a, NEW ids
  PROVE  Elements!Sublist(a, {i \in DOMAIN a : a[i].id \notin Elements!Range(ids)})
           = Sublist(a, {i \in DOMAIN a : a[i].id \notin Range(ids)})
<1>1. Elements!Range(ids) = Range(ids)
  BY DEF Elements!Range, Range
<1> QED
  BY <1>1, SublistsAgree


(* A change of the elements is published: the list makes that step.        *)
LEMMA MergeIsStep ==
  ASSUME Inv, OrderInv, NEW j \in Job, Merge(j), request[j].op # "rename_dimension"
  PROVE  \/ Elements!Create(j) \/ Elements!Rename(j) \/ Elements!Move(j)
         \/ Elements!Destroy(j) \/ Elements!Clear(j)
<1>1. /\ OrderApart(request) /\ ~Asks(request, "move_bulk")
      /\ EffectInv /\ UsedInv /\ NameInv
  BY DEF OrderInv
<1>2. TypeInv /\ NamesLead(latest)
  BY <1>1 DEF Inv, NamesInv, OrderApart, PartsApart
<1>3. PICK m : m = Merged(j)
  OBVIOUS
<1>4. MergesInOrder(j, m)
  BY <1>1, <1>3, MergeHasEffect
<1>5. /\ pc[j] = "working" /\ Publish(j, m) /\ UNCHANGED heap
      /\ pc' = [pc EXCEPT ![j] = "done"] /\ request' = request /\ latest' = m
  BY <1>3 DEF Merge, Publish
<1>6. PICK a : a = Order(latest)
  OBVIOUS
<1>7. PICK b : b = Order(m)
  OBVIOUS
<1>8. PICK q : q = request[j]
  OBVIOUS
<1>9. PICK d : d = latest
  OBVIOUS
<1>10. Effect(q, d, a, m, b) /\ m.name = d.name
  BY <1>4, <1>6, <1>7, <1>8, <1>9 DEF MergesInOrder
<1>11. Order(latest)' = b
  BY <1>5, <1>7 DEF Order, heap
<1>12. IsOrder(a, d)
  BY <1>2, <1>6, <1>9, LatestOrder
<1>13. a \in Seq(Entries) /\ \A i, k \in DOMAIN a : a[i].id = a[k].id => i = k
  BY <1>12 DEF IsOrder
<1>14. /\ m.holder = d.holder /\ DOMAIN m.idsMap \subseteq DOMAIN d.idsMap => used' = used
       /\ m.holder # d.holder => used' = DOMAIN m.idsMap
       /\ \A x : m.holder = d.holder /\ DOMAIN m.idsMap = DOMAIN d.idsMap \union {x}
              => used' = used \union {x}
  BY <1>1, <1>5, <1>9, PublishUses
<1>15. latest'.name = latest.name
  BY <1>5, <1>9, <1>10
<1>16. m.holder = d.holder <=> q.op # "clear"
  BY <1>10 DEF Effect
<1>17. CASE q.op = "create"
  <2>1. Created(q, d, a, m, b)
    BY <1>10, <1>17 DEF Effect
  <2>2. b \in Seq(Entries)
    <3>1. SoundNow(m) /\ m \in Dimensions
      BY <1>3, MergedIs DEF IsMerged
    <3>2. PICK vec : vec = positions[m.posIndex]
      OBVIOUS
    <3>3. Lists(m, vec) /\ IdsLead(m)
      BY <3>1, <3>2 DEF SoundNow, Sound
    <3>4. b = Listed(m, vec)
      BY <1>7, <3>2, OrderIs
    <3>5. IsListed(b, m, vec)
      BY <3>1, <3>3, <3>4, ListedIs
    <3> QED
      BY <3>5 DEF IsListed
  <2>3. PICK x : x = b[Len(b)].id
    OBVIOUS
  <2>4. /\ b # <<>>
        /\ \A i \in DOMAIN a : a[i].name # q.name
        /\ b = Append(a, [id |-> x, name |-> q.name])
        /\ x \in DOMAIN m.idsMap \ DOMAIN d.idsMap
        /\ DOMAIN m.idsMap = DOMAIN d.idsMap \union {x}
    BY <1>13, <2>1, <2>2, <2>3, CreateStep
  <2>5. used' = used \union {x}
    BY <1>14, <1>16, <1>17, <2>4
  <2>6. x \notin used
    <3>1. DrawnOf(j)
      BY <1>1 DEF UsedInv
    <3> QED
      BY <1>4, <1>5, <1>8, <1>9, <1>17, <2>4, <3>1 DEF DrawnOf, MergesInOrder
  <2>7. Elements!Applied(j, {"create"})
    BY <1>2, <1>5, <1>8, <1>17, AppliedIs
  <2>8. request[j].name \notin Elements!Names
    BY <1>6, <1>8, <2>4 DEF Elements!Names, Elements!Range
  <2>9. Elements!Last(Order(latest)').id = x
    BY <1>11, <2>3 DEF Elements!Last
  <2>10. /\ Order(latest)' # <<>>
         /\ Order(latest)' = Append(Order(latest), [id |-> x, name |-> request[j].name])
    BY <1>6, <1>8, <1>11, <2>4
  <2> QED
    BY <1>15, <2>5, <2>6, <2>7, <2>8, <2>9, <2>10 DEF Elements!Create
<1>18. CASE q.op = "rename"
  <2>1. Renamed(q, d, a, m, b)
    BY <1>10, <1>18 DEF Effect
  <2>2. PICK i \in DOMAIN a :
          /\ a[i].id = q.id
          /\ \A k \in DOMAIN a : a[k].name = q.name => a[i].name = q.name
          /\ b = [a EXCEPT ![i].name = q.name]
          /\ DOMAIN m.idsMap = DOMAIN d.idsMap
    BY <2>1 DEF Renamed
  <2>3. Elements!PositionOf(request[j].id) = i
    BY <1>6, <1>8, <1>13, <2>2 DEF Elements!PositionOf
  <2>4. Elements!Applied(j, {"rename"})
    BY <1>2, <1>5, <1>8, <1>18, AppliedIs
  <2>5. request[j].id \in Elements!Ids
    BY <1>6, <1>8, <2>2 DEF Elements!Ids, Elements!Range
  <2>6. request[j].name \in Elements!Names => Order(latest)[i].name = request[j].name
    BY <1>6, <1>8, <2>2 DEF Elements!Names, Elements!Range
  <2>7. Order(latest)' = [Order(latest) EXCEPT ![i].name = request[j].name]
    BY <1>6, <1>8, <1>11, <2>2
  <2>8. used' = used
    BY <1>14, <1>16, <1>18, <2>2
  <2> QED
    BY <1>15, <2>3, <2>4, <2>5, <2>6, <2>7, <2>8 DEF Elements!Rename
<1>19. CASE q.op = "move"
  <2>1. Shifted(q, d, a, m, b)
    BY <1>10, <1>19 DEF Effect
  <2>2. PICK i \in DOMAIN a :
          /\ a[i].id = q.id
          /\ q.position \in DOMAIN a
          /\ b = InsertAt(RemoveAt(a, i), q.position, a[i])
          /\ DOMAIN m.idsMap = DOMAIN d.idsMap
    BY <2>1 DEF Shifted
  <2>3. Elements!PositionOf(request[j].id) = i
    BY <1>6, <1>8, <1>13, <2>2 DEF Elements!PositionOf
  <2>4. Elements!Applied(j, {"move"})
    BY <1>2, <1>5, <1>8, <1>19, AppliedIs
  <2>5. request[j].id \in Elements!Ids
    BY <1>6, <1>8, <2>2 DEF Elements!Ids, Elements!Range
  <2>6. request[j].position \in DOMAIN Order(latest)
    BY <1>6, <1>8, <2>2, Zenon
  <2>7. Order(latest)' = Elements!InsertAt(Elements!RemoveAt(Order(latest), i),
                                           request[j].position, Order(latest)[i])
    BY <1>6, <1>8, <1>11, <2>2, Zenon DEF Elements!InsertAt, Elements!RemoveAt, InsertAt, RemoveAt
  <2>8. used' = used
    BY <1>14, <1>16, <1>19, <2>2
  <2> QED
    BY <1>15, <2>3, <2>4, <2>5, <2>6, <2>7, <2>8 DEF Elements!Move
<1>20. CASE q.op \in {"destroy", "destroy_bulk"}
  <2>1. Destroyed(q, d, a, m, b)
    BY <1>10, <1>20 DEF Effect
  <2>2. Elements!Applied(j, {"destroy", "destroy_bulk"})
    BY <1>2, <1>5, <1>8, <1>20, AppliedIs
  <2>3. used' = used
    BY <1>14, <1>16, <1>20, <2>1 DEF Destroyed
  <2>4. Order(latest)' = Elements!Sublist(Order(latest),
          {i \in DOMAIN Order(latest) : Order(latest)[i].id \notin Elements!Range(request[j].ids)})
    <3>1. b = Elements!Sublist(a, {i \in DOMAIN a : a[i].id \notin Elements!Range(q.ids)})
      BY <2>1, RemainsAgree DEF Destroyed
    <3> QED
      BY <1>6, <1>8, <1>11, <3>1
  <2> QED
    BY <1>15, <2>2, <2>3, <2>4 DEF Elements!Destroy
<1>21. CASE q.op = "clear"
  <2>1. b = <<>> /\ DOMAIN m.idsMap = {}
    BY <1>10, <1>21 DEF Effect, Cleared
  <2>2. Elements!Applied(j, {"clear"})
    BY <1>2, <1>5, <1>8, <1>21, AppliedIs
  <2>3. used' = {}
    BY <1>14, <1>16, <1>21, <2>1
  <2> QED
    BY <1>11, <1>15, <2>1, <2>2, <2>3 DEF Elements!Clear
<1>22. q.op \in {"create", "rename", "move", "destroy", "destroy_bulk", "clear"}
  BY <1>1, <1>2, <1>8, RequestIs DEF TypeInv, Asks
<1> QED
  BY <1>17, <1>18, <1>19, <1>20, <1>21, <1>22

LEMMA MergeNameIsStep ==
  ASSUME Inv, OrderInv, NEW j \in Job, Merge(j), request[j].op = "rename_dimension"
  PROVE  Elements!RenameDimension(j)
<1>1. OrderApart(request) /\ UsedInv /\ NameInv /\ TypeInv
  BY DEF OrderInv, Inv
<1>2. PICK m : m = Merged(j)
  OBVIOUS
<1>3. RenamesInOrder(j, m)
  BY <1>1, <1>2, MergeHasName
<1>4. /\ pc[j] = "working" /\ Publish(j, m) /\ UNCHANGED heap
      /\ pc' = [pc EXCEPT ![j] = "done"] /\ request' = request /\ latest' = m
  BY <1>2 DEF Merge, Publish
<1>5. Order(latest)' = Order(latest)
  <2>1. Order(latest)' = Order(m)
    BY <1>4 DEF Order, heap
  <2> QED
    BY <1>3, <2>1 DEF RenamesInOrder
<1>6. used' = used
  BY <1>1, <1>3, <1>4, PublishUses DEF RenamesInOrder
<1>7. latest'.name = request[j].name
  BY <1>3, <1>4 DEF RenamesInOrder
<1>8. Elements!Applied(j, {"rename_dimension"})
  BY <1>1, <1>4, AppliedIs
<1> QED
  BY <1>5, <1>6, <1>7, <1>8 DEF Elements!RenameDimension

LEMMA DestroyInMergeIsStep ==
  ASSUME Inv, OrderInv, NEW j \in Job, DestroyInMerge(j)
  PROVE  Elements!Destroy(j)
<1>1. UsedInv /\ TypeInv
  BY DEF OrderInv, Inv
<1>2. PICK m : m = DeleteElements(latest, New(j), positions[latest.posIndex], request[j].ids)
  OBVIOUS
<1>3. /\ pc[j] = "working" /\ Pessimistic(j) /\ Publish(j, m)
      /\ AllocateDeleted(latest, New(j), request[j].ids)
      /\ pc' = [pc EXCEPT ![j] = "done"] /\ request' = request /\ latest' = m
  BY <1>2 DEF DestroyInMerge, Publish
<1>4. request[j].op \in {"destroy", "destroy_bulk"} /\ Changing(j)
  BY <1>3 DEF Pessimistic, Changing
<1>5. DeletesInOrder(j, m)
  BY <1>2, <1>3, <1>4, DeletingHasEffect
<1>6. /\ m.name = latest.name /\ m.holder = latest.holder
      /\ DOMAIN m.idsMap \subseteq DOMAIN latest.idsMap
      /\ OrderInNext(m) = Sublist(Order(latest), {i \in DOMAIN Order(latest) :
                                     Order(latest)[i].id \notin Range(request[j].ids)})
  BY <1>5 DEF DeletesInOrder, Destroyed
<1>7. Order(latest)' = OrderInNext(m)
  BY <1>3 DEF Order, OrderInNext, Listed, Entry
<1>8. Order(latest)' = Elements!Sublist(Order(latest),
        {i \in DOMAIN Order(latest) : Order(latest)[i].id \notin Elements!Range(request[j].ids)})
  <2>1. PICK a : a = Order(latest)
    OBVIOUS
  <2>2. PICK ids : ids = request[j].ids
    OBVIOUS
  <2>3. Sublist(a, {i \in DOMAIN a : a[i].id \notin Range(ids)})
          = Elements!Sublist(a, {i \in DOMAIN a : a[i].id \notin Elements!Range(ids)})
    BY RemainsAgree
  <2> QED
    BY <1>6, <1>7, <2>1, <2>2, <2>3
<1>9. used' = used
  BY <1>1, <1>3, <1>6, PublishUses
<1>10. latest'.name = latest.name
  BY <1>3, <1>6
<1>11. Elements!Applied(j, {"destroy", "destroy_bulk"})
  BY <1>1, <1>3, <1>4, AppliedIs
<1> QED
  BY <1>8, <1>9, <1>10, <1>11 DEF Elements!Destroy

LEMMA NextIsStep ==
  ASSUME Inv, OrderInv, [Next]_vars
  PROVE  [Elements!Next]_(Elements!vars)
<1>1. TypeInv /\ ~MovesInBulk
  BY DEF Inv, OrderInv, Asks, MovesInBulk
<1>2. latest' = latest => Order(latest)' = Order(latest)
  <2>1. Kept(positions, positions')
    BY <1>1, NextKeepsVectors
  <2> QED
    BY <2>1, KeepsReaders DEF Undisturbed
<1>3. ASSUME NEW j \in Job, Change(j) PROVE UNCHANGED Elements!vars
  <2>1. PICK op, c : Works(j, op, c)
    BY <1>3, ChangeMakes
  <2>2. /\ pc[j] = "start" /\ pc' = [pc EXCEPT ![j] = "working"]
        /\ request' = request /\ latest' = latest /\ used' = used
    BY <2>1 DEF Works
  <2>3. Outcome' = Outcome
    BY <1>1, <2>2, OutcomeIs
  <2> QED
    BY <1>2, <2>2, <2>3, UnseenIs
<1>4. ASSUME NEW j \in Job, Merge(j) \/ DestroyInMerge(j) PROVE Elements!Next
  BY <1>4, MergeIsStep, MergeNameIsStep, DestroyInMergeIsStep DEF Elements!Next
<1>5. ASSUME NEW j \in Job, MergeFails(j) \/ Throw(j)
      PROVE  Elements!Next \/ UNCHANGED Elements!vars
  <2>1. /\ pc[j] \in {"start", "working"}
        /\ request' = request /\ latest' = latest /\ used' = used
        /\ pc' = [pc EXCEPT ![j] = "start"] \/ pc' = [pc EXCEPT ![j] = "failed"]
    BY <1>5 DEF MergeFails, Throw
  <2>2. CASE pc' = [pc EXCEPT ![j] = "start"]
    <3>1. Outcome' = Outcome
      BY <1>1, <2>1, <2>2, OutcomeIs
    <3> QED
      BY <1>2, <2>1, <3>1, UnseenIs
  <2>3. CASE pc' = [pc EXCEPT ![j] = "failed"]
    <3>1. Elements!Refuse(j)
      BY <1>1, <1>2, <2>1, <2>3, RefusedIs
    <3> QED
      BY <3>1 DEF Elements!Next
  <2> QED
    BY <2>1, <2>2, <2>3
<1>6. ASSUME UNCHANGED vars PROVE UNCHANGED Elements!vars
  <2>1. pc' = pc /\ request' = request /\ latest' = latest /\ used' = used
    BY <1>6 DEF vars
  <2>2. Outcome' = Outcome
    BY <2>1 DEF Outcome
  <2> QED
    BY <1>2, <2>1, <2>2, UnseenIs
<1> QED
  BY <1>3, <1>4, <1>5, <1>6 DEF Next, Idle, Commit

LEMMA InitIsInit ==
  ASSUME Init
  PROVE  Elements!Init
<1>1. PICK d : d = LoadedDimension
  OBVIOUS
<1>2. PICK n : n = Len(Loaded)
  OBVIOUS
<1>3. n \in Nat /\ IsLoaded(d, n)
  BY <1>1, <1>2, LoadedDimensionIs
<1>4. PICK vec : vec = [i \in 1 .. n |-> i]
  OBVIOUS
<1>5. /\ latest = d /\ positions[d.posIndex] = vec
      /\ used = {i - 1 : i \in 1 .. n}
  <2>1. d.posIndex = <<NoJob, 0>>
    BY <1>3 DEF IsLoaded
  <2> QED
    BY <1>1, <1>2, <1>4, <2>1 DEF Init
<1>6. PICK loaded : loaded = [i \in 1 .. n |-> [id |-> i - 1, name |-> Loaded[i]]]
  OBVIOUS
<1>7. Order(latest) = loaded
  <2>1. SizeElements(d) = n
    <3>1. d \in Dimensions
      BY <1>3 DEF IsLoaded
    <3>2. Sound(d, positions, pageSize, nextId)
      <4>1. PICK p : p = <<NoJob, 0>>
        OBVIOUS
      <4>2. PICK pos : pos = positions
        OBVIOUS
      <4>3. PICK sizes : sizes = pageSize
        OBVIOUS
      <4>4. PICK next : next = nextId
        OBVIOUS
      <4>5. /\ p \in DOMAIN pos /\ pos[p] = [i \in 1 .. n |-> i]
            /\ p \in DOMAIN sizes /\ sizes[p] = n
            /\ p \in DOMAIN next /\ next[p] = n
        BY <1>2, <4>1, <4>2, <4>3, <4>4 DEF Init
      <4> QED
        BY <1>3, <4>1, <4>2, <4>3, <4>4, <4>5, LoadedSound
    <3>3. Lists(d, vec) /\ IdsLead(d)
      BY <1>5, <3>2 DEF Sound
    <3>4. SizeElements(d) = Len(vec)
      BY <3>1, <3>3, SizeIsLength
    <3> QED
      BY <1>3, <1>4, <3>4
  <2>2. Order(latest) = [i \in 1 .. n |-> Entry(d.slots[vec[i]])]
    BY <1>5, <2>1, OrderIs DEF Listed
  <2>3. \A i \in 1 .. n : Entry(d.slots[vec[i]]) = [id |-> i - 1, name |-> Loaded[i]]
    BY <1>3, <1>4 DEF IsLoaded, Entry
  <2> QED
    BY <1>6, <2>2, <2>3
<1>8. used = Elements!Ids
  <2>1. DOMAIN loaded = 1 .. n /\ \A i \in 1 .. n : loaded[i].id = i - 1
    BY <1>6
  <2>2. Elements!Ids = {loaded[i].id : i \in 1 .. n}
    BY <1>7, <2>1 DEF Elements!Ids, Elements!Range
  <2> QED
    BY <1>5, <2>1, <2>2
<1>9. latest.name = LoadedName
  BY DEF Init, LoadedDimension
<1>10. [j \in Job |-> CASE pc[j] = "done" -> "applied"
                        [] pc[j] = "failed" -> "refused"
                        [] OTHER -> "pending"] = [j \in Job |-> "pending"]
  <2>1. \A j \in Job : pc[j] = "start"
    BY DEF Init
  <2> QED
    BY <2>1
<1> QED
  BY <1>2, <1>6, <1>7, <1>8, <1>9, <1>10 DEF Elements!Init

(* The four parts of a dimension behave as one list: what a job merges is  *)
(* what its request does to the elements as they then are, whatever the    *)
(* other jobs publish between its change and its commit.                   *)
THEOREM ImplementsElementOrderCorrect ==
  Spec /\ OrderApart(request) => ImplementsElementOrder
<1> DEFINE Orders == Inv /\ OrderInv
           Step == [MovesInBulk \/ Elements!Next]_(Elements!vars)
<1>1. Init => Elements!Init
  BY InitIsInit
<1>2. Init /\ OrderApart(request) /\ ~MovesInBulk => Orders
  <2>1. OrderApart(request) => MapsApart(request)
    BY PartsApartIs DEF OrderApart
  <2> QED
    BY <2>1, InitGivesInv, InitGivesOrders DEF MovesInBulk, Asks
<1>3. Orders /\ [Next]_vars => Orders'
  BY NextKeepsInv, NextKeepsOrders
<1>4. Orders /\ [Next]_vars => Step
  BY NextIsStep
<1>5. MovesInBulk /\ [Next]_vars => MovesInBulk'
  BY NextKeepsRequest DEF MovesInBulk
<1>6. MovesInBulk => Step
  OBVIOUS
<1> QED
  BY <1>1, <1>2, <1>3, <1>4, <1>5, <1>6, PTL DEF Spec, ImplementsElementOrder
=============================================================================
