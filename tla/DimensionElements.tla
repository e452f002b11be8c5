-------------------------- MODULE DimensionElements --------------------------
(***************************************************************************)
(* The elements of one dimension under the commit protocol:                *)
(* Dimension::addElement, deleteElements, changeElementName, moveElement,  *)
(* moveElements, clearElements, the element list with its recycled slots,  *)
(* Dimension::checkOut and Dimension::merge.                               *)
(*                                                                         *)
(* A dimension is an element list and three indexes into it: idsMap        *)
(* (identifier -> slot), namesMap (name -> slot) and posIndex (position -> *)
(* slot).  Each of the four is a shared object of its own.  A job copies   *)
(* the ones its change checks out; the merge compares their pointers, and  *)
(* so the four can only stay in step if every job checks out all it must.  *)
(*                                                                         *)
(* A pointer is <<job, try>>: the try of the job that allocated the        *)
(* object, <<NoJob, 0>> for what was loaded.  Immutable objects are kept   *)
(* beside their pointer in the record of the dimension.  The vectors of    *)
(* posIndex, the sizes of the element pages and the identifier holders are *)
(* written in place by the code and are heap objects of the model.         *)
(*                                                                         *)
(* Abstracted: the element list has one page; positions and slots start at *)
(* 1; the hierarchy, the cells and the rules are left out.  Rights, locks  *)
(* and the event worker may refuse any job (Throw).  MoveBulk takes the    *)
(* slot of an element it places from idsMap; the code takes it from the    *)
(* old vector at the element's position, which is the same slot unless     *)
(* another bulk move has written the shared vector: a request of that kind *)
(* is modelled in one job at a time.                                       *)
(***************************************************************************)
EXTENDS Integers, Sequences, FiniteSets, SequencesExt, Sublist

CONSTANTS
  Job, NoJob,
  Name,            \* names of elements and of the dimension
  LoadedName,      \* the name of the dimension when it was loaded
  Loaded,          \* the names of its elements in the order of positions
  Assignments,     \* which request each job may carry out
  COMMIT_REPEATS,              \* tries of a job
  COMMIT_REPEATS_CELL_REPLACE  \* tries of element/destroy

Id == Nat

(* element/destroy_bulk drops what is listed twice, element/destroy takes  *)
(* one element.                                                            *)
Request ==
  [op : {"create", "rename_dimension"}, name : Name]
    \union [op : {"destroy", "destroy_bulk"}, ids : {s \in Seq(Id) : IsInjective(s)}]
    \union [op : {"rename"}, id : Id, name : Name]
    \union [op : {"move"}, id : Id, position : Nat \ {0}]
    \union [op : {"move_bulk"}, moves : Seq(Id \X (Nat \ {0}))]
    \union [op : {"clear"}]

ASSUME NoJobAssumption == NoJob \notin Job
ASSUME LoadedAssumption ==
  LoadedName \in Name /\ Loaded \in Seq(Name) /\ IsInjective(Loaded)
ASSUME AssignmentsAssumption == Assignments \subseteq [Job -> Request]
ASSUME RepeatsAssumption ==
  /\ COMMIT_REPEATS \in Nat \ {0}
  /\ COMMIT_REPEATS_CELL_REPLACE \in Nat \ {0}

VARIABLES
  request,    \* what each job was asked to do
  latest,     \* the dimension in the latest tree
  positions,  \* heap: the vectors posIndex points to
  pageSize,   \* heap: the slots in use of each element page
  nextId,     \* heap: the counters of the identifier holders
  pc,         \* "start", "working", "done" or "failed"
  commitTry,  \* commits of the job that failed so far
  old,        \* the dimension the job's copy was made from
  mine,       \* the job's copy, with its changes
  used        \* auxiliary: identifiers published since the last clear

heap == <<positions, pageSize, nextId>>
vars == <<request, latest, heap, pc, commitTry, old, mine, used>>
-----------------------------------------------------------------------------
Pointer == (Job \X Nat) \union {<<NoJob, 0>>}

NoPage == <<NoJob, 1>>    \* the element list has no page (ElementList::clear)

Repeats(j) == IF request[j].op \in {"destroy", "destroy_bulk"}
              THEN COMMIT_REPEATS_CELL_REPLACE ELSE COMMIT_REPEATS

(* Context::setPesimistic: the elements are destroyed inside the merge.    *)
Pessimistic(j) ==
  request[j].op \in {"destroy", "destroy_bulk"} /\ commitTry[j] > 0

(* The pointer of what job j allocates in this try.                        *)
New(j) == <<j, commitTry[j]>>

(* The heap with the object v at p.                                        *)
Allocate(h, p, v) == [q \in DOMAIN h \union {p} |-> IF q = p THEN v ELSE h[q]]

SizeElements(d) == Cardinality(DOMAIN d.idsMap)

(* Dimension::checkOut and, for what it writes, ElementList::checkOut.     *)
CheckOutElements(d, p) ==
  [d EXCEPT !.elementList = p, !.ids = p,
            !.page = IF @ = NoPage THEN NoPage ELSE p]

CheckOutAll(d, p) ==
  [CheckOutElements(d, p) EXCEPT !.names = p, !.posIndex = p]

(* The page that d uses, copied to p.                                      *)
CopyPage(d, p) ==
  IF d.page = NoPage THEN pageSize ELSE Allocate(pageSize, p, pageSize[d.page])

Without(f, S) == [x \in DOMAIN f \ S |-> f[x]]

(* The slots after those at the positions P of vec got their new position. *)
Reposition(slots, vec, P) ==
  [s \in DOMAIN slots |->
     IF \E i \in P : vec[i] = s
     THEN [slots[s] EXCEPT !.position = CHOOSE i \in P : vec[i] = s]
     ELSE slots[s]]
-----------------------------------------------------------------------------
(* A dimension as the loader leaves it.                                    *)
LoadedDimension ==
  LET N == 1 .. Len(Loaded)
      p == <<NoJob, 0>> IN
  [name |-> LoadedName,
   elementList |-> p, page |-> p, free |-> <<>>, holder |-> p,
   slots |-> [s \in N |-> [id |-> s - 1, name |-> Loaded[s], position |-> s]],
   ids |-> p, idsMap |-> [i \in {s - 1 : s \in N} |-> i + 1],
   names |-> p,
   namesMap |-> [n \in Range(Loaded) |-> CHOOSE s \in N : Loaded[s] = n],
   posIndex |-> p]

Init ==
  /\ request \in Assignments
  /\ latest = LoadedDimension
  /\ positions = [p \in {<<NoJob, 0>>} |-> [i \in 1 .. Len(Loaded) |-> i]]
  /\ pageSize = [p \in {<<NoJob, 0>>} |-> Len(Loaded)]
  /\ nextId = [p \in {<<NoJob, 0>>} |-> Len(Loaded)]
  /\ pc = [j \in Job |-> "start"]
  /\ commitTry = [j \in Job |-> 0]
  /\ old = [j \in Job |-> LoadedDimension]
  /\ mine = [j \in Job |-> LoadedDimension]
  /\ used = {i - 1 : i \in 1 .. Len(Loaded)}

(* The job got its copy of the latest tree and changed it to d.            *)
Works(j, op, d) ==
  /\ pc[j] = "start"
  /\ request[j].op = op
  /\ old' = [old EXCEPT ![j] = latest]
  /\ mine' = [mine EXCEPT ![j] = d]
  /\ pc' = [pc EXCEPT ![j] = "working"]
  /\ UNCHANGED <<request, latest, commitTry, used>>

(* Mutant: a free slot is used again without being taken off the list.     *)
AddElementKeepFree(d, p, slot, id, name) ==
  LET e == [id |-> id, name |-> name, position |-> SizeElements(d) + 1] IN
  [CheckOutAll(d, p) EXCEPT
     !.page = p,
     !.slots = Allocate(@, slot, e),
     !.idsMap = Allocate(@, id, slot),
     !.namesMap = Allocate(@, name, slot)]

(* Dimension::addElement: the element goes to the slot, at the end.        *)
AddElement(d, p, slot, id, name) ==
  LET e == [id |-> id, name |-> name, position |-> SizeElements(d) + 1] IN
  [CheckOutAll(d, p) EXCEPT
     !.page = p,
     !.free = IF @ = <<>> THEN @ ELSE Front(@),
     !.slots = Allocate(@, slot, e),
     !.idsMap = Allocate(@, id, slot),
     !.namesMap = Allocate(@, name, slot)]

(* ElementList::addElement recycles a slot or takes one more of the page.  *)
(* The size of the page is counted up before the page is copied, and the   *)
(* identifier is drawn from the holder all copies share: neither is undone *)
(* when the job fails.                                                     *)
Create(j) ==
  LET d == latest
      p == New(j)
      size == IF d.page = NoPage THEN 0 ELSE pageSize[d.page]
      slot == IF d.free = <<>> THEN size + 1 ELSE Last(d.free)
      after == IF d.free = <<>> THEN slot ELSE size
      counted == IF d.page = NoPage THEN pageSize
                 ELSE [pageSize EXCEPT ![d.page] = after]
  IN
  /\ request[j].op = "create"
  /\ request[j].name \notin DOMAIN d.namesMap
  /\ Works(j, "create",
           AddElement(d, p, slot, nextId[d.holder], request[j].name))
  /\ positions' = Allocate(positions, p,
       Append(SubSeq(positions[d.posIndex], 1, SizeElements(d)), slot))
  /\ pageSize' = Allocate(counted, p, after)
  /\ nextId' = [nextId EXCEPT ![d.holder] = @ + 1]

(* Dimension::changeElementName: for the name that the element has only    *)
(* findElement's checkout remains.                                         *)
ChangeElementName(d, p, slot, name) ==
  LET c == CheckOutElements(d, p)
      oldName == d.slots[slot].name IN
  IF name = oldName THEN c
  ELSE [c EXCEPT !.names = p,
                 !.slots[slot].name = name,
                 !.namesMap = Allocate(Without(@, {oldName}), name, slot)]

(* Mutant: the new name may be in use.                                     *)
RenameUnchecked(j) ==
  LET d == latest
      p == New(j)
      r == request[j]
  IN
  /\ r.op = "rename"
  /\ r.id \in DOMAIN d.idsMap
  /\ Works(j, "rename", ChangeElementName(d, p, d.idsMap[r.id], r.name))
  /\ pageSize' = CopyPage(d, p)
  /\ UNCHANGED <<positions, nextId>>

(* The name may be that of the same element.                               *)
Rename(j) ==
  LET d == latest
      p == New(j)
      r == request[j]
      slot == d.idsMap[r.id]
  IN
  /\ r.op = "rename"
  /\ r.id \in DOMAIN d.idsMap
  /\ r.name \in DOMAIN d.namesMap => d.namesMap[r.name] = slot
  /\ Works(j, "rename", ChangeElementName(d, p, slot, r.name))
  /\ pageSize' = CopyPage(d, p)
  /\ UNCHANGED <<positions, nextId>>

(* A copy whose elements know their positions P of the vector.             *)
Repositioned(d, p, vec, P) ==
  [CheckOutElements(d, p) EXCEPT !.slots = Reposition(@, vec, P)]

(* Mutant: the vector of positions is changed in place.                    *)
MoveInPlace(j) ==
  LET d == latest
      p == New(j)
      r == request[j]
      slot == d.idsMap[r.id]
      from == d.slots[slot].position
      vec == InsertAt(RemoveAt(positions[d.posIndex], from), r.position, slot)
  IN
  /\ r.op = "move"
  /\ r.id \in DOMAIN d.idsMap
  /\ r.position <= SizeElements(d)
  /\ Works(j, "move", Repositioned(d, p, vec, DOMAIN vec))
  /\ positions' = [positions EXCEPT ![d.posIndex] = vec]
  /\ pageSize' = CopyPage(d, p)
  /\ UNCHANGED nextId

(* Dimension::moveElement: the elements between the two positions shift.   *)
Move(j) ==
  LET d == latest
      p == New(j)
      r == request[j]
      slot == d.idsMap[r.id]
      from == d.slots[slot].position
      between == (from .. r.position) \union (r.position .. from)
      vec == InsertAt(RemoveAt(positions[d.posIndex], from), r.position, slot)
  IN
  /\ r.op = "move"
  /\ r.id \in DOMAIN d.idsMap
  /\ r.position <= SizeElements(d)
  /\ IF from = r.position
     THEN Works(j, "move", CheckOutElements(d, p)) /\ UNCHANGED positions
     ELSE /\ Works(j, "move", [Repositioned(d, p, vec, between) EXCEPT !.posIndex = p])
          /\ positions' = Allocate(positions, p, vec)
  /\ pageSize' = CopyPage(d, p)
  /\ UNCHANGED nextId

(* The vector after each slot placed[i] was put at position i, and the     *)
(* other slots, in their order, at the positions that were left.           *)
Arrange(vec, placed) ==
  LET rest == Sublist(vec, {i \in DOMAIN vec : vec[i] \notin Range(placed)})
      gaps == DOMAIN vec \ DOMAIN placed IN
  [i \in DOMAIN vec |->
     IF i \in DOMAIN placed THEN placed[i] ELSE rest[Rank(gaps, i)]]

(* Mutant: the elements that moved keep their old positions.               *)
MoveBulkKeepPositions(j) ==
  LET d == latest
      p == New(j)
      M == Range(request[j].moves)
      placed == [i \in {m[2] : m \in M} |->
                   d.idsMap[(CHOOSE m \in M : m[2] = i)[1]]] IN
  /\ request[j].op = "move_bulk"
  /\ \A m \in M : m[1] \in DOMAIN d.idsMap /\ m[2] <= SizeElements(d)
  /\ Works(j, "move_bulk", CheckOutElements(d, p))
  /\ positions' = [positions EXCEPT
                     ![d.posIndex] = Arrange(@, placed)]
  /\ pageSize' = CopyPage(d, p)
  /\ UNCHANGED nextId

(* Dimension::moveElements writes the vector posIndex points to without    *)
(* checking it out: every tree that shares the pointer sees the change.    *)
MoveBulk(j) ==
  LET d == latest
      p == New(j)
      M == Range(request[j].moves)
      placed == [i \in {m[2] : m \in M} |->
                   d.idsMap[(CHOOSE m \in M : m[2] = i)[1]]]
      vec == Arrange(positions[d.posIndex], placed)
  IN
  /\ request[j].op = "move_bulk"
  /\ \A m \in M : m[1] \in DOMAIN d.idsMap /\ m[2] <= SizeElements(d)
  /\ \A m, n \in M : m[1] = n[1] <=> m[2] = n[2]
  /\ Works(j, "move_bulk", Repositioned(d, p, vec, DOMAIN vec))
  /\ positions' = [positions EXCEPT ![d.posIndex] = vec]
  /\ pageSize' = CopyPage(d, p)
  /\ UNCHANGED nextId

(* The positions without those of the given slots.                         *)
Compact(vec, slotsGone) ==
  Sublist(vec, {i \in DOMAIN vec : vec[i] \notin slotsGone})

(* The identifiers that are known, and the slots they lead to.             *)
Known(d, ids) == Sublist(ids, {k \in DOMAIN ids : ids[k] \in DOMAIN d.idsMap})

SlotsOf(d, ids) == {d.idsMap[i] : i \in Range(ids) \intersect DOMAIN d.idsMap}

(* Dimension::deleteElements: unknown identifiers are skipped, the         *)
(* positions in vec close up, the slots are recycled.                      *)
DeleteElements(d, p, vec, ids) ==
  LET gone == Known(d, ids)
      slotsGone == SlotsOf(d, ids)
      left == Compact(vec, slotsGone) IN
  [CheckOutAll(d, p) EXCEPT
     !.slots = Reposition(Without(@, slotsGone), left, DOMAIN left),
     !.free = @ \o [k \in DOMAIN gone |-> d.idsMap[gone[k]]],
     !.idsMap = Without(@, Range(gone)),
     !.namesMap = Without(@, {d.slots[s].name : s \in slotsGone})]

(* What deleteElements allocates.                                          *)
AllocateDeleted(d, p, ids) ==
  /\ positions' = Allocate(positions, p,
                           Compact(positions[d.posIndex], SlotsOf(d, ids)))
  /\ pageSize' = CopyPage(d, p)
  /\ UNCHANGED nextId

(* ElementDestroyJob, ElementDestroyBulkJob: an optimistic change of the   *)
(* copy, or only the context of the change that the merge will make.  Only *)
(* element/destroy looks its element up.                                   *)
Destroy(j) ==
  LET r == request[j] IN
  /\ r.op \in {"destroy", "destroy_bulk"}
  /\ r.op = "destroy" => Range(r.ids) \subseteq DOMAIN latest.idsMap
  /\ IF Pessimistic(j)
     THEN Works(j, r.op, latest) /\ UNCHANGED heap
     ELSE /\ Works(j, r.op, DeleteElements(latest, New(j),
                                           positions[latest.posIndex], r.ids))
          /\ AllocateDeleted(latest, New(j), r.ids)

(* Dimension::clearElements: new, empty parts, identifiers start again.    *)
ClearElements(d, p) ==
  LET empty == [x \in {} |-> 0] IN
  [CheckOutAll(d, p) EXCEPT
     !.page = NoPage, !.free = <<>>, !.holder = p, !.slots = empty,
     !.idsMap = empty, !.namesMap = empty]

Clear(j) ==
  LET p == New(j) IN
  /\ Works(j, "clear", ClearElements(latest, p))
  /\ positions' = Allocate(positions, p, <<>>)
  /\ nextId' = Allocate(nextId, p, 0)
  /\ UNCHANGED pageSize

(* DimensionRenameJob checks out the dimension and none of its parts.      *)
RenameDimension(j) ==
  /\ request[j].op = "rename_dimension"
  /\ Works(j, "rename_dimension", [latest EXCEPT !.name = request[j].name])
  /\ UNCHANGED heap

(* An ErrorException: name in use, element not found, right missing,       *)
(* dimension locked, worker not reached.  The copy is dropped.             *)
Throw(j) ==
  /\ pc[j] \in {"start", "working"}
  /\ pc' = [pc EXCEPT ![j] = "failed"]
  /\ UNCHANGED <<request, latest, heap, commitTry, old, mine, used>>
-----------------------------------------------------------------------------
Changed(part, j) == mine[j][part] # old[j][part]

(* Dimension::merge: a part was replaced here and in the latest tree.      *)
Conflict(j) ==
  \E part \in {"elementList", "ids", "names", "posIndex"} :
    Changed(part, j) /\ latest[part] # old[j][part]

(* Dimension::merge: the name and posIndex are taken from the latest tree  *)
(* unless they were changed here, the element list unless it was checked   *)
(* out.  The two maps are always the job's: nothing takes them over.       *)
Merged(j) ==
  LET kept == IF Changed("elementList", j) THEN mine[j] ELSE latest IN
  [name |-> IF Changed("name", j) THEN mine[j].name ELSE latest.name,
   elementList |-> kept.elementList, page |-> kept.page, free |-> kept.free,
   holder |-> kept.holder, slots |-> kept.slots,
   ids |-> mine[j].ids, idsMap |-> mine[j].idsMap,
   names |-> mine[j].names, namesMap |-> mine[j].namesMap,
   posIndex |-> IF Changed("posIndex", j) THEN mine[j].posIndex
                                          ELSE latest.posIndex]

Publish(j, d) ==
  /\ latest' = d
  /\ used' = IF d.holder = latest.holder THEN used \union DOMAIN d.idsMap
                                         ELSE DOMAIN d.idsMap
  /\ pc' = [pc EXCEPT ![j] = "done"]
  /\ UNCHANGED <<request, commitTry, old, mine>>

Merge(j) ==
  /\ pc[j] = "working"
  /\ ~Pessimistic(j)
  /\ ~Conflict(j)
  /\ Publish(j, Merged(j))
  /\ UNCHANGED heap

(* Context::makeCubeChanges: a fresh copy of the latest dimension is       *)
(* changed while the job holds writerslock.                                *)
DestroyInMerge(j) ==
  /\ pc[j] = "working"
  /\ Pessimistic(j)
  /\ Publish(j, DeleteElements(latest, New(j), positions[latest.posIndex],
                               request[j].ids))
  /\ AllocateDeleted(latest, New(j), request[j].ids)

(* Other parts of the tree may conflict too: the cells of destroyed        *)
(* elements and the elements of #_DIMENSION_, which names the dimension.   *)
ConflictElsewhere(j) ==
  request[j].op \in {"destroy", "destroy_bulk", "clear", "rename_dimension"}

MergeFails(j) ==
  /\ pc[j] = "working"
  /\ (~Pessimistic(j) /\ Conflict(j)) \/ ConflictElsewhere(j)
  /\ commitTry' = [commitTry EXCEPT ![j] = @ + 1]
  /\ pc' = [pc EXCEPT ![j] = IF commitTry[j] + 1 < Repeats(j)
                             THEN "start" ELSE "failed"]
  /\ UNCHANGED <<request, latest, heap, old, mine, used>>

Change(j) ==
  \/ Create(j) \/ Rename(j) \/ Move(j) \/ MoveBulk(j)
  \/ Destroy(j) \/ Clear(j) \/ RenameDimension(j)

Commit(j) == Merge(j) \/ DestroyInMerge(j) \/ MergeFails(j)

Finished == \A j \in Job : pc[j] \in {"done", "failed"}

Idle == Finished /\ UNCHANGED vars

Next == (\E j \in Job : Change(j) \/ Commit(j) \/ Throw(j)) \/ Idle

Spec == Init /\ [][Next]_vars
-----------------------------------------------------------------------------
Slot == Nat \ {0}

Index(K) == UNION {[S -> Slot] : S \in SUBSET K}

IsDimension(d) ==
  /\ DOMAIN d = {"name", "elementList", "page", "free", "holder", "slots",
                 "ids", "idsMap", "names", "namesMap", "posIndex"}
  /\ d.name \in Name
  /\ {d.elementList, d.holder, d.ids, d.names, d.posIndex} \subseteq Pointer
  /\ d.page \in Pointer \union {NoPage}
  /\ d.free \in Seq(Slot)
  /\ d.slots \in [DOMAIN d.slots -> [id : Id, name : Name, position : Slot]]
  /\ d.idsMap \in [DOMAIN d.idsMap -> Slot] /\ DOMAIN d.idsMap \subseteq Id
  /\ d.namesMap \in [DOMAIN d.namesMap -> Slot]
  /\ DOMAIN d.namesMap \subseteq Name
  /\ d.posIndex \in DOMAIN positions
  /\ d.page # NoPage => d.page \in DOMAIN pageSize
  /\ d.holder \in DOMAIN nextId

TypeOK ==
  /\ request \in Assignments
  /\ IsDimension(latest)
  /\ \A j \in Job : IsDimension(old[j]) /\ IsDimension(mine[j])
  /\ positions \in [DOMAIN positions -> Seq(Slot)]
  /\ pageSize \in [DOMAIN pageSize -> Nat]
  /\ nextId \in [DOMAIN nextId -> Nat]
  /\ pc \in [Job -> {"start", "working", "done", "failed"}]
  /\ commitTry \in [Job -> Nat]
  /\ used \subseteq Id

(* Dimension::verify: every position below the number of elements holds an *)
(* element, and each of the three indexes leads back to the slot of every  *)
(* element and to nothing else.                                            *)
InStep(d) ==
  LET vec == positions[d.posIndex]
      Live == DOMAIN d.slots IN
  /\ SizeElements(d) = Cardinality(DOMAIN d.namesMap)
  /\ SizeElements(d) = Cardinality(Live)
  /\ \A i \in 1 .. SizeElements(d) : i \in DOMAIN vec /\ vec[i] \in Live
  /\ \A s \in Live :
       /\ d.slots[s].position \in DOMAIN vec
       /\ vec[d.slots[s].position] = s
       /\ d.slots[s].id \in DOMAIN d.idsMap
       /\ d.idsMap[d.slots[s].id] = s
       /\ d.slots[s].name \in DOMAIN d.namesMap
       /\ d.namesMap[d.slots[s].name] = s

(* "verify the dimension integrity" (Dimension.cpp:3032): the published    *)
(* dimension passes Dimension::verify, the check that Dimension::merge     *)
(* has switched off, whatever the jobs did and in whichever order.         *)
Verify == InStep(latest)

(* Slots are recycled safely: no free slot holds an element, none is free  *)
(* twice, and the page has room behind every slot it gave out.             *)
FreeSlotsAreFree ==
  /\ IsInjective(latest.free)
  /\ Range(latest.free) \intersect DOMAIN latest.slots = {}
  /\ \A s \in Range(latest.free) \union DOMAIN latest.slots :
       latest.page # NoPage /\ s <= pageSize[latest.page]

(* The elements by position, as element/list and dimension/elements show   *)
(* them.                                                                   *)
Order(d) ==
  [i \in 1 .. SizeElements(d) |->
     LET e == d.slots[positions[d.posIndex][i]] IN
     [id |-> e.id, name |-> e.name]]

MovesInBulk == \E j \in Job : request[j].op = "move_bulk"

Undisturbed ==
  /\ \A j \in Job : old'[j] = old[j] => Order(old[j])' = Order(old[j])
  /\ latest' = latest => Order(latest)' = Order(latest)

(* No request but element/move_bulk disturbs a reader.                     *)
OthersLeaveReaders == [][MovesInBulk \/ Undisturbed]_vars

(* element/move_bulk breaks Verify while it works.  When no such job is at *)
(* work and none failed, the published dimension is in step, whatever the  *)
(* other jobs are doing.                                                   *)
InStepAtRest ==
  (\A j \in Job : request[j].op = "move_bulk" => pc[j] \in {"start", "done"})
    => Verify

Elements == INSTANCE ElementOrder WITH
  LoadedOrder <- [i \in 1 .. Len(Loaded) |->
                    [id |-> i - 1, name |-> Loaded[i]]],
  order <- Order(latest),
  name <- latest.name,
  outcome <- [j \in Job |-> CASE pc[j] = "done" -> "applied"
                              [] pc[j] = "failed" -> "refused"
                              [] OTHER -> "pending"]

(* The four parts behave as one ordered list of elements, and every        *)
(* request as one step on it, unless elements are moved in bulk: that is   *)
(* not atomic.                                                             *)
ImplementsElementOrder ==
  Elements!Init /\ [][MovesInBulk \/ Elements!Next]_(Elements!vars)
=============================================================================
