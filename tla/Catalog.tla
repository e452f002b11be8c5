------------------------------- MODULE Catalog -------------------------------
(***************************************************************************)
(* The dimensions and cubes of one normal database under the commit        *)
(* protocol: Database::addDimension, removeDimension, renameDimension,     *)
(* addCube, removeCube, renameCube with the notifications they send,       *)
(* CommitableList::merge, Database::merge and Cube::merge.                 *)
(*                                                                         *)
(* The two lists merge by identifier: a list never conflicts.  What keeps  *)
(* concurrent jobs from breaking the database are the system objects the   *)
(* notifications touch.  Every normal dimension is an element of the       *)
(* dimension #_DIMENSION_, every cube one of #_CUBE_, and the element list *)
(* of a dimension does conflict (DimensionElements.tla).  A dimension also *)
(* has an attribute cube and a cube a rights cube, found by name.          *)
(*                                                                         *)
(* Names are pairs <<prefix, n>>.  The attribute cube stands for the       *)
(* attribute dimension and the dimension rights cube too, the rights cube  *)
(* for the cell property cube: they are created, renamed and removed side  *)
(* by side.  Left out: cells, rules, files, the other properties of a      *)
(* dimension or cube.                                                      *)
(***************************************************************************)
EXTENDS Integers, Sequences, FiniteSets, FiniteSetsExt

CONSTANTS
  Job, NoJob,
  Name,           \* names clients may give
  Loaded,         \* the tree that was loaded
  FirstId,        \* where the identifier holders of both lists start
  Assignments,    \* which request each job may carry out
  COMMIT_REPEATS  \* tries of a job

VARIABLES
  request,    \* what each job was asked to do
  latest,     \* the lists of the database in the latest tree
  nextId,     \* the identifier holders of both lists
  pc,         \* "start", "working", "done" or "failed"
  commitTry,  \* commits of the job that failed so far
  old,        \* the tree the job's copy was made from
  mine,       \* the job's copy, with its changes
  gone        \* auxiliary: the ids of what was removed

vars == <<request, latest, nextId, pc, commitTry, old, mine, gone>>
-----------------------------------------------------------------------------
Kind == {"normal", "info"}

DimensionName == {"dim", "##dim"} \X Name
CubeName == {"cube", "##cube"} \X Name

Request ==
  [op : {"dimension/create"}, name : DimensionName, kind : Kind]
    \union [op : {"cube/create"}, name : CubeName, kind : Kind,
            uses : SUBSET Nat \ {{}}]
    \union [op : {"dimension/destroy", "cube/destroy"}, id : Nat]
    \union [op : {"dimension/rename"}, id : Nat, name : DimensionName]
    \union [op : {"cube/rename"}, id : Nat, name : CubeName]

(* Database::checkDimensionName, checkCubeName: the names of user          *)
(* information begin with ##; other names may.                             *)
ValidName(name, kind) == kind = "info" => name[1] \in {"##dim", "##cube"}

AttributeCube(n) == <<"#_", n>>
RightsCube(n) == <<"#_GROUP_CELL_DATA_", n>>

New(j) == <<j, commitTry[j]>>

With(f, k, v) == [x \in DOMAIN f \union {k} |-> IF x = k THEN v ELSE f[x]]
Without(f, S) == [x \in DOMAIN f \ S |-> f[x]]

(* CommitableList::get by name: the index keeps the lowest identifier.     *)
ByName(list, n) == {x \in DOMAIN list : list[x].name = n}
Lookup(list, n) == Min(ByName(list, n))
InUse(list, n) == ByName(list, n) # {}

RenamedTo(list, x, n) == [list EXCEPT ![x].name = n]

(* Renames what has the old name, if there is such a thing.                *)
RenamedFrom(list, o, n) ==
  IF InUse(list, o) THEN RenamedTo(list, Lookup(list, o), n) ELSE list

(* A meta dimension with other elements, and so another element list.      *)
ChangedTo(p, S) == [elementList |-> p, names |-> S]
-----------------------------------------------------------------------------
(* A tree: the two lists and the two meta dimensions.  Identifiers are     *)
(* below those the holders give out next.                                  *)
Pointer == (Job \X Nat) \union {<<NoJob, 0>>}

SystemName == ({"#_"} \X DimensionName)
                \union ({"#_GROUP_CELL_DATA_"} \X CubeName)

IsDimensionList(list, next) ==
  /\ DOMAIN list \subseteq 0 .. next.dims - 1
  /\ list \in [DOMAIN list -> [name : DimensionName, kind : Kind]]
  /\ \A d \in DOMAIN list : ValidName(list[d].name, list[d].kind)

IsCubeList(list, next) ==
  /\ DOMAIN list \subseteq 0 .. next.cubes - 1
  /\ list \in [DOMAIN list ->
               [name : CubeName \union SystemName,
                kind : Kind \union {"system"}, uses : SUBSET Nat]]
  /\ \A c \in DOMAIN list :
       /\ list[c].kind = "system" <=> list[c].name \in SystemName
       /\ list[c].uses \subseteq 0 .. next.dims - 1

IsTree(t, next) ==
  /\ DOMAIN t = {"dims", "cubes", "dimElems", "cubeElems"}
  /\ IsDimensionList(t.dims, next)
  /\ IsCubeList(t.cubes, next)
  /\ t.dimElems \in [elementList : Pointer, names : SUBSET DimensionName]
  /\ t.cubeElems \in [elementList : Pointer, names : SUBSET CubeName]

NamesDiffer(list) ==
  \A x, y \in DOMAIN list : list[x].name = list[y].name => x = y

NormalDimensions(t) == {d \in DOMAIN t.dims : t.dims[d].kind = "normal"}
OwnerCubes(t) == {c \in DOMAIN t.cubes : t.cubes[c].kind # "system"}

(* The meta dimensions list the normal dimensions and the cubes that are   *)
(* not system cubes.                                                       *)
MetaInStep(t) ==
  /\ t.dimElems.names = {t.dims[d].name : d \in NormalDimensions(t)}
  /\ t.cubeElems.names = {t.cubes[c].name : c \in OwnerCubes(t)}

(* The system cubes are an attribute cube for each dimension and a rights  *)
(* cube for each other cube, over the same dimensions.                     *)
CompanionsInStep(t) ==
  {t.cubes[c] : c \in DOMAIN t.cubes \ OwnerCubes(t)} =
    {[name |-> AttributeCube(t.dims[d].name), kind |-> "system",
      uses |-> {d}] : d \in DOMAIN t.dims}
    \union {[name |-> RightsCube(t.cubes[c].name), kind |-> "system",
             uses |-> t.cubes[c].uses] : c \in OwnerCubes(t)}

DimensionsKept(t) ==
  \A c \in DOMAIN t.cubes :
    t.cubes[c].kind = "normal" => t.cubes[c].uses \subseteq DOMAIN t.dims

Consistent(t) ==
  /\ NamesDiffer(t.dims) /\ NamesDiffer(t.cubes)
  /\ MetaInStep(t) /\ CompanionsInStep(t) /\ DimensionsKept(t)

ASSUME JobAssumption == NoJob \notin Job
ASSUME RepeatsAssumption == COMMIT_REPEATS \in Nat \ {0}
ASSUME LoadedAssumption ==
  /\ FirstId \in [dims : Nat, cubes : Nat]
  /\ IsTree(Loaded, FirstId) /\ Consistent(Loaded)
  /\ Loaded.dimElems.elementList = <<NoJob, 0>>
  /\ Loaded.cubeElems.elementList = <<NoJob, 0>>
ASSUME AssignmentsAssumption == Assignments \subseteq [Job -> Request]
-----------------------------------------------------------------------------
(* Database::addDimension, AttributedDimension::addDimension and           *)
(* NormalDimension::notifyAddDimension; UserInfoDimension is not listed.   *)
AddDimension(t, p, id, cubeId, name, kind) ==
  [t EXCEPT
     !.dims = With(@, id, [name |-> name, kind |-> kind]),
     !.cubes = With(@, cubeId, [name |-> AttributeCube(name),
                                kind |-> "system", uses |-> {id}]),
     !.dimElems = IF kind = "normal"
                  THEN ChangedTo(p, @.names \union {name}) ELSE @]

CanAddDimension(t, name, kind) ==
  /\ ValidName(name, kind)
  /\ ~InUse(t.dims, name)
  /\ ~InUse(t.cubes, AttributeCube(name))
  /\ kind = "normal" => name \notin t.dimElems.names

(* Database::removeDimension asks for normal cubes only.                   *)
CanRemoveDimension(t, id) ==
  /\ id \in DOMAIN t.dims
  /\ \A c \in DOMAIN t.cubes :
       t.cubes[c].kind = "normal" => id \notin t.cubes[c].uses

RemoveDimension(t, p, id) ==
  LET d == t.dims[id]
      attribute == ByName(t.cubes, AttributeCube(d.name)) IN
  [t EXCEPT
     !.dims = Without(@, {id}),
     !.cubes = Without(@, IF attribute = {} THEN {} ELSE {Min(attribute)}),
     !.dimElems = IF d.kind = "normal"
                  THEN ChangedTo(p, @.names \ {d.name}) ELSE @]

CanRename(list, id, name) ==
  /\ id \in DOMAIN list
  /\ ValidName(name, list[id].kind)
  /\ InUse(list, name) => Lookup(list, name) = id

RenameDimension(t, p, id, name) ==
  LET d == t.dims[id] IN
  IF d.name = name THEN t ELSE
  [t EXCEPT
     !.dims = RenamedTo(@, id, name),
     !.cubes = RenamedFrom(@, AttributeCube(d.name), AttributeCube(name)),
     !.dimElems = IF d.kind = "normal"
                  THEN ChangedTo(p, (@.names \ {d.name}) \union {name})
                  ELSE @]

(* Database::addCube and Cube::notifyAddCube, which UserInfoCube inherits. *)
CanAddCube(t, name, kind, uses) ==
  /\ ValidName(name, kind)
  /\ uses \subseteq DOMAIN t.dims
  /\ ~InUse(t.cubes, name)
  /\ ~InUse(t.cubes, RightsCube(name))
  /\ name \notin t.cubeElems.names

AddCube(t, p, id, rightsId, name, kind, uses) ==
  [t EXCEPT
     !.cubes = With(With(@, id, [name |-> name, kind |-> kind, uses |-> uses]),
                    rightsId, [name |-> RightsCube(name),
                               kind |-> "system", uses |-> uses]),
     !.cubeElems = ChangedTo(p, @.names \union {name})]

(* Mutant: the rights cube of a removed cube stays.                        *)
RemoveCubeOnly(t, p, id) ==
  [t EXCEPT !.cubes = Without(@, {id}),
            !.cubeElems = ChangedTo(p, @.names \ {t.cubes[id].name})]

(* Database::removeCube and Cube::notifyRemoveCube.                        *)
RemoveCube(t, p, id) ==
  LET c == t.cubes[id]
      rights == ByName(t.cubes, RightsCube(c.name)) IN
  [t EXCEPT
     !.cubes = Without(@, {id} \union
                          IF rights = {} THEN {} ELSE {Min(rights)}),
     !.cubeElems = ChangedTo(p, @.names \ {c.name})]

(* Database::renameCube and Cube::notifyRenameCube.                        *)
RenameCube(t, p, id, name) ==
  LET c == t.cubes[id] IN
  IF c.name = name THEN t ELSE
  [t EXCEPT
     !.cubes = RenamedFrom(RenamedTo(@, id, name),
                           RightsCube(c.name), RightsCube(name)),
     !.cubeElems = ChangedTo(p, (@.names \ {c.name}) \union {name})]
-----------------------------------------------------------------------------
Init ==
  /\ request \in Assignments
  /\ latest = Loaded
  /\ nextId = FirstId
  /\ pc = [j \in Job |-> "start"]
  /\ commitTry = [j \in Job |-> 0]
  /\ old = [j \in Job |-> Loaded]
  /\ mine = [j \in Job |-> Loaded]
  /\ gone = [dims |-> {}, cubes |-> {}]

(* The job got its copy of the latest tree and changed it to t.            *)
Works(j, op, t) ==
  /\ pc[j] = "start"
  /\ request[j].op = op
  /\ old' = [old EXCEPT ![j] = latest]
  /\ mine' = [mine EXCEPT ![j] = t]
  /\ pc' = [pc EXCEPT ![j] = "working"]
  /\ UNCHANGED <<request, latest, commitTry, gone>>

(* Identifiers are drawn from holders all copies share (IdHolder).         *)
DimensionCreate(j) ==
  LET r == request[j] IN
  /\ r.op = "dimension/create"
  /\ CanAddDimension(latest, r.name, r.kind)
  /\ Works(j, "dimension/create",
           AddDimension(latest, New(j), nextId.dims, nextId.cubes,
                        r.name, r.kind))
  /\ nextId' = [dims |-> nextId.dims + 1, cubes |-> nextId.cubes + 1]

DimensionDestroy(j) ==
  /\ request[j].op = "dimension/destroy"
  /\ CanRemoveDimension(latest, request[j].id)
  /\ Works(j, "dimension/destroy",
           RemoveDimension(latest, New(j), request[j].id))
  /\ UNCHANGED nextId

DimensionRename(j) ==
  LET r == request[j] IN
  /\ r.op = "dimension/rename"
  /\ CanRename(latest.dims, r.id, r.name)
  /\ Works(j, "dimension/rename",
           RenameDimension(latest, New(j), r.id, r.name))
  /\ UNCHANGED nextId

CubeCreate(j) ==
  LET r == request[j] IN
  /\ r.op = "cube/create"
  /\ CanAddCube(latest, r.name, r.kind, r.uses)
  /\ Works(j, "cube/create",
           AddCube(latest, New(j), nextId.cubes, nextId.cubes + 1,
                   r.name, r.kind, r.uses))
  /\ nextId' = [nextId EXCEPT !.cubes = @ + 2]

(* System cubes can neither be deleted nor renamed.                        *)
CubeDestroy(j) ==
  /\ request[j].op = "cube/destroy"
  /\ request[j].id \in OwnerCubes(latest)
  /\ Works(j, "cube/destroy", RemoveCube(latest, New(j), request[j].id))
  /\ UNCHANGED nextId

CubeRename(j) ==
  LET r == request[j] IN
  /\ r.op = "cube/rename"
  /\ r.id \in OwnerCubes(latest)
  /\ CanRename(latest.cubes, r.id, r.name)
  /\ Works(j, "cube/rename", RenameCube(latest, New(j), r.id, r.name))
  /\ UNCHANGED nextId

(* An ErrorException: name in use, not found, right missing, still used.   *)
Throw(j) ==
  /\ pc[j] \in {"start", "working"}
  /\ pc' = [pc EXCEPT ![j] = "failed"]
  /\ UNCHANGED <<request, latest, nextId, commitTry, old, mine, gone>>
-----------------------------------------------------------------------------
(* CommitableList::merge of a job's list M with the latest list L, both    *)
(* made from O: the job's items, and what others added; without what       *)
(* others removed.  The name of an item is the job's if it changed it      *)
(* (Commitable::mergeint).                                                 *)
MergedList(M, L, O) ==
  [x \in (DOMAIN M \union (DOMAIN L \ DOMAIN O)) \ (DOMAIN O \ DOMAIN L) |->
     IF x \notin DOMAIN M THEN L[x]
     ELSE IF x \in DOMAIN O /\ M[x].name = O[x].name THEN L[x] ELSE M[x]]

MergedDimensions(j) == MergedList(mine[j].dims, latest.dims, old[j].dims)
MergedCubes(j) == MergedList(mine[j].cubes, latest.cubes, old[j].cubes)

(* Dimension::merge of a meta dimension that both changed.                 *)
MetaConflict(part, j) ==
  /\ mine[j][part].elementList # old[j][part].elementList
  /\ latest[part].elementList # old[j][part].elementList

(* Mutant: a cube that others added is not checked.                        *)
OwnDimensionMissing(j) ==
  \E c \in DOMAIN mine[j].cubes \ DOMAIN old[j].cubes :
    ~(mine[j].cubes[c].uses \subseteq DOMAIN MergedDimensions(j))

(* Cube::merge of a new cube, Cube::checkBeforeInsertToMergedList of one   *)
(* that others added: the merged database lacks one of its dimensions.     *)
DimensionMissing(j) ==
  LET added(t) == {t.cubes[c] : c \in DOMAIN t.cubes \ DOMAIN old[j].cubes} IN
  \E c \in added(mine[j]) \union added(latest) :
    ~(c.uses \subseteq DOMAIN MergedDimensions(j))

(* Mutants: one of the lists is not protected by its meta dimension.       *)
ConflictOfDimensions(j) ==
  MetaConflict("dimElems", j) \/ DimensionMissing(j)

ConflictOfCubes(j) ==
  MetaConflict("cubeElems", j) \/ DimensionMissing(j)

Conflict(j) ==
  \/ MetaConflict("dimElems", j)
  \/ MetaConflict("cubeElems", j)
  \/ DimensionMissing(j)

MergedMeta(part, j) ==
  IF mine[j][part].elementList # old[j][part].elementList
  THEN mine[j][part] ELSE latest[part]

Merged(j) ==
  [dims |-> MergedDimensions(j), cubes |-> MergedCubes(j),
   dimElems |-> MergedMeta("dimElems", j),
   cubeElems |-> MergedMeta("cubeElems", j)]

Merge(j) ==
  /\ pc[j] = "working"
  /\ ~Conflict(j)
  /\ latest' = Merged(j)
  /\ gone' =
       [dims |-> gone.dims \union (DOMAIN latest.dims \ DOMAIN latest'.dims),
        cubes |-> gone.cubes
                    \union (DOMAIN latest.cubes \ DOMAIN latest'.cubes)]
  /\ pc' = [pc EXCEPT ![j] = "done"]
  /\ UNCHANGED <<request, nextId, commitTry, old, mine>>

(* The elements removed from a meta dimension have cells, and the page     *)
(* lists of cells may conflict too.                                        *)
ConflictOfCells(j) == request[j].op \in {"dimension/destroy", "cube/destroy"}

MergeFails(j) ==
  /\ pc[j] = "working"
  /\ Conflict(j) \/ ConflictOfCells(j)
  /\ commitTry' = [commitTry EXCEPT ![j] = @ + 1]
  /\ pc' = [pc EXCEPT ![j] = IF commitTry[j] + 1 < COMMIT_REPEATS
                             THEN "start" ELSE "failed"]
  /\ UNCHANGED <<request, latest, nextId, old, mine, gone>>

Change(j) ==
  \/ DimensionCreate(j) \/ DimensionDestroy(j) \/ DimensionRename(j)
  \/ CubeCreate(j) \/ CubeDestroy(j) \/ CubeRename(j)

Finished == \A j \in Job : pc[j] \in {"done", "failed"}

Idle == Finished /\ UNCHANGED vars

Next == (\E j \in Job : Change(j) \/ Merge(j) \/ MergeFails(j) \/ Throw(j))
        \/ Idle

Spec == Init /\ [][Next]_vars
-----------------------------------------------------------------------------
TypeOK ==
  /\ request \in Assignments
  /\ nextId \in [dims : Nat, cubes : Nat]
  /\ IsTree(latest, nextId)
  /\ DOMAIN old = Job /\ DOMAIN mine = Job
  /\ \A j \in Job : IsTree(old[j], nextId) /\ IsTree(mine[j], nextId)
  /\ pc \in [Job -> {"start", "working", "done", "failed"}]
  /\ commitTry \in [Job -> 0 .. COMMIT_REPEATS]
  /\ \A j \in Job : pc[j] # "failed" => commitTry[j] < COMMIT_REPEATS

(* No two jobs give two dimensions the same name if that may be one of     *)
(* user information.  Such dimensions have no element in a meta dimension  *)
(* that would conflict: both requests are carried out                      *)
(* (UserInfoDimension.cpp:47).                                             *)
GivesDimensionName(r) == r.op \in {"dimension/create", "dimension/rename"}

InfoNamesApart(q) ==
  \A j, k \in Job :
    /\ j # k
    /\ GivesDimensionName(q[j]) /\ GivesDimensionName(q[k])
    /\ q[j].name = q[k].name
    => \/ q[j].name[1] = "dim"
       \/ {q[j].op, q[k].op} = {"dimension/rename"} /\ q[j].id = q[k].id

(* "dimension name is already in use" (Database.cpp:1325) and "cube name   *)
(* is already in use" (Database.cpp:1549): no two dimensions and no two    *)
(* cubes of a database have the same name, though each job looked at its   *)
(* own copy of the lists and the lists never conflict.  For requests whose *)
(* names are apart in the sense above.                                     *)
NamesUnique == NamesDiffer(latest.dims) /\ NamesDiffer(latest.cubes)

(* #_DIMENSION_ lists the normal dimensions and #_CUBE_ the cubes that are *)
(* not system cubes, by their names: rights are granted on these elements. *)
(* Every dimension has its attribute cube and every cube its rights cube,  *)
(* over the same dimensions, and no system cube outlives its owner, though *)
(* they are merged one by one.                                             *)
SystemObjectsInStep == MetaInStep(latest) /\ CompanionsInStep(latest)

(* A normal cube has all its dimensions, although neither of the jobs that *)
(* create cubes and remove dimensions sees the change of the other.  It is *)
(* not so for a cube with user information: removeDimension asks normal    *)
(* cubes only (Database.cpp:1366).                                         *)
CubesKeepDimensions == DimensionsKept(latest)

(* The database as clients see it, without the system cubes.               *)
ClientCubes(t) == [c \in OwnerCubes(t) |-> t.cubes[c]]

Outcome(j) == CASE pc[j] = "done" -> "applied"
                [] pc[j] = "failed" -> "refused"
                [] OTHER -> "pending"

(* Requests are serializable: each commit has the effect of its request on *)
(* the latest lists, not on the copy the job worked on.                    *)
Serial == INSTANCE Catalogue WITH
  LoadedDims <- Loaded.dims,
  LoadedCubes <- ClientCubes(Loaded),
  dims <- latest.dims,
  cubes <- ClientCubes(latest),
  outcome <- [j \in Job |-> Outcome(j)]

ImplementsCatalogue == Serial!Spec
=============================================================================
