---------------------------- MODULE CatalogProofs ----------------------------
(***************************************************************************)
(* Theorems about the dimensions and cubes of a database, for any loaded   *)
(* database, any requests and any number of jobs.                          *)
(***************************************************************************)
EXTENDS Catalog, WellFoundedInduction, TLAPS

(* A set of numbers that is not empty has a least one.                     *)
LEMMA LeastNumber ==
  ASSUME NEW T \in SUBSET Nat, T # {}
  PROVE  Min(T) \in T
<1> DEFINE R == {p \in Nat \X Nat : p[1] < p[2]}
<1>1. IsWellFoundedOn(R, Nat)
  BY NatLessThanWellFounded, Zenon DEF OpToRel
<1>2. \A x, y \in Nat : y < x => <<y, x>> \in R
  OBVIOUS
<1> HIDE DEF R
<1>3. PICK x \in T : \A y \in T : ~ (<<y, x>> \in R)
  BY <1>1, WFMin
<1>4. \A y \in T : x <= y
  <2> TAKE y \in T
  <2>1. ~ (y < x)
    BY <1>2, <1>3
  <2> QED
    BY <2>1
<1> QED
  BY <1>4 DEF Min

(* What the lookup by name finds has the name.                             *)
LEMMA LookupFinds ==
  ASSUME NEW list, DOMAIN list \subseteq Nat, NEW n, InUse(list, n)
  PROVE  Lookup(list, n) \in DOMAIN list /\ list[Lookup(list, n)].name = n
BY LeastNumber DEF InUse, Lookup, ByName

LEMMA SystemNames ==
  /\ \A n \in DimensionName : AttributeCube(n) \in SystemName
  /\ \A n \in CubeName : RightsCube(n) \in SystemName
  /\ \A n \in CubeName : n \notin SystemName
BY DEF SystemName, AttributeCube, RightsCube, DimensionName, CubeName
-----------------------------------------------------------------------------
(* What the operations on lists keep.                                      *)
LEMMA DimensionListKept ==
  ASSUME NEW next \in [dims : Nat, cubes : Nat], NEW list, IsDimensionList(list, next)
  PROVE  /\ \A S : IsDimensionList(Without(list, S), next)
         /\ \A id \in DOMAIN list, n \in DimensionName :
              ValidName(n, list[id].kind)
                => IsDimensionList(RenamedTo(list, id, n), next)
         /\ \A v \in [name : DimensionName, kind : Kind] :
              ValidName(v.name, v.kind) =>
                IsDimensionList(With(list, next.dims, v),
                                [dims |-> next.dims + 1, cubes |-> next.cubes + 1])
<1>1. ASSUME NEW S PROVE IsDimensionList(Without(list, S), next)
  BY DEF IsDimensionList, Without
<1>2. ASSUME NEW id \in DOMAIN list, NEW n \in DimensionName,
             ValidName(n, list[id].kind)
      PROVE  IsDimensionList(RenamedTo(list, id, n), next)
  <2> DEFINE m == RenamedTo(list, id, n)
  <2>1. m = [list EXCEPT ![id] = [list[id] EXCEPT !.name = n]]
    BY DEF RenamedTo
  <2>2. [list[id] EXCEPT !.name = n] \in [name : DimensionName, kind : Kind]
    BY DEF IsDimensionList
  <2>3. [list[id] EXCEPT !.name = n].name = n /\ [list[id] EXCEPT !.name = n].kind = list[id].kind
    BY DEF IsDimensionList
  <2> QED
    BY <1>2, <2>1, <2>2, <2>3 DEF IsDimensionList
<1>3. ASSUME NEW v \in [name : DimensionName, kind : Kind], ValidName(v.name, v.kind)
      PROVE  IsDimensionList(With(list, next.dims, v),
                             [dims |-> next.dims + 1, cubes |-> next.cubes + 1])
  <2> DEFINE m == With(list, next.dims, v)
  <2>1. DOMAIN m = DOMAIN list \union {next.dims}
    BY DEF With
  <2>2. \A x \in DOMAIN m : m[x] = IF x = next.dims THEN v ELSE list[x]
    BY DEF With
  <2>3. m = [x \in DOMAIN m |-> m[x]]
    BY DEF With
  <2>4. DOMAIN m \subseteq 0 .. next.dims + 1 - 1
    BY <2>1 DEF IsDimensionList
  <2> HIDE DEF m
  <2>5. \A x \in DOMAIN m : /\ m[x] \in [name : DimensionName, kind : Kind]
                            /\ ValidName(m[x].name, m[x].kind)
    BY <1>3, <2>1, <2>2 DEF IsDimensionList
  <2> QED
    BY <2>3, <2>4, <2>5 DEF IsDimensionList, m
<1> QED
  BY <1>1, <1>2, <1>3

LEMMA CubeListKept ==
  ASSUME NEW next \in [dims : Nat, cubes : Nat], NEW list, IsCubeList(list, next)
  PROVE  /\ \A S : IsCubeList(Without(list, S), next)
         /\ \A id \in DOMAIN list, n \in CubeName \union SystemName :
              (list[id].kind = "system" <=> n \in SystemName)
                => IsCubeList(RenamedTo(list, id, n), next)
<1>1. ASSUME NEW S PROVE IsCubeList(Without(list, S), next)
  BY DEF IsCubeList, Without
<1>2. ASSUME NEW id \in DOMAIN list, NEW n \in CubeName \union SystemName,
             list[id].kind = "system" <=> n \in SystemName
      PROVE  IsCubeList(RenamedTo(list, id, n), next)
  <2> DEFINE m == RenamedTo(list, id, n)
  <2>1. m = [list EXCEPT ![id] = [list[id] EXCEPT !.name = n]]
    BY DEF RenamedTo
  <2>2. [list[id] EXCEPT !.name = n]
          \in [name : CubeName \union SystemName,
              kind : Kind \union {"system"}, uses : SUBSET Nat]
    BY DEF IsCubeList
  <2>3. /\ [list[id] EXCEPT !.name = n].name = n
        /\ [list[id] EXCEPT !.name = n].kind = list[id].kind
        /\ [list[id] EXCEPT !.name = n].uses = list[id].uses
    BY DEF IsCubeList
  <2> QED
    BY <1>2, <2>1, <2>2, <2>3 DEF IsCubeList
<1> QED
  BY <1>1, <1>2

LEMMA RenamedFromType ==
  ASSUME NEW next \in [dims : Nat, cubes : Nat], NEW list, IsCubeList(list, next),
         NEW o \in SystemName, NEW n \in SystemName
  PROVE  /\ IsCubeList(RenamedFrom(list, o, n), next)
         /\ DOMAIN RenamedFrom(list, o, n) = DOMAIN list
         /\ \A c \in DOMAIN list :
              /\ RenamedFrom(list, o, n)[c].kind = list[c].kind
              /\ RenamedFrom(list, o, n)[c].uses = list[c].uses
<1>1. CASE ~InUse(list, o)
  BY <1>1 DEF RenamedFrom
<1>2. CASE InUse(list, o)
  <2>1. PICK c \in DOMAIN list :
          list[c].name = o /\ RenamedFrom(list, o, n) = RenamedTo(list, c, n)
    <3>1. DOMAIN list \subseteq Nat
      BY DEF IsCubeList
    <3> QED
      BY <1>2, <3>1, LookupFinds DEF RenamedFrom
  <2>2. list[c].kind = "system"
    BY <2>1 DEF IsCubeList
  <2>3. IsCubeList(RenamedTo(list, c, n), next)
    BY <2>2, CubeListKept
  <2>4. \A x \in DOMAIN list :
          /\ RenamedTo(list, c, n)[x].kind = list[x].kind
          /\ RenamedTo(list, c, n)[x].uses = list[x].uses
    BY DEF RenamedTo, IsCubeList
  <2> QED
    BY <2>1, <2>3, <2>4 DEF RenamedTo
<1> QED
  BY <1>1, <1>2

(* A cube under the next identifier, or the one after it.                  *)
LEMMA CubeAdded ==
  ASSUME NEW next \in [dims : Nat, cubes : Nat], NEW next2 \in [dims : Nat, cubes : Nat],
         next.dims <= next2.dims, next.cubes <= next2.cubes,
         NEW list, IsCubeList(list, next), NEW id \in Nat, id < next2.cubes,
         NEW v \in [name : CubeName \union SystemName,
                   kind : Kind \union {"system"}, uses : SUBSET Nat],
         v.kind = "system" <=> v.name \in SystemName,
         v.uses \subseteq 0 .. next2.dims - 1
  PROVE  IsCubeList(With(list, id, v), next2)
<1> DEFINE m == With(list, id, v)
<1>1. DOMAIN m = DOMAIN list \union {id}
  BY DEF With
<1>2. \A x \in DOMAIN m : m[x] = IF x = id THEN v ELSE list[x]
  BY DEF With
<1>3. m = [x \in DOMAIN m |-> m[x]]
  BY DEF With
<1>4. DOMAIN m \subseteq 0 .. next2.cubes - 1
  BY <1>1 DEF IsCubeList
<1> HIDE DEF m
<1>5. \A x \in DOMAIN m :
        /\ m[x] \in [name : CubeName \union SystemName,
                     kind : Kind \union {"system"}, uses : SUBSET Nat]
        /\ m[x].kind = "system" <=> m[x].name \in SystemName
        /\ m[x].uses \subseteq 0 .. next2.dims - 1
  BY <1>1, <1>2 DEF IsCubeList
<1> QED
  BY <1>3, <1>4, <1>5 DEF IsCubeList, m
-----------------------------------------------------------------------------
(* How the tree m that a job makes of the tree t differs from it: objects  *)
(* keep their kind and what they use, new ones have new identifiers, and a *)
(* dimension that goes is not used by a normal cube.                       *)
Follows(m, t, next) ==
  /\ \A d \in DOMAIN m.dims :
       \/ d \in DOMAIN t.dims /\ m.dims[d].kind = t.dims[d].kind
       \/ d >= next.dims
  /\ \A c \in DOMAIN m.cubes :
       \/ /\ c \in DOMAIN t.cubes
          /\ m.cubes[c].kind = t.cubes[c].kind
          /\ m.cubes[c].uses = t.cubes[c].uses
       \/ c >= next.cubes

RemovesUnused(m, t) ==
  \A d \in DOMAIN t.dims \ DOMAIN m.dims : \A c \in DOMAIN t.cubes :
    t.cubes[c].kind = "normal" => d \notin t.cubes[c].uses

LEMMA AddDimensionType ==
  ASSUME NEW next \in [dims : Nat, cubes : Nat], NEW t, IsTree(t, next),
         NEW p \in Pointer, NEW name \in DimensionName, NEW kind \in Kind,
         ValidName(name, kind)
  PROVE  LET m == AddDimension(t, p, next.dims, next.cubes, name, kind) IN
         /\ IsTree(m, [dims |-> next.dims + 1, cubes |-> next.cubes + 1])
         /\ Follows(m, t, next)
         /\ RemovesUnused(m, t)
<1> DEFINE m == AddDimension(t, p, next.dims, next.cubes, name, kind)
           next2 == [dims |-> next.dims + 1, cubes |-> next.cubes + 1]
           v == [name |-> name, kind |-> kind]
           a == [name |-> AttributeCube(name), kind |-> "system", uses |-> {next.dims}]
           meta == IF kind = "normal" THEN ChangedTo(p, t.dimElems.names \union {name})
                                      ELSE t.dimElems
<1>1. /\ DOMAIN m = {"dims", "cubes", "dimElems", "cubeElems"}
      /\ m.dims = With(t.dims, next.dims, v) /\ m.cubes = With(t.cubes, next.cubes, a)
      /\ m.dimElems = meta /\ m.cubeElems = t.cubeElems
  BY DEF AddDimension, IsTree
<1>2. IsDimensionList(With(t.dims, next.dims, v), next2)
  BY DimensionListKept DEF IsTree
<1>3. IsCubeList(With(t.cubes, next.cubes, a), next2)
  <2>1. a \in [name : CubeName \union SystemName,
              kind : Kind \union {"system"}, uses : SUBSET Nat]
    BY SystemNames
  <2>2. a.name \in SystemName /\ a.kind = "system" /\ a.uses = {next.dims}
    BY SystemNames
  <2>3. {next.dims} \subseteq 0 .. next2.dims - 1
    OBVIOUS
  <2>4. next2 \in [dims : Nat, cubes : Nat] /\ next.dims <= next2.dims
        /\ next.cubes <= next2.cubes /\ next.cubes < next2.cubes
        /\ next.cubes \in Nat /\ IsCubeList(t.cubes, next)
    BY DEF IsTree
  <2> HIDE DEF a, next2
  <2> QED
    BY <2>1, <2>2, <2>3, <2>4, CubeAdded
<1>4. meta \in [elementList : Pointer, names : SUBSET DimensionName]
  BY DEF IsTree, ChangedTo
<1>5. /\ DOMAIN m.dims = DOMAIN t.dims \union {next.dims}
      /\ \A d \in DOMAIN t.dims : d # next.dims => m.dims[d] = t.dims[d]
      /\ DOMAIN m.cubes = DOMAIN t.cubes \union {next.cubes}
      /\ \A c \in DOMAIN t.cubes : c # next.cubes => m.cubes[c] = t.cubes[c]
  BY <1>1 DEF With
<1> HIDE DEF m, meta
<1>6. Follows(m, t, next) /\ RemovesUnused(m, t)
  BY <1>5 DEF Follows, RemovesUnused
<1>7. IsTree(m, next2)
  BY <1>1, <1>2, <1>3, <1>4 DEF IsTree
<1> QED
  BY <1>6, <1>7 DEF m

LEMMA RemoveDimensionType ==
  ASSUME NEW next \in [dims : Nat, cubes : Nat], NEW t, IsTree(t, next),
         NEW p \in Pointer, NEW id, CanRemoveDimension(t, id)
  PROVE  LET m == RemoveDimension(t, p, id) IN
         /\ IsTree(m, next) /\ Follows(m, t, next) /\ RemovesUnused(m, t)
<1> DEFINE m == RemoveDimension(t, p, id)
           d == t.dims[id]
           attribute == ByName(t.cubes, AttributeCube(d.name))
           S == IF attribute = {} THEN {} ELSE {Min(attribute)}
           meta == IF d.kind = "normal" THEN ChangedTo(p, t.dimElems.names \ {d.name})
                                        ELSE t.dimElems
<1>1. /\ DOMAIN m = {"dims", "cubes", "dimElems", "cubeElems"}
      /\ m.dims = Without(t.dims, {id}) /\ m.cubes = Without(t.cubes, S)
      /\ m.dimElems = meta /\ m.cubeElems = t.cubeElems
  BY DEF RemoveDimension, IsTree
<1>2. IsDimensionList(Without(t.dims, {id}), next) /\ IsCubeList(Without(t.cubes, S), next)
  BY DimensionListKept, CubeListKept DEF IsTree
<1>3. meta \in [elementList : Pointer, names : SUBSET DimensionName]
  <2>1. d.name \in DimensionName
    BY DEF CanRemoveDimension, IsTree, IsDimensionList
  <2> QED
    BY <2>1 DEF IsTree, ChangedTo
<1>4. /\ DOMAIN m.dims = DOMAIN t.dims \ {id}
      /\ \A x \in DOMAIN m.dims : m.dims[x] = t.dims[x]
      /\ DOMAIN m.cubes = DOMAIN t.cubes \ S
      /\ \A c \in DOMAIN m.cubes : m.cubes[c] = t.cubes[c]
  BY <1>1 DEF Without
<1> HIDE DEF m, meta, S
<1>5. Follows(m, t, next) /\ RemovesUnused(m, t)
  BY <1>4 DEF Follows, RemovesUnused, CanRemoveDimension
<1>6. IsTree(m, next)
  BY <1>1, <1>2, <1>3 DEF IsTree
<1> QED
  BY <1>5, <1>6 DEF m

LEMMA RenameDimensionType ==
  ASSUME NEW next \in [dims : Nat, cubes : Nat], NEW t, IsTree(t, next),
         NEW p \in Pointer, NEW name \in DimensionName, NEW id,
         CanRename(t.dims, id, name)
  PROVE  LET m == RenameDimension(t, p, id, name) IN
         /\ IsTree(m, next) /\ Follows(m, t, next) /\ RemovesUnused(m, t)
<1> DEFINE m == RenameDimension(t, p, id, name)
           d == t.dims[id]
           a == RenamedFrom(t.cubes, AttributeCube(d.name), AttributeCube(name))
           meta == IF d.kind = "normal"
                   THEN ChangedTo(p, (t.dimElems.names \ {d.name}) \union {name})
                   ELSE t.dimElems
<1>1. CASE d.name = name
  <2>1. m = t
    BY <1>1 DEF RenameDimension
  <2> HIDE DEF m
  <2>2. Follows(t, t, next) /\ RemovesUnused(t, t)
    BY DEF Follows, RemovesUnused
  <2> QED
    BY <2>1, <2>2 DEF m
<1>2. CASE d.name # name
  <2>1. /\ DOMAIN m = {"dims", "cubes", "dimElems", "cubeElems"}
        /\ m.dims = RenamedTo(t.dims, id, name) /\ m.cubes = a
        /\ m.dimElems = meta /\ m.cubeElems = t.cubeElems
    BY <1>2 DEF RenameDimension, IsTree
  <2>2. d.name \in DimensionName /\ id \in DOMAIN t.dims /\ ValidName(name, d.kind)
    BY DEF CanRename, IsTree, IsDimensionList
  <2>3. IsDimensionList(RenamedTo(t.dims, id, name), next)
    BY <2>2, DimensionListKept DEF IsTree
  <2>4. /\ IsCubeList(a, next) /\ DOMAIN a = DOMAIN t.cubes
        /\ \A c \in DOMAIN t.cubes : a[c].kind = t.cubes[c].kind /\ a[c].uses = t.cubes[c].uses
    BY <2>2, SystemNames, RenamedFromType DEF IsTree
  <2>5. meta \in [elementList : Pointer, names : SUBSET DimensionName]
    BY <2>2 DEF IsTree, ChangedTo
  <2>6. /\ DOMAIN m.dims = DOMAIN t.dims
        /\ \A x \in DOMAIN m.dims : m.dims[x].kind = t.dims[x].kind
    BY <2>1, <2>2 DEF RenamedTo, IsTree, IsDimensionList
  <2> HIDE DEF m, meta, a
  <2>7. Follows(m, t, next) /\ RemovesUnused(m, t)
    BY <2>1, <2>4, <2>6 DEF Follows, RemovesUnused
  <2>8. IsTree(m, next)
    BY <2>1, <2>3, <2>4, <2>5 DEF IsTree
  <2> QED
    BY <2>7, <2>8 DEF m
<1> QED
  BY <1>1, <1>2

LEMMA AddCubeType ==
  ASSUME NEW next \in [dims : Nat, cubes : Nat], NEW t, IsTree(t, next),
         NEW p \in Pointer, NEW name \in CubeName, NEW kind \in Kind,
         NEW uses \in SUBSET Nat, CanAddCube(t, name, kind, uses)
  PROVE  LET m == AddCube(t, p, next.cubes, next.cubes + 1, name, kind, uses) IN
         /\ IsTree(m, [next EXCEPT !.cubes = @ + 2])
         /\ Follows(m, t, next) /\ RemovesUnused(m, t)
<1> DEFINE m == AddCube(t, p, next.cubes, next.cubes + 1, name, kind, uses)
           next1 == [dims |-> next.dims, cubes |-> next.cubes + 1]
           next2 == [dims |-> next.dims, cubes |-> next.cubes + 2]
           v == [name |-> name, kind |-> kind, uses |-> uses]
           r == [name |-> RightsCube(name), kind |-> "system", uses |-> uses]
           one == With(t.cubes, next.cubes, v)
           two == With(one, next.cubes + 1, r)
           meta == ChangedTo(p, t.cubeElems.names \union {name})
<1>1. /\ DOMAIN m = {"dims", "cubes", "dimElems", "cubeElems"}
      /\ m.dims = t.dims /\ m.cubes = two
      /\ m.dimElems = t.dimElems /\ m.cubeElems = meta
  BY DEF AddCube, IsTree
<1>2. uses \subseteq 0 .. next.dims - 1
  BY DEF CanAddCube, IsTree, IsDimensionList
<1>3. IsCubeList(one, next1)
  <2>1. v \in [name : CubeName \union SystemName,
              kind : Kind \union {"system"}, uses : SUBSET Nat]
    OBVIOUS
  <2>2. v.name \notin SystemName /\ v.kind # "system" /\ v.uses = uses
    BY SystemNames DEF Kind
  <2>3. next1 \in [dims : Nat, cubes : Nat] /\ next.dims = next1.dims
        /\ next.cubes <= next1.cubes /\ next.cubes < next1.cubes
        /\ next.cubes \in Nat /\ next.dims <= next1.dims /\ IsCubeList(t.cubes, next)
    BY DEF IsTree
  <2> HIDE DEF v, next1
  <2> QED
    BY <1>2, <2>1, <2>2, <2>3, CubeAdded
<1>4. IsCubeList(two, next2)
  <2>1. r \in [name : CubeName \union SystemName,
              kind : Kind \union {"system"}, uses : SUBSET Nat]
    BY SystemNames
  <2>2. r.name \in SystemName /\ r.kind = "system" /\ r.uses = uses
    BY SystemNames
  <2>3. /\ next1 \in [dims : Nat, cubes : Nat] /\ next2 \in [dims : Nat, cubes : Nat]
        /\ next1.dims <= next2.dims /\ next1.cubes <= next2.cubes
        /\ next.cubes + 1 < next2.cubes /\ next.cubes + 1 \in Nat
        /\ next2.dims = next.dims
    OBVIOUS
  <2> HIDE DEF r, next1, next2, one
  <2> QED
    BY <1>2, <1>3, <2>1, <2>2, <2>3, CubeAdded
<1>5. meta \in [elementList : Pointer, names : SUBSET CubeName]
  BY DEF IsTree, ChangedTo
<1>6. /\ DOMAIN m.cubes = DOMAIN t.cubes \union {next.cubes, next.cubes + 1}
      /\ \A c \in DOMAIN t.cubes :
           c \notin {next.cubes, next.cubes + 1} => m.cubes[c] = t.cubes[c]
  BY <1>1 DEF With
<1>7. next2 = [next EXCEPT !.cubes = @ + 2]
  OBVIOUS
<1> HIDE DEF m, meta, one, two, next2
<1>8. Follows(m, t, next) /\ RemovesUnused(m, t)
  BY <1>1, <1>6 DEF Follows, RemovesUnused
<1>9. IsTree(m, next2)
  <2>1. IsDimensionList(t.dims, next2)
    BY DEF next2, IsTree, IsDimensionList
  <2> QED
    BY <1>1, <1>4, <1>5, <2>1 DEF IsTree
<1> QED
  BY <1>7, <1>8, <1>9 DEF m

LEMMA RemoveCubeType ==
  ASSUME NEW next \in [dims : Nat, cubes : Nat], NEW t, IsTree(t, next),
         NEW p \in Pointer, NEW id \in OwnerCubes(t)
  PROVE  LET m == RemoveCube(t, p, id) IN
         /\ IsTree(m, next) /\ Follows(m, t, next) /\ RemovesUnused(m, t)
<1> DEFINE m == RemoveCube(t, p, id)
           c == t.cubes[id]
           rights == ByName(t.cubes, RightsCube(c.name))
           S == {id} \union IF rights = {} THEN {} ELSE {Min(rights)}
           meta == ChangedTo(p, t.cubeElems.names \ {c.name})
<1>1. /\ DOMAIN m = {"dims", "cubes", "dimElems", "cubeElems"}
      /\ m.dims = t.dims /\ m.cubes = Without(t.cubes, S)
      /\ m.dimElems = t.dimElems /\ m.cubeElems = meta
  BY DEF RemoveCube, IsTree
<1>2. IsCubeList(Without(t.cubes, S), next)
  BY CubeListKept DEF IsTree
<1>3. meta \in [elementList : Pointer, names : SUBSET CubeName]
  BY DEF IsTree, ChangedTo
<1>4. /\ DOMAIN m.cubes = DOMAIN t.cubes \ S
      /\ \A x \in DOMAIN m.cubes : m.cubes[x] = t.cubes[x]
  BY <1>1 DEF Without
<1> HIDE DEF m, meta, S
<1>5. Follows(m, t, next) /\ RemovesUnused(m, t)
  BY <1>1, <1>4 DEF Follows, RemovesUnused
<1>6. IsTree(m, next)
  BY <1>1, <1>2, <1>3 DEF IsTree
<1> QED
  BY <1>5, <1>6 DEF m

LEMMA RenameCubeType ==
  ASSUME NEW next \in [dims : Nat, cubes : Nat], NEW t, IsTree(t, next),
         NEW p \in Pointer, NEW name \in CubeName, NEW id \in OwnerCubes(t)
  PROVE  LET m == RenameCube(t, p, id, name) IN
         /\ IsTree(m, next) /\ Follows(m, t, next) /\ RemovesUnused(m, t)
<1> DEFINE m == RenameCube(t, p, id, name)
           c == t.cubes[id]
           one == RenamedTo(t.cubes, id, name)
           two == RenamedFrom(one, RightsCube(c.name), RightsCube(name))
           meta == ChangedTo(p, (t.cubeElems.names \ {c.name}) \union {name})
<1>1. CASE c.name = name
  <2>1. m = t
    BY <1>1 DEF RenameCube
  <2> HIDE DEF m
  <2>2. Follows(t, t, next) /\ RemovesUnused(t, t)
    BY DEF Follows, RemovesUnused
  <2> QED
    BY <2>1, <2>2 DEF m
<1>2. CASE c.name # name
  <2>1. /\ DOMAIN m = {"dims", "cubes", "dimElems", "cubeElems"}
        /\ m.dims = t.dims /\ m.cubes = two
        /\ m.dimElems = t.dimElems /\ m.cubeElems = meta
    BY <1>2 DEF RenameCube, IsTree
  <2>2. id \in DOMAIN t.cubes /\ c.kind # "system"
        /\ c.name \in CubeName /\ name \notin SystemName
    BY SystemNames DEF OwnerCubes, IsTree, IsCubeList
  <2>3. IsCubeList(one, next)
    BY <2>2, CubeListKept DEF IsTree
  <2>4. /\ DOMAIN one = DOMAIN t.cubes
        /\ \A x \in DOMAIN t.cubes :
             one[x].kind = t.cubes[x].kind /\ one[x].uses = t.cubes[x].uses
    BY <2>2 DEF RenamedTo, IsTree, IsCubeList
  <2>5. RightsCube(c.name) \in SystemName /\ RightsCube(name) \in SystemName
    BY <2>2, SystemNames
  <2>6. /\ IsCubeList(two, next) /\ DOMAIN two = DOMAIN t.cubes
        /\ \A x \in DOMAIN t.cubes :
             two[x].kind = t.cubes[x].kind /\ two[x].uses = t.cubes[x].uses
    <3> HIDE DEF one
    <3> QED
      BY <2>3, <2>4, <2>5, RenamedFromType
  <2>7. meta \in [elementList : Pointer, names : SUBSET CubeName]
    BY <2>2 DEF IsTree, ChangedTo
  <2> HIDE DEF m, meta, two
  <2>8. Follows(m, t, next) /\ RemovesUnused(m, t)
    BY <2>1, <2>6 DEF Follows, RemovesUnused
  <2>9. IsTree(m, next)
    BY <2>1, <2>6, <2>7 DEF IsTree
  <2> QED
    BY <2>8, <2>9 DEF m
<1> QED
  BY <1>1, <1>2
-----------------------------------------------------------------------------
LEMMA RequestFields ==
  ASSUME NEW r \in Request
  PROVE  /\ r.op \in {"dimension/create", "dimension/rename"} => r.name \in DimensionName
         /\ r.op = "dimension/create" => r.kind \in Kind
         /\ r.op \in {"cube/create", "cube/rename"} => r.name \in CubeName
         /\ r.op = "cube/create" => r.kind \in Kind /\ r.uses \in SUBSET Nat
BY DEF Request

LEMMA TreeStays ==
  ASSUME NEW next \in [dims : Nat, cubes : Nat], NEW next2 \in [dims : Nat, cubes : Nat],
         next.dims <= next2.dims, next.cubes <= next2.cubes, NEW t, IsTree(t, next)
  PROVE  IsTree(t, next2)
<1>1. IsDimensionList(t.dims, next2)
  BY DEF IsTree, IsDimensionList
<1>2. IsCubeList(t.cubes, next2)
  BY DEF IsTree, IsCubeList
<1> QED
  BY <1>1, <1>2 DEF IsTree

(* The tree m is the change of a job that got its copy now.                *)
Makes(j, m) ==
  /\ pc[j] = "start" /\ pc' = [pc EXCEPT ![j] = "working"]
  /\ old' = [old EXCEPT ![j] = latest] /\ mine' = [mine EXCEPT ![j] = m]
  /\ UNCHANGED <<request, latest, commitTry, gone>>
  /\ nextId' \in [dims : Nat, cubes : Nat]
  /\ nextId.dims <= nextId'.dims /\ nextId.cubes <= nextId'.cubes
  /\ IsTree(m, nextId') /\ Follows(m, latest, nextId) /\ RemovesUnused(m, latest)

LEMMA WorksMakes ==
  ASSUME TypeOK, NEW j \in Job, NEW op, NEW m, Works(j, op, m),
         NEW next2 \in [dims : Nat, cubes : Nat], nextId' = next2,
         nextId.dims <= next2.dims, nextId.cubes <= next2.cubes,
         IsTree(m, next2), Follows(m, latest, nextId), RemovesUnused(m, latest)
  PROVE  \E k : Makes(j, k)
<1>1. Makes(j, m)
  BY DEF Works, Makes
<1> QED
  BY <1>1

LEMMA ChangeMakes ==
  ASSUME TypeOK, NEW j \in Job, Change(j)
  PROVE  \E m : Makes(j, m)
<1> DEFINE r == request[j]
           p == New(j)
<1>1. r \in Request
  BY AssignmentsAssumption DEF TypeOK
<1>2. /\ nextId \in [dims : Nat, cubes : Nat] /\ IsTree(latest, nextId)
  BY DEF TypeOK
<1>3. p \in Pointer
  BY DEF New, Pointer, TypeOK
<1> HIDE DEF p
<1>4. CASE DimensionCreate(j)
  <2> DEFINE m == AddDimension(latest, p, nextId.dims, nextId.cubes, r.name, r.kind)
  <2>1. r.name \in DimensionName /\ r.kind \in Kind /\ ValidName(r.name, r.kind)
    BY <1>1, <1>4, RequestFields DEF DimensionCreate, CanAddDimension
  <2>2. /\ IsTree(m, [dims |-> nextId.dims + 1, cubes |-> nextId.cubes + 1])
        /\ Follows(m, latest, nextId) /\ RemovesUnused(m, latest)
    BY <1>2, <1>3, <2>1, AddDimensionType
  <2>3. Works(j, "dimension/create", m)
        /\ nextId' = [dims |-> nextId.dims + 1, cubes |-> nextId.cubes + 1]
    BY <1>4 DEF DimensionCreate, p
  <2> HIDE DEF m
  <2> QED
    BY <1>2, <2>2, <2>3, WorksMakes
<1>5. CASE DimensionDestroy(j)
  <2> DEFINE m == RemoveDimension(latest, p, r.id)
  <2>1. CanRemoveDimension(latest, r.id)
    BY <1>5 DEF DimensionDestroy
  <2>2. /\ IsTree(m, nextId) /\ Follows(m, latest, nextId)
        /\ RemovesUnused(m, latest)
    BY <1>2, <1>3, <2>1, RemoveDimensionType
  <2>3. Works(j, "dimension/destroy", m) /\ UNCHANGED nextId
    BY <1>5 DEF DimensionDestroy, p
  <2> HIDE DEF m
  <2> QED
    BY <1>2, <2>2, <2>3, WorksMakes
<1>6. CASE DimensionRename(j)
  <2> DEFINE m == RenameDimension(latest, p, r.id, r.name)
  <2>1. r.name \in DimensionName /\ CanRename(latest.dims, r.id, r.name)
    BY <1>1, <1>6, RequestFields DEF DimensionRename
  <2>2. /\ IsTree(m, nextId) /\ Follows(m, latest, nextId)
        /\ RemovesUnused(m, latest)
    BY <1>2, <1>3, <2>1, RenameDimensionType
  <2>3. Works(j, "dimension/rename", m) /\ UNCHANGED nextId
    BY <1>6 DEF DimensionRename, p
  <2> HIDE DEF m
  <2> QED
    BY <1>2, <2>2, <2>3, WorksMakes
<1>7. CASE CubeCreate(j)
  <2> DEFINE m == AddCube(latest, p, nextId.cubes, nextId.cubes + 1,
                         r.name, r.kind, r.uses)
  <2>1. /\ r.name \in CubeName /\ r.kind \in Kind /\ r.uses \in SUBSET Nat
        /\ CanAddCube(latest, r.name, r.kind, r.uses)
    BY <1>1, <1>7, RequestFields DEF CubeCreate
  <2>2. /\ IsTree(m, [nextId EXCEPT !.cubes = @ + 2]) /\ Follows(m, latest, nextId)
        /\ RemovesUnused(m, latest)
    BY <1>2, <1>3, <2>1, AddCubeType
  <2>3. Works(j, "cube/create", m) /\ nextId' = [nextId EXCEPT !.cubes = @ + 2]
    BY <1>7 DEF CubeCreate, p
  <2> HIDE DEF m
  <2> QED
    BY <1>2, <2>2, <2>3, WorksMakes
<1>8. CASE CubeDestroy(j)
  <2> DEFINE m == RemoveCube(latest, p, r.id)
  <2>1. r.id \in OwnerCubes(latest)
    BY <1>8 DEF CubeDestroy
  <2>2. /\ IsTree(m, nextId) /\ Follows(m, latest, nextId)
        /\ RemovesUnused(m, latest)
    BY <1>2, <1>3, <2>1, RemoveCubeType
  <2>3. Works(j, "cube/destroy", m) /\ UNCHANGED nextId
    BY <1>8 DEF CubeDestroy, p
  <2> HIDE DEF m
  <2> QED
    BY <1>2, <2>2, <2>3, WorksMakes
<1>9. CASE CubeRename(j)
  <2> DEFINE m == RenameCube(latest, p, r.id, r.name)
  <2>1. r.name \in CubeName /\ r.id \in OwnerCubes(latest)
    BY <1>1, <1>9, RequestFields DEF CubeRename
  <2>2. /\ IsTree(m, nextId) /\ Follows(m, latest, nextId)
        /\ RemovesUnused(m, latest)
    BY <1>2, <1>3, <2>1, RenameCubeType
  <2>3. Works(j, "cube/rename", m) /\ UNCHANGED nextId
    BY <1>9 DEF CubeRename, p
  <2> HIDE DEF m
  <2> QED
    BY <1>2, <2>2, <2>3, WorksMakes
<1> QED
  BY <1>4, <1>5, <1>6, <1>7, <1>8, <1>9 DEF Change
-----------------------------------------------------------------------------
(* What a merge yields: the items of the job and of the latest tree, each  *)
(* as one of the two has it.                                               *)
LEMMA MergedListHas ==
  ASSUME NEW M, NEW L, NEW O, NEW R, R = MergedList(M, L, O)
  PROVE  /\ R = [x \in DOMAIN R |-> R[x]]
         /\ \A x : x \in DOMAIN R <=>
              /\ x \in DOMAIN M \/ x \in DOMAIN L \ DOMAIN O
              /\ x \notin DOMAIN O \ DOMAIN L
         /\ \A x \in DOMAIN R :
              \/ /\ x \in DOMAIN M /\ R[x] = M[x]
                 /\ x \notin DOMAIN O \/ M[x].name # O[x].name
              \/ /\ x \in DOMAIN L /\ R[x] = L[x]
                 /\ \/ x \notin DOMAIN M
                    \/ x \in DOMAIN O /\ M[x].name = O[x].name
BY DEF MergedList

LEMMA MergedType ==
  ASSUME TypeOK, NEW j \in Job
  PROVE  IsTree(Merged(j), nextId)
<1>1. IsTree(mine[j], nextId) /\ IsTree(latest, nextId) /\ IsTree(old[j], nextId)
  BY DEF TypeOK
<1>2. IsDimensionList(MergedDimensions(j), nextId)
  <2> DEFINE R == MergedDimensions(j)
  <2>a. PICK M, L, O : M = mine[j].dims /\ L = latest.dims /\ O = old[j].dims
    OBVIOUS
  <2>b. R = MergedList(M, L, O)
    BY <2>a DEF MergedDimensions
  <2> HIDE DEF R
  <2>1. /\ R = [x \in DOMAIN R |-> R[x]]
        /\ \A x \in DOMAIN R :
             \/ x \in DOMAIN mine[j].dims /\ R[x] = mine[j].dims[x]
             \/ x \in DOMAIN latest.dims /\ R[x] = latest.dims[x]
    BY <2>a, <2>b, MergedListHas
  <2>2. IsDimensionList(mine[j].dims, nextId) /\ IsDimensionList(latest.dims, nextId)
    BY <1>1 DEF IsTree
  <2>3. DOMAIN R \subseteq 0 .. nextId.dims - 1
    BY <2>1, <2>2 DEF IsDimensionList
  <2>4. \A x \in DOMAIN R : /\ R[x] \in [name : DimensionName, kind : Kind]
                            /\ ValidName(R[x].name, R[x].kind)
    BY <2>1, <2>2 DEF IsDimensionList
  <2> QED
    BY <2>1, <2>3, <2>4 DEF IsDimensionList, R
<1>3. IsCubeList(MergedCubes(j), nextId)
  <2> DEFINE R == MergedCubes(j)
  <2>a. PICK M, L, O : M = mine[j].cubes /\ L = latest.cubes /\ O = old[j].cubes
    OBVIOUS
  <2>b. R = MergedList(M, L, O)
    BY <2>a DEF MergedCubes
  <2> HIDE DEF R
  <2>1. /\ R = [x \in DOMAIN R |-> R[x]]
        /\ \A x \in DOMAIN R :
             \/ x \in DOMAIN mine[j].cubes /\ R[x] = mine[j].cubes[x]
             \/ x \in DOMAIN latest.cubes /\ R[x] = latest.cubes[x]
    BY <2>a, <2>b, MergedListHas
  <2>2. IsCubeList(mine[j].cubes, nextId) /\ IsCubeList(latest.cubes, nextId)
    BY <1>1 DEF IsTree
  <2>3. DOMAIN R \subseteq 0 .. nextId.cubes - 1
    BY <2>1, <2>2 DEF IsCubeList
  <2>4. \A x \in DOMAIN R :
          /\ R[x] \in [name : CubeName \union SystemName,
                       kind : Kind \union {"system"}, uses : SUBSET Nat]
          /\ R[x].kind = "system" <=> R[x].name \in SystemName
          /\ R[x].uses \subseteq 0 .. nextId.dims - 1
    BY <2>1, <2>2 DEF IsCubeList
  <2> QED
    BY <2>1, <2>3, <2>4 DEF IsCubeList, R
<1>4. /\ MergedMeta("dimElems", j) \in [elementList : Pointer, names : SUBSET DimensionName]
      /\ MergedMeta("cubeElems", j) \in [elementList : Pointer, names : SUBSET CubeName]
  BY <1>1 DEF MergedMeta, IsTree
<1> QED
  BY <1>2, <1>3, <1>4 DEF Merged, IsTree
-----------------------------------------------------------------------------
(* The variables keep their types: the lists of every tree hold dimensions *)
(* and cubes under identifiers that were given out, and a cube uses        *)
(* dimensions that were there.                                             *)
THEOREM TypeCorrect == Spec => []TypeOK
<1>1. Init => TypeOK
  <2> SUFFICES ASSUME Init PROVE TypeOK
    OBVIOUS
  <2>1. commitTry \in [Job -> 0 .. COMMIT_REPEATS]
    BY RepeatsAssumption DEF Init
  <2>2. \A j \in Job : commitTry[j] < COMMIT_REPEATS
    BY RepeatsAssumption DEF Init
  <2>3. /\ IsTree(latest, nextId) /\ DOMAIN old = Job /\ DOMAIN mine = Job
        /\ \A j \in Job : IsTree(old[j], nextId) /\ IsTree(mine[j], nextId)
    BY LoadedAssumption DEF Init
  <2> QED
    BY <2>1, <2>2, <2>3, LoadedAssumption DEF Init, TypeOK
<1>2. TypeOK /\ [Next]_vars => TypeOK'
  <2> SUFFICES ASSUME TypeOK, [Next]_vars PROVE TypeOK'
    OBVIOUS
  <2>1. ASSUME NEW j \in Job, Change(j) PROVE TypeOK'
    <3>1. PICK m : Makes(j, m)
      BY <2>1, ChangeMakes
    <3>2. \A t : IsTree(t, nextId) => IsTree(t, nextId')
      BY <3>1, TreeStays DEF Makes, TypeOK
    <3>3. \A k \in Job : IsTree(old'[k], nextId') /\ IsTree(mine'[k], nextId')
      BY <3>1, <3>2 DEF Makes, TypeOK
    <3> QED
      BY <3>1, <3>2, <3>3 DEF Makes, TypeOK
  <2>2. ASSUME NEW j \in Job, Merge(j) PROVE TypeOK'
    <3>1. IsTree(latest', nextId')
      BY <2>2, MergedType DEF Merge
    <3> QED
      BY <2>2, <3>1 DEF Merge, TypeOK
  <2>3. ASSUME NEW j \in Job, MergeFails(j) PROVE TypeOK'
    BY <2>3, RepeatsAssumption DEF MergeFails, TypeOK
  <2>4. ASSUME NEW j \in Job, Throw(j) PROVE TypeOK'
    BY <2>4 DEF Throw, TypeOK
  <2>5. CASE UNCHANGED vars
    BY <2>5 DEF vars, TypeOK
  <2> QED
    BY <2>1, <2>2, <2>3, <2>4, <2>5 DEF Next, Idle
<1> QED
  BY <1>1, <1>2, PTL DEF Spec
-----------------------------------------------------------------------------
(* Identifiers are never given out twice: what two trees have under the    *)
(* same identifier is the same object, with another name perhaps.          *)
SameObjects(s, t) ==
  /\ \A d \in DOMAIN s.dims \intersect DOMAIN t.dims :
       s.dims[d].kind = t.dims[d].kind
  /\ \A c \in DOMAIN s.cubes \intersect DOMAIN t.cubes :
       /\ s.cubes[c].kind = t.cubes[c].kind
       /\ s.cubes[c].uses = t.cubes[c].uses

Trees == {latest} \union {old[j] : j \in Job} \union {mine[j] : j \in Job}

ObjectsInv == \A s, t \in Trees : SameObjects(s, t)

LEMMA FollowsSame ==
  ASSUME NEW next \in [dims : Nat, cubes : Nat], NEW s, IsTree(s, next),
         NEW t, NEW m, Follows(m, t, next), SameObjects(s, t)
  PROVE  SameObjects(s, m) /\ SameObjects(m, s)
<1>1. \A d \in DOMAIN s.dims : d < next.dims
  BY DEF IsTree, IsDimensionList
<1>2. \A c \in DOMAIN s.cubes : c < next.cubes
  BY DEF IsTree, IsCubeList
<1>3. DOMAIN s.dims \subseteq Nat /\ DOMAIN s.cubes \subseteq Nat
  BY DEF IsTree, IsDimensionList, IsCubeList
<1> QED
  BY <1>1, <1>2, <1>3 DEF Follows, SameObjects

LEMMA SameRefl == \A t : SameObjects(t, t)
BY DEF SameObjects

LEMMA TreesTyped ==
  ASSUME TypeOK, NEW t \in Trees
  PROVE  IsTree(t, nextId)
BY DEF Trees, TypeOK

(* Every item of the merged lists is the job's or the latest tree's.       *)
LEMMA MergedItems ==
  ASSUME TypeOK, NEW j \in Job
  PROVE  /\ \A d \in DOMAIN Merged(j).dims :
              \/ /\ d \in DOMAIN mine[j].dims
                 /\ Merged(j).dims[d] = mine[j].dims[d]
                 /\ d \notin DOMAIN old[j].dims \/ mine[j].dims[d].name # old[j].dims[d].name
              \/ /\ d \in DOMAIN latest.dims
                 /\ Merged(j).dims[d] = latest.dims[d]
                 /\ \/ d \notin DOMAIN mine[j].dims
                    \/ d \in DOMAIN old[j].dims /\ mine[j].dims[d].name = old[j].dims[d].name
         /\ \A c \in DOMAIN Merged(j).cubes :
              \/ /\ c \in DOMAIN mine[j].cubes
                 /\ Merged(j).cubes[c] = mine[j].cubes[c]
                 /\ c \notin DOMAIN old[j].cubes \/ mine[j].cubes[c].name # old[j].cubes[c].name
              \/ /\ c \in DOMAIN latest.cubes
                 /\ Merged(j).cubes[c] = latest.cubes[c]
                 /\ \/ c \notin DOMAIN mine[j].cubes
                    \/ c \in DOMAIN old[j].cubes /\ mine[j].cubes[c].name = old[j].cubes[c].name
         /\ \A x : x \in DOMAIN Merged(j).dims <=>
              /\ x \in DOMAIN mine[j].dims \/ x \in DOMAIN latest.dims \ DOMAIN old[j].dims
              /\ x \notin DOMAIN old[j].dims \ DOMAIN latest.dims
         /\ \A x : x \in DOMAIN Merged(j).cubes <=>
              /\ x \in DOMAIN mine[j].cubes \/ x \in DOMAIN latest.cubes \ DOMAIN old[j].cubes
              /\ x \notin DOMAIN old[j].cubes \ DOMAIN latest.cubes
<1>1. PICK M, L, O : M = mine[j] /\ L = latest /\ O = old[j]
  OBVIOUS
<1>2. PICK R, Q : R = MergedList(M.dims, L.dims, O.dims) /\ Q = MergedList(M.cubes, L.cubes, O.cubes)
  OBVIOUS
<1>3. Merged(j).dims = R /\ Merged(j).cubes = Q
  BY <1>1, <1>2 DEF Merged, MergedDimensions, MergedCubes
<1>4. /\ \A x : x \in DOMAIN R <=>
           /\ x \in DOMAIN M.dims \/ x \in DOMAIN L.dims \ DOMAIN O.dims
           /\ x \notin DOMAIN O.dims \ DOMAIN L.dims
      /\ \A x \in DOMAIN R :
           \/ /\ x \in DOMAIN M.dims /\ R[x] = M.dims[x]
              /\ x \notin DOMAIN O.dims \/ M.dims[x].name # O.dims[x].name
           \/ /\ x \in DOMAIN L.dims /\ R[x] = L.dims[x]
              /\ \/ x \notin DOMAIN M.dims
                 \/ x \in DOMAIN O.dims /\ M.dims[x].name = O.dims[x].name
  BY <1>2, MergedListHas
<1>5. /\ \A x : x \in DOMAIN Q <=>
           /\ x \in DOMAIN M.cubes \/ x \in DOMAIN L.cubes \ DOMAIN O.cubes
           /\ x \notin DOMAIN O.cubes \ DOMAIN L.cubes
      /\ \A x \in DOMAIN Q :
           \/ /\ x \in DOMAIN M.cubes /\ Q[x] = M.cubes[x]
              /\ x \notin DOMAIN O.cubes \/ M.cubes[x].name # O.cubes[x].name
           \/ /\ x \in DOMAIN L.cubes /\ Q[x] = L.cubes[x]
              /\ \/ x \notin DOMAIN M.cubes
                 \/ x \in DOMAIN O.cubes /\ M.cubes[x].name = O.cubes[x].name
  BY <1>2, MergedListHas
<1> QED
  BY <1>1, <1>3, <1>4, <1>5

LEMMA ObjectsStep ==
  ASSUME TypeOK, ObjectsInv, [Next]_vars
  PROVE  ObjectsInv'
<1>1. ASSUME NEW j \in Job, Change(j) PROVE ObjectsInv'
  <2>1. PICK m : Makes(j, m)
    BY <1>1, ChangeMakes
  <2>2. \A t \in Trees' : t \in Trees \/ t = m
    BY <2>1 DEF Makes, Trees, TypeOK
  <2>3. \A t \in Trees : SameObjects(t, m) /\ SameObjects(m, t)
    <3> SUFFICES ASSUME NEW t \in Trees PROVE SameObjects(t, m) /\ SameObjects(m, t)
      OBVIOUS
    <3>1. PICK n, l : n = nextId /\ l = latest
      OBVIOUS
    <3>2. IsTree(t, n) /\ Follows(m, l, n) /\ SameObjects(t, l) /\ n \in [dims : Nat, cubes : Nat]
      BY <2>1, <3>1, TreesTyped DEF Makes, ObjectsInv, Trees, TypeOK
    <3> QED
      BY <3>2, FollowsSame
  <2> QED
    BY <2>2, <2>3, SameRefl DEF ObjectsInv
<1>2. ASSUME NEW j \in Job, Merge(j) PROVE ObjectsInv'
  <2>1. PICK R : R = Merged(j)
    OBVIOUS
  <2>2. \A t \in Trees' : t \in Trees \/ t = R
    BY <1>2, <2>1 DEF Merge, Trees
  <2>3. \A t \in Trees : SameObjects(t, R) /\ SameObjects(R, t)
    <3> SUFFICES ASSUME NEW t \in Trees PROVE SameObjects(t, R) /\ SameObjects(R, t)
      OBVIOUS
    <3>1. SameObjects(t, mine[j]) /\ SameObjects(t, latest)
      BY DEF ObjectsInv, Trees
    <3>2. \A d \in DOMAIN R.dims :
            \/ d \in DOMAIN mine[j].dims /\ R.dims[d] = mine[j].dims[d]
            \/ d \in DOMAIN latest.dims /\ R.dims[d] = latest.dims[d]
      BY <2>1, MergedItems
    <3>3. \A c \in DOMAIN R.cubes :
            \/ c \in DOMAIN mine[j].cubes /\ R.cubes[c] = mine[j].cubes[c]
            \/ c \in DOMAIN latest.cubes /\ R.cubes[c] = latest.cubes[c]
      BY <2>1, MergedItems
    <3> QED
      BY <3>1, <3>2, <3>3 DEF SameObjects
  <2> QED
    BY <2>2, <2>3, SameRefl DEF ObjectsInv
<1>3. ASSUME UNCHANGED <<latest, old, mine>> PROVE ObjectsInv'
  BY <1>3 DEF ObjectsInv, Trees
<1> QED
  BY <1>1, <1>2, <1>3 DEF Next, MergeFails, Throw, Idle, vars

(* Cubes keep their dimensions: the copies of the jobs too, and a job      *)
(* removes no dimension that a normal cube of its copy uses.               *)
KeptInv ==
  /\ DimensionsKept(latest)
  /\ \A j \in Job : DimensionsKept(old[j]) /\ RemovesUnused(mine[j], old[j])

LEMMA MergeKeepsDimensions ==
  ASSUME TypeOK, ObjectsInv, KeptInv, NEW j \in Job, ~DimensionMissing(j)
  PROVE  DimensionsKept(Merged(j))
<1> SUFFICES ASSUME NEW c \in DOMAIN Merged(j).cubes, Merged(j).cubes[c].kind = "normal",
                    NEW d \in Merged(j).cubes[c].uses
             PROVE  d \in DOMAIN Merged(j).dims
  BY DEF DimensionsKept
<1>1. \/ c \in DOMAIN mine[j].cubes /\ Merged(j).cubes[c] = mine[j].cubes[c]
      \/ c \in DOMAIN latest.cubes /\ Merged(j).cubes[c] = latest.cubes[c]
  BY MergedItems
<1>2. CASE c \notin DOMAIN old[j].cubes
  <2>1. Merged(j).cubes[c].uses \subseteq DOMAIN MergedDimensions(j)
    BY <1>1, <1>2 DEF DimensionMissing
  <2> QED
    BY <2>1 DEF Merged
<1>3. CASE c \in DOMAIN old[j].cubes
  <2>1. c \in DOMAIN latest.cubes
    BY <1>3, MergedItems
  <2>2. /\ latest.cubes[c].kind = "normal" /\ d \in latest.cubes[c].uses
        /\ old[j].cubes[c].kind = "normal" /\ d \in old[j].cubes[c].uses
    <3>1. /\ SameObjects(mine[j], latest) /\ SameObjects(mine[j], old[j])
          /\ SameObjects(latest, old[j])
      BY DEF ObjectsInv, Trees
    <3> QED
      BY <1>1, <1>3, <2>1, <3>1 DEF SameObjects
  <2>3. d \in DOMAIN latest.dims /\ d \in DOMAIN old[j].dims
    BY <1>3, <2>1, <2>2 DEF KeptInv, DimensionsKept
  <2>4. d \in DOMAIN mine[j].dims
    BY <1>3, <2>2, <2>3 DEF KeptInv, RemovesUnused
  <2> QED
    BY <2>3, <2>4, MergedItems
<1> QED
  BY <1>2, <1>3

LEMMA KeptHold == Spec => [](TypeOK /\ ObjectsInv /\ KeptInv)
<1> DEFINE Inv == ObjectsInv /\ KeptInv
<1>1. Init => Inv
  <2> SUFFICES ASSUME Init PROVE Inv
    OBVIOUS
  <2>1. \A t \in Trees : t = Loaded
    BY DEF Init, Trees
  <2>2. RemovesUnused(Loaded, Loaded)
    BY DEF RemovesUnused
  <2>3. ObjectsInv
    BY <2>1, SameRefl DEF ObjectsInv
  <2>4. KeptInv
    BY <2>2, LoadedAssumption DEF Init, KeptInv, Consistent
  <2> QED
    BY <2>3, <2>4
<1>2. TypeOK /\ Inv /\ [Next]_vars => Inv'
  <2> SUFFICES ASSUME TypeOK, Inv, [Next]_vars PROVE Inv'
    OBVIOUS
  <2>1. ObjectsInv'
    BY ObjectsStep
  <2>2. KeptInv'
    <3>1. ASSUME NEW j \in Job, Change(j) PROVE KeptInv'
      <4>1. PICK m : Makes(j, m)
        BY <3>1, ChangeMakes
      <4> QED
        BY <4>1 DEF Makes, KeptInv, TypeOK
    <3>2. ASSUME NEW j \in Job, Merge(j) PROVE KeptInv'
      <4>1. DimensionsKept(Merged(j))
        BY <3>2, MergeKeepsDimensions DEF Merge, Conflict
      <4> QED
        BY <3>2, <4>1 DEF Merge, KeptInv
    <3>3. ASSUME UNCHANGED <<latest, old, mine>> PROVE KeptInv'
      BY <3>3 DEF KeptInv
    <3> QED
      BY <3>1, <3>2, <3>3 DEF Next, MergeFails, Throw, Idle, vars
  <2> QED
    BY <2>1, <2>2
<1> QED
  BY <1>1, <1>2, TypeCorrect, PTL DEF Spec

(* A normal cube has all its dimensions, whatever is asked and however     *)
(* the jobs are interleaved.                                               *)
THEOREM CubesKeepDimensionsCorrect == Spec => []CubesKeepDimensions
<1>1. KeptInv => CubesKeepDimensions
  BY DEF KeptInv, CubesKeepDimensions
<1> QED
  BY <1>1, KeptHold, PTL
-----------------------------------------------------------------------------
(* The cube c is the attribute cube of the dimension d, or the rights cube *)
(* of the cube o, in the tree t.                                           *)
AttributeOf(t, c, d) ==
  /\ c \in DOMAIN t.cubes /\ d \in DOMAIN t.dims
  /\ t.cubes[c].kind = "system" /\ t.cubes[c].uses = {d}
  /\ t.cubes[c].name = AttributeCube(t.dims[d].name)

RightsOf(t, c, o) ==
  /\ c \in DOMAIN t.cubes /\ o \in OwnerCubes(t)
  /\ t.cubes[c].kind = "system" /\ t.cubes[c].uses = t.cubes[o].uses
  /\ t.cubes[c].name = RightsCube(t.cubes[o].name)

Companions(t) ==
  /\ \A d \in DOMAIN t.dims : \E c : AttributeOf(t, c, d)
  /\ \A o \in OwnerCubes(t) : \E c : RightsOf(t, c, o)
  /\ \A c \in DOMAIN t.cubes \ OwnerCubes(t) :
       (\E d : AttributeOf(t, c, d)) \/ (\E o : RightsOf(t, c, o))

Good(t) ==
  /\ NamesDiffer(t.dims) /\ NamesDiffer(t.cubes)
  /\ MetaInStep(t) /\ Companions(t)

(* Owner and companion of the tree s are both in the tree t and still      *)
(* belong together, or neither of them is.                                 *)
Pairs(s, t) ==
  /\ \A c, d : AttributeOf(s, c, d) =>
       /\ c \in DOMAIN t.cubes <=> d \in DOMAIN t.dims
       /\ d \in DOMAIN t.dims => AttributeOf(t, c, d)
  /\ \A c, o : RightsOf(s, c, o) =>
       /\ c \in DOMAIN t.cubes <=> o \in DOMAIN t.cubes
       /\ o \in DOMAIN t.cubes => RightsOf(t, c, o)

SameNormal(s, t) ==
  /\ NormalDimensions(s) = NormalDimensions(t)
  /\ \A d \in NormalDimensions(s) : s.dims[d].name = t.dims[d].name

SameOwners(s, t) ==
  /\ OwnerCubes(s) = OwnerCubes(t)
  /\ \A c \in OwnerCubes(s) : s.cubes[c].name = t.cubes[c].name

(* A dimension of m has a name other than in t only by the request r.      *)
Gives(r, m, t) ==
  \A d \in DOMAIN m.dims :
    d \notin DOMAIN t.dims \/ m.dims[d].name # t.dims[d].name =>
      /\ GivesDimensionName(r) /\ r.name = m.dims[d].name
      /\ r.op = "dimension/rename" => r.id = d

(* What the request r changes of what clients see in the tree t.           *)
Did(r, m, t) ==
  /\ r.op = "dimension/create" =>
       /\ \E id \in DOMAIN m.dims \ DOMAIN t.dims :
            m.dims = With(t.dims, id, [name |-> r.name, kind |-> r.kind])
       /\ ClientCubes(m) = ClientCubes(t) /\ DOMAIN t.cubes \subseteq DOMAIN m.cubes
  /\ r.op = "dimension/destroy" =>
       /\ r.id \in DOMAIN t.dims /\ m.dims = Without(t.dims, {r.id})
       /\ ClientCubes(m) = ClientCubes(t)
  /\ r.op = "dimension/rename" =>
       /\ r.id \in DOMAIN t.dims /\ m.dims = RenamedTo(t.dims, r.id, r.name)
       /\ ClientCubes(m) = ClientCubes(t) /\ DOMAIN t.cubes \subseteq DOMAIN m.cubes
  /\ r.op = "cube/create" =>
       /\ m.dims = t.dims
       /\ \E id \in DOMAIN m.cubes \ DOMAIN t.cubes :
            ClientCubes(m) = With(ClientCubes(t), id,
                                  [name |-> r.name, kind |-> r.kind, uses |-> r.uses])
       /\ DOMAIN t.cubes \subseteq DOMAIN m.cubes
  /\ r.op = "cube/destroy" =>
       /\ m.dims = t.dims
       /\ r.id \in OwnerCubes(t) /\ ClientCubes(m) = Without(ClientCubes(t), {r.id})
  /\ r.op = "cube/rename" =>
       /\ m.dims = t.dims
       /\ r.id \in OwnerCubes(t) /\ ClientCubes(m) = RenamedTo(ClientCubes(t), r.id, r.name)
       /\ DOMAIN t.cubes \subseteq DOMAIN m.cubes

(* What a job's change m of the tree t under the request r, with p as the  *)
(* new element list, keeps.                                                *)
Edits(m, t, p, r) ==
  /\ Good(m) /\ Pairs(t, m) /\ Pairs(m, t)
  /\ \/ m.dimElems.elementList = p
     \/ m.dimElems.elementList = t.dimElems.elementList /\ SameNormal(m, t)
  /\ \/ m.cubeElems.elementList = p
     \/ m.cubeElems.elementList = t.cubeElems.elementList /\ SameOwners(m, t)
  /\ Gives(r, m, t) /\ Did(r, m, t)

LEMMA CompanionNames ==
  /\ \A a, b : AttributeCube(a) = AttributeCube(b) => a = b
  /\ \A a, b : RightsCube(a) = RightsCube(b) => a = b
  /\ \A a, b : AttributeCube(a) # RightsCube(b)
BY DEF AttributeCube, RightsCube

LEMMA TreeNames ==
  ASSUME NEW next, NEW t, IsTree(t, next)
  PROVE  /\ \A d \in DOMAIN t.dims : t.dims[d].name \in DimensionName
         /\ \A c \in OwnerCubes(t) : c \in DOMAIN t.cubes /\ t.cubes[c].name \in CubeName
         /\ \A c \in DOMAIN t.cubes \ OwnerCubes(t) :
              t.cubes[c].kind = "system" /\ t.cubes[c].name \in SystemName
         /\ \A c \in OwnerCubes(t) : t.cubes[c].kind # "system" /\ t.cubes[c].name \notin SystemName
BY DEF IsTree, IsDimensionList, IsCubeList, OwnerCubes

(* Where names differ, the lookup finds the item of that name.             *)
LEMMA LookupIs ==
  ASSUME NEW list, DOMAIN list \subseteq Nat, NamesDiffer(list),
         NEW x \in DOMAIN list, NEW n, list[x].name = n
  PROVE  /\ InUse(list, n) /\ ByName(list, n) = {x}
         /\ Lookup(list, n) = x /\ Min(ByName(list, n)) = x
<1>1. ByName(list, n) = {x}
  BY DEF ByName, NamesDiffer
<1>2. InUse(list, n)
  BY <1>1 DEF InUse
<1>3. Lookup(list, n) \in DOMAIN list /\ list[Lookup(list, n)].name = n
  BY <1>2, LookupFinds
<1>4. Lookup(list, n) = x
  BY <1>3 DEF NamesDiffer
<1> QED
  BY <1>1, <1>2, <1>4 DEF Lookup

LEMMA AddDimensionEdits ==
  ASSUME NEW next \in [dims : Nat, cubes : Nat], NEW t, IsTree(t, next), Good(t),
         NEW p, NEW name \in DimensionName, NEW kind \in Kind,
         CanAddDimension(t, name, kind),
         NEW r, r.op = "dimension/create", r.name = name, r.kind = kind,
         NEW m, m = AddDimension(t, p, next.dims, next.cubes, name, kind)
  PROVE  Edits(m, t, p, r)
<1>0. PICK id, cid : id = next.dims /\ cid = next.cubes
  OBVIOUS
<1>a. id \notin DOMAIN t.dims /\ cid \notin DOMAIN t.cubes
      /\ \A c \in DOMAIN t.cubes : id \notin t.cubes[c].uses
  BY <1>0 DEF IsTree, IsDimensionList, IsCubeList
<1>1. /\ m.dims = With(t.dims, id, [name |-> name, kind |-> kind])
      /\ m.cubes = With(t.cubes, cid, [name |-> AttributeCube(name),
                                      kind |-> "system", uses |-> {id}])
      /\ m.dimElems = IF kind = "normal"
                      THEN ChangedTo(p, t.dimElems.names \union {name}) ELSE t.dimElems
      /\ m.cubeElems = t.cubeElems
  BY <1>0 DEF AddDimension, IsTree
<1>2. /\ DOMAIN m.dims = DOMAIN t.dims \union {id}
      /\ \A d \in DOMAIN t.dims : m.dims[d] = t.dims[d]
      /\ m.dims[id].name = name /\ m.dims[id].kind = kind
  BY <1>a, <1>1 DEF With
<1>3. /\ DOMAIN m.cubes = DOMAIN t.cubes \union {cid}
      /\ \A c \in DOMAIN t.cubes : m.cubes[c] = t.cubes[c]
      /\ m.cubes[cid].name = AttributeCube(name) /\ m.cubes[cid].kind = "system"
      /\ m.cubes[cid].uses = {id}
  BY <1>a, <1>1 DEF With
<1>4. NamesDiffer(m.dims) /\ NamesDiffer(m.cubes)
  <2>1. \A d \in DOMAIN t.dims : t.dims[d].name # name
    BY DEF CanAddDimension, InUse, ByName
  <2>2. \A c \in DOMAIN t.cubes : t.cubes[c].name # AttributeCube(name)
    BY DEF CanAddDimension, InUse, ByName
  <2> QED
    BY <1>2, <1>3, <2>1, <2>2 DEF NamesDiffer, Good
<1>5. /\ OwnerCubes(m) = OwnerCubes(t)
      /\ NormalDimensions(m) = NormalDimensions(t)
                                 \union IF kind = "normal" THEN {id} ELSE {}
  BY <1>a, <1>2, <1>3 DEF OwnerCubes, NormalDimensions
<1>6. MetaInStep(m)
  <2>1. {m.cubes[c].name : c \in OwnerCubes(m)} = {t.cubes[c].name : c \in OwnerCubes(t)}
    BY <1>3, <1>5 DEF OwnerCubes
  <2>2. {m.dims[d].name : d \in NormalDimensions(m)}
          = {t.dims[d].name : d \in NormalDimensions(t)}
              \union IF kind = "normal" THEN {name} ELSE {}
    BY <1>a, <1>2, <1>5 DEF NormalDimensions
  <2> QED
    <3>1. /\ t.dimElems.names = {t.dims[d].name : d \in NormalDimensions(t)}
          /\ t.cubeElems.names = {t.cubes[c].name : c \in OwnerCubes(t)}
      BY DEF Good, MetaInStep
    <3>2. m.dimElems.names = t.dimElems.names \union IF kind = "normal" THEN {name} ELSE {}
      BY <1>1 DEF ChangedTo
    <3> QED
      BY <1>1, <2>1, <2>2, <3>1, <3>2 DEF MetaInStep
<1>7. /\ AttributeOf(m, cid, id)
      /\ \A c, d : AttributeOf(t, c, d) => AttributeOf(m, c, d)
      /\ \A c, d : AttributeOf(m, c, d) => (c = cid /\ d = id) \/ AttributeOf(t, c, d)
      /\ \A c, o : RightsOf(m, c, o) <=> RightsOf(t, c, o)
  <2>1. AttributeOf(m, cid, id)
    BY <1>2, <1>3 DEF AttributeOf
  <2>2. \A c, d : AttributeOf(t, c, d) => AttributeOf(m, c, d)
    BY <1>2, <1>3 DEF AttributeOf
  <2>3. ASSUME NEW c, NEW d, AttributeOf(m, c, d), ~(c = cid /\ d = id)
        PROVE  AttributeOf(t, c, d)
    <3>1. c # cid
      BY <1>3, <2>3 DEF AttributeOf
    <3>2. d # id
      BY <1>a, <1>3, <2>3, <3>1 DEF AttributeOf
    <3> QED
      BY <1>2, <1>3, <2>3, <3>1, <3>2 DEF AttributeOf
  <2>4. \A c, o : RightsOf(t, c, o) => RightsOf(m, c, o)
    BY <1>3, <1>5 DEF RightsOf, OwnerCubes
  <2>5. \A c, o : RightsOf(m, c, o) => RightsOf(t, c, o)
    BY <1>3, <1>5, CompanionNames DEF RightsOf, OwnerCubes
  <2> QED
    BY <2>1, <2>2, <2>3, <2>4, <2>5
<1>8. Companions(m)
  BY <1>2, <1>3, <1>5, <1>7 DEF Companions, Good
<1>9. Pairs(t, m) /\ Pairs(m, t)
  <2>1. \A c, o : RightsOf(t, c, o) => c \in DOMAIN t.cubes /\ o \in DOMAIN t.cubes
    BY DEF RightsOf, OwnerCubes
  <2>2. \A c, d : AttributeOf(t, c, d) => c \in DOMAIN t.cubes /\ d \in DOMAIN t.dims
    BY DEF AttributeOf
  <2> QED
    BY <1>a, <1>2, <1>3, <1>7, <2>1, <2>2 DEF Pairs
<1>10. Gives(r, m, t)
  BY <1>2 DEF Gives, GivesDimensionName
<1>11. /\ kind # "normal" => SameNormal(m, t)
       /\ SameOwners(m, t)
  BY <1>2, <1>3, <1>5 DEF SameNormal, SameOwners, NormalDimensions, OwnerCubes
<1>12. Did(r, m, t)
  <2>1. id \in DOMAIN m.dims \ DOMAIN t.dims
        /\ m.dims = With(t.dims, id, [name |-> r.name, kind |-> r.kind])
    BY <1>a, <1>1, <1>2
  <2>2. ClientCubes(m) = ClientCubes(t)
    BY <1>3, <1>5 DEF ClientCubes, OwnerCubes
  <2> QED
    BY <1>3, <2>1, <2>2 DEF Did
<1> QED
  BY <1>1, <1>4, <1>6, <1>8, <1>9, <1>10, <1>11, <1>12 DEF Edits, Good, ChangedTo

LEMMA RemoveDimensionEdits ==
  ASSUME NEW next \in [dims : Nat, cubes : Nat], NEW t, IsTree(t, next), Good(t),
         NEW p, NEW id, CanRemoveDimension(t, id),
         NEW r, r.op = "dimension/destroy", r.id = id,
         NEW m, m = RemoveDimension(t, p, id)
  PROVE  Edits(m, t, p, r)
<1>0. PICK n : n = t.dims[id].name
  OBVIOUS
<1>a. PICK a : AttributeOf(t, a, id)
  BY DEF CanRemoveDimension, Good, Companions
<1>b. Min(ByName(t.cubes, AttributeCube(n))) = a /\ ByName(t.cubes, AttributeCube(n)) # {}
  <2>1. PICK l, k : l = t.cubes /\ k = AttributeCube(n)
    OBVIOUS
  <2>2. DOMAIN l \subseteq Nat /\ NamesDiffer(l) /\ a \in DOMAIN l /\ l[a].name = k
    BY <1>0, <1>a, <2>1 DEF AttributeOf, IsTree, IsCubeList, Good
  <2>3. ByName(l, k) = {a} /\ Min(ByName(l, k)) = a
    BY <2>2, LookupIs
  <2> QED
    BY <2>1, <2>3
<1>1. /\ m.dims = Without(t.dims, {id}) /\ m.cubes = Without(t.cubes, {a})
      /\ m.dimElems = IF t.dims[id].kind = "normal"
                      THEN ChangedTo(p, t.dimElems.names \ {n}) ELSE t.dimElems
      /\ m.cubeElems = t.cubeElems
  BY <1>0, <1>b DEF RemoveDimension, IsTree
<1>2. /\ DOMAIN m.dims = DOMAIN t.dims \ {id}
      /\ \A d \in DOMAIN m.dims : m.dims[d] = t.dims[d]
  BY <1>1 DEF Without
<1>3. /\ DOMAIN m.cubes = DOMAIN t.cubes \ {a}
      /\ \A c \in DOMAIN m.cubes : m.cubes[c] = t.cubes[c]
  BY <1>1 DEF Without
<1>4. NamesDiffer(m.dims) /\ NamesDiffer(m.cubes)
  BY <1>2, <1>3 DEF NamesDiffer, Good
<1>5. /\ OwnerCubes(m) = OwnerCubes(t)
      /\ NormalDimensions(m) = NormalDimensions(t) \ {id}
  BY <1>a, <1>2, <1>3 DEF OwnerCubes, NormalDimensions, AttributeOf
<1>6. MetaInStep(m)
  <2>1. {m.cubes[c].name : c \in OwnerCubes(m)} = {t.cubes[c].name : c \in OwnerCubes(t)}
    BY <1>3, <1>5 DEF OwnerCubes
  <2>2. {m.dims[d].name : d \in NormalDimensions(m)}
          = {t.dims[d].name : d \in NormalDimensions(t) \ {id}}
    BY <1>2, <1>5 DEF NormalDimensions
  <2>3. /\ t.dimElems.names = {t.dims[d].name : d \in NormalDimensions(t)}
        /\ t.cubeElems.names = {t.cubes[c].name : c \in OwnerCubes(t)}
    BY DEF Good, MetaInStep
  <2>4. CASE t.dims[id].kind = "normal"
    <3>1. m.dimElems.names = t.dimElems.names \ {n}
      BY <1>1, <2>4 DEF ChangedTo
    <3>2. {t.dims[d].name : d \in NormalDimensions(t) \ {id}}
            = {t.dims[d].name : d \in NormalDimensions(t)} \ {n}
      BY <1>0 DEF NamesDiffer, Good, NormalDimensions, CanRemoveDimension
    <3> QED
      BY <1>1, <2>1, <2>2, <2>3, <3>1, <3>2 DEF MetaInStep
  <2>5. CASE t.dims[id].kind # "normal"
    <3>1. NormalDimensions(t) \ {id} = NormalDimensions(t)
      BY <2>5 DEF NormalDimensions
    <3> QED
      BY <1>1, <2>1, <2>2, <2>3, <2>5, <3>1 DEF MetaInStep
  <2> QED
    BY <2>4, <2>5
<1>7. /\ \A c, d : AttributeOf(t, c, d) => (c = a <=> d = id)
      /\ \A c, d : AttributeOf(m, c, d) => AttributeOf(t, c, d)
      /\ \A c, d : AttributeOf(t, c, d) /\ d # id => AttributeOf(m, c, d)
      /\ \A c, o : RightsOf(m, c, o) <=> RightsOf(t, c, o)
  <2>1. \A c, d : AttributeOf(t, c, d) => (c = a <=> d = id)
    BY <1>0, <1>a DEF AttributeOf, NamesDiffer, Good
  <2>2. \A c, d : AttributeOf(m, c, d) => AttributeOf(t, c, d)
    BY <1>2, <1>3 DEF AttributeOf
  <2>3. \A c, d : AttributeOf(t, c, d) /\ d # id => AttributeOf(m, c, d)
    BY <1>2, <1>3, <2>1 DEF AttributeOf
  <2>4. \A c, o : RightsOf(m, c, o) => RightsOf(t, c, o)
    BY <1>3, <1>5 DEF RightsOf, OwnerCubes
  <2>5. \A c, o : RightsOf(t, c, o) => RightsOf(m, c, o)
    BY <1>a, <1>3, <1>5, CompanionNames DEF RightsOf, OwnerCubes, AttributeOf
  <2> QED
    BY <2>1, <2>2, <2>3, <2>4, <2>5
<1>8. Companions(m)
  BY <1>2, <1>3, <1>5, <1>7 DEF Companions, Good
<1>9. Pairs(t, m) /\ Pairs(m, t)
  <2>1. \A c, o : RightsOf(t, c, o) => c \in DOMAIN m.cubes /\ o \in DOMAIN m.cubes
    BY <1>7 DEF RightsOf, OwnerCubes
  <2>2. \A c, o : RightsOf(m, c, o) => c \in DOMAIN t.cubes /\ o \in DOMAIN t.cubes
    BY <1>7 DEF RightsOf, OwnerCubes
  <2>3. \A c, d : AttributeOf(t, c, d) => (c \in DOMAIN m.cubes <=> d \in DOMAIN m.dims)
    BY <1>2, <1>3, <1>7 DEF AttributeOf
  <2>4. \A c, d : AttributeOf(m, c, d) => c \in DOMAIN t.cubes /\ d \in DOMAIN t.dims
    BY <1>7 DEF AttributeOf
  <2> QED
    BY <1>2, <1>3, <1>7, <2>1, <2>2, <2>3, <2>4 DEF Pairs
<1>10. Gives(r, m, t)
  BY <1>2 DEF Gives
<1>11. /\ t.dims[id].kind # "normal" => SameNormal(m, t)
       /\ SameOwners(m, t)
  BY <1>2, <1>3, <1>5 DEF SameNormal, SameOwners, NormalDimensions, OwnerCubes
<1>12. Did(r, m, t)
  <2>1. ClientCubes(m) = ClientCubes(t)
    BY <1>a, <1>3, <1>5 DEF ClientCubes, OwnerCubes, AttributeOf
  <2> QED
    BY <1>1, <2>1 DEF Did, CanRemoveDimension
<1> QED
  BY <1>1, <1>4, <1>6, <1>8, <1>9, <1>10, <1>11, <1>12 DEF Edits, Good, ChangedTo

LEMMA RenameDimensionEdits ==
  ASSUME NEW next \in [dims : Nat, cubes : Nat], NEW t, IsTree(t, next), Good(t),
         NEW p, NEW name \in DimensionName, NEW id, CanRename(t.dims, id, name),
         NEW r, r.op = "dimension/rename", r.name = name, r.id = id,
         NEW m, m = RenameDimension(t, p, id, name)
  PROVE  Edits(m, t, p, r)
<1>0. PICK n : n = t.dims[id].name
  OBVIOUS
<1>z. id \in DOMAIN t.dims
  BY DEF CanRename
<1>y. CASE n = name
  <2>1. m = t
    BY <1>0, <1>y DEF RenameDimension
  <2>2. Pairs(t, t) /\ Gives(r, t, t) /\ SameNormal(t, t) /\ SameOwners(t, t)
    <3>1. Pairs(t, t)
      BY DEF Pairs, AttributeOf, RightsOf, OwnerCubes
    <3> QED
      BY <3>1 DEF Gives, SameNormal, SameOwners
  <2>3. Did(r, t, t)
    <3>1. RenamedTo(t.dims, id, name) = t.dims
      BY <1>0, <1>y, <1>z DEF RenamedTo, IsTree, IsDimensionList
    <3> QED
      BY <1>z, <3>1 DEF Did
  <2> QED
    BY <2>1, <2>2, <2>3 DEF Edits
<1>x. CASE n # name
  <2>a. PICK a : AttributeOf(t, a, id)
    BY <1>z DEF Good, Companions
  <2>b. Lookup(t.cubes, AttributeCube(n)) = a /\ InUse(t.cubes, AttributeCube(n))
    <3>1. PICK l, k : l = t.cubes /\ k = AttributeCube(n)
      OBVIOUS
    <3>2. DOMAIN l \subseteq Nat /\ NamesDiffer(l) /\ a \in DOMAIN l /\ l[a].name = k
      BY <1>0, <2>a, <3>1 DEF AttributeOf, IsTree, IsCubeList, Good
    <3>3. Lookup(l, k) = a /\ InUse(l, k)
      BY <3>2, LookupIs
    <3> QED
      BY <3>1, <3>3
  <2>c. \A d \in DOMAIN t.dims : t.dims[d].name # name
    <3>1. PICK l : l = t.dims
      OBVIOUS
    <3>2. DOMAIN l \subseteq Nat /\ CanRename(l, id, name) /\ l[id].name # name
      BY <1>0, <1>x, <3>1 DEF IsTree, IsDimensionList
    <3>3. ~InUse(l, name)
      BY <3>2, LookupFinds DEF CanRename
    <3> QED
      BY <3>1, <3>3 DEF InUse, ByName
  <2>d. \A c \in DOMAIN t.cubes : t.cubes[c].name # AttributeCube(name)
    <3> SUFFICES ASSUME NEW c \in DOMAIN t.cubes, t.cubes[c].name = AttributeCube(name)
                 PROVE  FALSE
      OBVIOUS
    <3>1. c \notin OwnerCubes(t)
      BY SystemNames, TreeNames
    <3>2. (\E d : AttributeOf(t, c, d)) \/ (\E o : RightsOf(t, c, o))
      BY <3>1 DEF Good, Companions
    <3> QED
      BY <2>c, <3>2, CompanionNames DEF AttributeOf, RightsOf
  <2>1. /\ m.dims = RenamedTo(t.dims, id, name)
        /\ m.cubes = RenamedTo(t.cubes, a, AttributeCube(name))
        /\ m.dimElems = IF t.dims[id].kind = "normal"
                        THEN ChangedTo(p, (t.dimElems.names \ {n}) \union {name})
                        ELSE t.dimElems
        /\ m.cubeElems = t.cubeElems
    BY <1>0, <1>x, <2>b DEF RenameDimension, RenamedFrom, IsTree
  <2>2. /\ DOMAIN m.dims = DOMAIN t.dims
        /\ \A d \in DOMAIN t.dims : /\ m.dims[d].kind = t.dims[d].kind
                                    /\ d # id => m.dims[d].name = t.dims[d].name
        /\ m.dims[id].name = name
    BY <1>z, <2>1 DEF RenamedTo, IsTree, IsDimensionList
  <2>3. /\ DOMAIN m.cubes = DOMAIN t.cubes
        /\ \A c \in DOMAIN t.cubes : /\ m.cubes[c].kind = t.cubes[c].kind
                                     /\ m.cubes[c].uses = t.cubes[c].uses
                                     /\ c # a => m.cubes[c].name = t.cubes[c].name
        /\ m.cubes[a].name = AttributeCube(name)
    BY <2>a, <2>1 DEF RenamedTo, IsTree, IsCubeList, AttributeOf
  <2>4. NamesDiffer(m.dims) /\ NamesDiffer(m.cubes)
    <3>1. NamesDiffer(m.dims)
      BY <1>z, <2>c, <2>2 DEF NamesDiffer, Good
    <3>2. NamesDiffer(m.cubes)
      BY <2>a, <2>d, <2>3 DEF NamesDiffer, Good, AttributeOf
    <3> QED
      BY <3>1, <3>2
  <2>5. OwnerCubes(m) = OwnerCubes(t) /\ NormalDimensions(m) = NormalDimensions(t)
        /\ a \notin OwnerCubes(t)
    BY <2>a, <2>2, <2>3 DEF OwnerCubes, NormalDimensions, AttributeOf
  <2>6. MetaInStep(m)
    <3>1. {m.cubes[c].name : c \in OwnerCubes(m)} = {t.cubes[c].name : c \in OwnerCubes(t)}
      BY <2>3, <2>5 DEF OwnerCubes
    <3>2. /\ t.dimElems.names = {t.dims[d].name : d \in NormalDimensions(t)}
          /\ t.cubeElems.names = {t.cubes[c].name : c \in OwnerCubes(t)}
      BY DEF Good, MetaInStep
    <3>3. CASE t.dims[id].kind = "normal"
      <4>1. m.dimElems.names = (t.dimElems.names \ {n}) \union {name}
        BY <2>1, <3>3 DEF ChangedTo
      <4>2. id \in NormalDimensions(t)
        BY <1>z, <3>3 DEF NormalDimensions
      <4>3. ASSUME NEW x \in m.dimElems.names
            PROVE  \E d \in NormalDimensions(t) : m.dims[d].name = x
        <5>1. CASE x = name
          BY <2>2, <4>2, <5>1
        <5>2. CASE x # name
          <6>1. PICK d \in NormalDimensions(t) : t.dims[d].name = x
            BY <3>2, <4>1, <5>2
          <6> QED
            BY <1>0, <2>2, <4>1, <5>2, <6>1 DEF NormalDimensions
        <5> QED
          BY <5>1, <5>2
      <4>4. ASSUME NEW d \in NormalDimensions(t)
            PROVE  m.dims[d].name \in m.dimElems.names
        BY <1>0, <1>z, <2>2, <3>2, <4>1 DEF NormalDimensions, NamesDiffer, Good
      <4>5. m.dimElems.names = {m.dims[d].name : d \in NormalDimensions(m)}
        BY <2>5, <4>3, <4>4
      <4>6. m.cubeElems.names = {m.cubes[c].name : c \in OwnerCubes(m)}
        BY <2>1, <3>1, <3>2
      <4> QED
        BY <4>5, <4>6 DEF MetaInStep
    <3>4. CASE t.dims[id].kind # "normal"
      <4>1. {m.dims[d].name : d \in NormalDimensions(m)}
              = {t.dims[d].name : d \in NormalDimensions(t)}
        BY <2>2, <2>5, <3>4 DEF NormalDimensions
      <4> QED
        BY <2>1, <3>1, <3>2, <3>4, <4>1 DEF MetaInStep
    <3> QED
      BY <3>3, <3>4
  <2>7. /\ \A c, d : AttributeOf(t, c, d) => (c = a <=> d = id)
        /\ \A c, d : AttributeOf(t, c, d) <=> AttributeOf(m, c, d)
        /\ \A c, o : RightsOf(m, c, o) <=> RightsOf(t, c, o)
    <3>1. \A c, d : AttributeOf(t, c, d) => (c = a <=> d = id)
      BY <1>0, <2>a DEF AttributeOf, NamesDiffer, Good
    <3>2. ASSUME NEW c, NEW d, AttributeOf(m, c, d) PROVE c = a <=> d = id
      <4>1. t.cubes[a].uses = {id} /\ a \in DOMAIN t.cubes
        BY <2>a DEF AttributeOf
      <4>2. c = a => d = id
        BY <2>3, <3>2, <4>1 DEF AttributeOf
      <4>3. d = id => c = a
        BY <2>2, <2>3, <2>4, <3>2, <4>1 DEF AttributeOf, NamesDiffer
      <4> QED
        BY <4>2, <4>3
    <3>3. ASSUME NEW c, NEW d, AttributeOf(t, c, d) PROVE AttributeOf(m, c, d)
      <4>1. c = a <=> d = id
        BY <3>1, <3>3
      <4>2. m.cubes[c].name = AttributeCube(m.dims[d].name)
        BY <2>2, <2>3, <3>3, <4>1 DEF AttributeOf
      <4> QED
        BY <2>2, <2>3, <3>3, <4>2 DEF AttributeOf
    <3>4. ASSUME NEW c, NEW d, AttributeOf(m, c, d) PROVE AttributeOf(t, c, d)
      <4>1. c = a <=> d = id
        BY <3>2, <3>4
      <4>2. t.cubes[c].name = AttributeCube(t.dims[d].name)
        BY <2>a, <2>2, <2>3, <3>4, <4>1 DEF AttributeOf
      <4> QED
        BY <2>2, <2>3, <3>4, <4>2 DEF AttributeOf
    <3>5. \A c, o : RightsOf(m, c, o) => RightsOf(t, c, o)
      BY <2>3, <2>5, CompanionNames DEF RightsOf, OwnerCubes
    <3>6. \A c, o : RightsOf(t, c, o) => RightsOf(m, c, o)
      BY <2>a, <2>3, <2>5, CompanionNames DEF RightsOf, OwnerCubes, AttributeOf
    <3> QED
      BY <3>1, <3>3, <3>4, <3>5, <3>6
  <2>8. Companions(m)
    BY <2>2, <2>3, <2>5, <2>7 DEF Companions, Good
  <2>9. Pairs(t, m) /\ Pairs(m, t)
    BY <2>2, <2>3, <2>7 DEF Pairs, AttributeOf, RightsOf, OwnerCubes
  <2>10. Gives(r, m, t)
    BY <2>2 DEF Gives, GivesDimensionName
  <2>11. /\ t.dims[id].kind # "normal" => SameNormal(m, t)
         /\ SameOwners(m, t)
    BY <2>2, <2>3, <2>5 DEF SameNormal, SameOwners, NormalDimensions, OwnerCubes
  <2>12. Did(r, m, t)
    <3>1. \A c \in OwnerCubes(t) : m.cubes[c] = t.cubes[c]
      BY <2>1, <2>5 DEF RenamedTo, OwnerCubes
    <3>2. ClientCubes(m) = ClientCubes(t)
      BY <2>5, <3>1 DEF ClientCubes
    <3> QED
      BY <1>z, <2>1, <2>3, <3>2 DEF Did
  <2> QED
    BY <2>1, <2>4, <2>6, <2>8, <2>9, <2>10, <2>11, <2>12 DEF Edits, Good, ChangedTo
<1> QED
  BY <1>x, <1>y

LEMMA AddCubeEdits ==
  ASSUME NEW next \in [dims : Nat, cubes : Nat], NEW t, IsTree(t, next), Good(t),
         NEW p, NEW name \in CubeName, NEW kind \in Kind, NEW uses \in SUBSET Nat,
         CanAddCube(t, name, kind, uses),
         NEW r, r.op = "cube/create", r.name = name, r.kind = kind, r.uses = uses,
         NEW m, m = AddCube(t, p, next.cubes, next.cubes + 1, name, kind, uses)
  PROVE  Edits(m, t, p, r)
<1>0. PICK id, a : id = next.cubes /\ a = next.cubes + 1
  OBVIOUS
<1>a. id \notin DOMAIN t.cubes /\ a \notin DOMAIN t.cubes /\ id # a
  BY <1>0 DEF IsTree, IsCubeList
<1>1. /\ m.dims = t.dims /\ m.dimElems = t.dimElems
      /\ m.cubes = With(With(t.cubes, id, [name |-> name, kind |-> kind, uses |-> uses]),
                        a, [name |-> RightsCube(name), kind |-> "system", uses |-> uses])
      /\ m.cubeElems = ChangedTo(p, t.cubeElems.names \union {name})
  BY <1>0 DEF AddCube, IsTree
<1>2. /\ DOMAIN m.cubes = DOMAIN t.cubes \union {id, a}
      /\ \A c \in DOMAIN t.cubes : m.cubes[c] = t.cubes[c]
      /\ m.cubes[id].name = name /\ m.cubes[id].kind = kind /\ m.cubes[id].uses = uses
      /\ m.cubes[a].name = RightsCube(name) /\ m.cubes[a].kind = "system"
      /\ m.cubes[a].uses = uses
  <2>1. PICK one, v, w : /\ one = With(t.cubes, id, v)
                         /\ v = [name |-> name, kind |-> kind, uses |-> uses]
                         /\ w = [name |-> RightsCube(name), kind |-> "system", uses |-> uses]
    OBVIOUS
  <2>2. m.cubes = With(one, a, w)
    BY <1>1, <2>1
  <2>3. DOMAIN one = DOMAIN t.cubes \union {id} /\ one[id] = v
        /\ \A c \in DOMAIN t.cubes : one[c] = t.cubes[c]
    BY <1>a, <2>1 DEF With
  <2>4. DOMAIN m.cubes = DOMAIN one \union {a} /\ m.cubes[a] = w
        /\ \A c \in DOMAIN one : c # a => m.cubes[c] = one[c]
    BY <2>2 DEF With
  <2>5. m.cubes[id] = v
    BY <1>a, <2>3, <2>4
  <2> QED
    BY <1>a, <2>1, <2>3, <2>4, <2>5
<1>3. kind # "system"
  BY DEF Kind
<1>4. NamesDiffer(m.dims) /\ NamesDiffer(m.cubes)
  <2>1. \A c \in DOMAIN t.cubes : t.cubes[c].name # name /\ t.cubes[c].name # RightsCube(name)
    BY DEF CanAddCube, InUse, ByName
  <2>2. name # RightsCube(name)
    BY SystemNames
  <2> QED
    BY <1>1, <1>2, <2>1, <2>2 DEF NamesDiffer, Good
<1>5. /\ OwnerCubes(m) = OwnerCubes(t) \union {id}
      /\ NormalDimensions(m) = NormalDimensions(t)
  BY <1>a, <1>1, <1>2, <1>3 DEF OwnerCubes, NormalDimensions
<1>6. MetaInStep(m)
  <2>1. {m.cubes[c].name : c \in OwnerCubes(m)}
          = {t.cubes[c].name : c \in OwnerCubes(t)} \union {name}
    BY <1>a, <1>2, <1>5 DEF OwnerCubes
  <2>2. {m.dims[d].name : d \in NormalDimensions(m)}
          = {t.dims[d].name : d \in NormalDimensions(t)}
    BY <1>1, <1>5
  <2>3. /\ t.dimElems.names = {t.dims[d].name : d \in NormalDimensions(t)}
        /\ t.cubeElems.names = {t.cubes[c].name : c \in OwnerCubes(t)}
    BY DEF Good, MetaInStep
  <2>4. m.cubeElems.names = t.cubeElems.names \union {name}
    BY <1>1 DEF ChangedTo
  <2> QED
    BY <1>1, <2>1, <2>2, <2>3, <2>4 DEF MetaInStep
<1>7. /\ RightsOf(m, a, id)
      /\ \A c, d : AttributeOf(t, c, d) <=> AttributeOf(m, c, d)
      /\ \A c, o : RightsOf(t, c, o) => RightsOf(m, c, o)
      /\ \A c, o : RightsOf(m, c, o) => (c = a /\ o = id) \/ RightsOf(t, c, o)
  <2>1. RightsOf(m, a, id)
    BY <1>2, <1>5 DEF RightsOf
  <2>2. \A c, d : AttributeOf(t, c, d) => AttributeOf(m, c, d)
    BY <1>1, <1>2 DEF AttributeOf
  <2>3. \A c, d : AttributeOf(m, c, d) => AttributeOf(t, c, d)
    BY <1>1, <1>2, <1>3, CompanionNames DEF AttributeOf
  <2>4. \A c, o : RightsOf(t, c, o) => RightsOf(m, c, o)
    BY <1>2, <1>5 DEF RightsOf, OwnerCubes
  <2>5. ASSUME NEW c, NEW o, RightsOf(m, c, o), ~(c = a /\ o = id)
        PROVE  RightsOf(t, c, o)
    <3>1. c # id
      BY <1>2, <1>3, <2>5 DEF RightsOf
    <3>2. CASE c = a
      <4>1. m.cubes[o].name = name
        BY <1>2, <2>5, <3>2, CompanionNames DEF RightsOf
      <4>2. o \in DOMAIN m.cubes /\ id \in DOMAIN m.cubes
        BY <1>2, <2>5 DEF RightsOf, OwnerCubes
      <4> QED
        BY <1>2, <1>4, <2>5, <3>2, <4>1, <4>2 DEF NamesDiffer
    <3>3. CASE c # a
      <4>1. c \in DOMAIN t.cubes /\ t.cubes[c] = m.cubes[c]
        BY <1>2, <2>5, <3>1, <3>3 DEF RightsOf
      <4>2. o # id
        <5>1. \A x \in DOMAIN t.cubes : t.cubes[x].name # RightsCube(name)
          BY DEF CanAddCube, InUse, ByName
        <5> QED
          BY <1>2, <2>5, <4>1, <5>1 DEF RightsOf
      <4>3. o \in OwnerCubes(t) /\ t.cubes[o] = m.cubes[o]
        BY <1>2, <1>5, <2>5, <4>2 DEF RightsOf, OwnerCubes
      <4> QED
        BY <2>5, <4>1, <4>3 DEF RightsOf
    <3> QED
      BY <3>2, <3>3
  <2> QED
    BY <2>1, <2>2, <2>3, <2>4, <2>5
<1>8. Companions(m)
  BY <1>1, <1>2, <1>3, <1>5, <1>7 DEF Companions, Good
<1>9. Pairs(t, m) /\ Pairs(m, t)
  <2>1. \A c, o : RightsOf(t, c, o) => c \in DOMAIN t.cubes /\ o \in DOMAIN t.cubes
    BY DEF RightsOf, OwnerCubes
  <2>2. \A c, d : AttributeOf(t, c, d) => c \in DOMAIN t.cubes /\ d \in DOMAIN t.dims
    BY DEF AttributeOf
  <2> QED
    BY <1>a, <1>1, <1>2, <1>7, <2>1, <2>2 DEF Pairs
<1>10. Gives(r, m, t)
  BY <1>1 DEF Gives
<1>11. SameNormal(m, t)
  BY <1>1, <1>5 DEF SameNormal
<1>12. Did(r, m, t)
  <2>1. PICK v : v = [name |-> r.name, kind |-> r.kind, uses |-> r.uses]
    OBVIOUS
  <2>2. m.cubes[id] = v
    <3>1. PICK one, w : /\ one = With(t.cubes, id, v)
                        /\ w = [name |-> RightsCube(name), kind |-> "system", uses |-> uses]
      OBVIOUS
    <3>2. m.cubes = With(one, a, w)
      BY <1>1, <2>1, <3>1
    <3>3. id \in DOMAIN one /\ one[id] = v
      BY <3>1 DEF With
    <3> QED
      BY <1>a, <3>2, <3>3 DEF With
  <2>3. ClientCubes(m) = With(ClientCubes(t), id, v)
    BY <1>a, <1>2, <1>5, <2>2 DEF ClientCubes, With, OwnerCubes
  <2>4. id \in DOMAIN m.cubes \ DOMAIN t.cubes /\ DOMAIN t.cubes \subseteq DOMAIN m.cubes
    BY <1>a, <1>2
  <2> QED
    BY <1>1, <2>1, <2>3, <2>4 DEF Did
<1> QED
  BY <1>1, <1>4, <1>6, <1>8, <1>9, <1>10, <1>11, <1>12 DEF Edits, Good, ChangedTo

LEMMA RemoveCubeEdits ==
  ASSUME NEW next \in [dims : Nat, cubes : Nat], NEW t, IsTree(t, next), Good(t),
         NEW p, NEW id \in OwnerCubes(t),
         NEW r, r.op = "cube/destroy", r.id = id, NEW m, m = RemoveCube(t, p, id)
  PROVE  Edits(m, t, p, r)
<1>0. PICK n : n = t.cubes[id].name
  OBVIOUS
<1>a. PICK a : RightsOf(t, a, id)
  BY DEF Good, Companions
<1>b. Min(ByName(t.cubes, RightsCube(n))) = a /\ ByName(t.cubes, RightsCube(n)) # {}
  <2>1. PICK l, k : l = t.cubes /\ k = RightsCube(n)
    OBVIOUS
  <2>2. DOMAIN l \subseteq Nat /\ NamesDiffer(l) /\ a \in DOMAIN l /\ l[a].name = k
    BY <1>0, <1>a, <2>1 DEF RightsOf, IsTree, IsCubeList, Good
  <2>3. ByName(l, k) = {a} /\ Min(ByName(l, k)) = a
    BY <2>2, LookupIs
  <2> QED
    BY <2>1, <2>3
<1>c. id \in DOMAIN t.cubes /\ t.cubes[id].kind # "system"
  BY DEF OwnerCubes
<1>1. /\ m.dims = t.dims /\ m.dimElems = t.dimElems
      /\ m.cubes = Without(t.cubes, {id} \union {a})
      /\ m.cubeElems = ChangedTo(p, t.cubeElems.names \ {n})
  BY <1>0, <1>b DEF RemoveCube, IsTree
<1>2. /\ DOMAIN m.cubes = DOMAIN t.cubes \ {id, a}
      /\ \A c \in DOMAIN m.cubes : m.cubes[c] = t.cubes[c]
  BY <1>1 DEF Without
<1>4. NamesDiffer(m.dims) /\ NamesDiffer(m.cubes)
  <2>1. NamesDiffer(t.dims) /\ NamesDiffer(t.cubes)
    BY DEF Good
  <2>2. NamesDiffer(m.cubes)
    BY <1>2, <2>1 DEF NamesDiffer
  <2> QED
    BY <1>1, <2>1, <2>2
<1>5. /\ OwnerCubes(m) = OwnerCubes(t) \ {id}
      /\ NormalDimensions(m) = NormalDimensions(t)
  <2>1. t.cubes[a].kind = "system"
    BY <1>a DEF RightsOf
  <2>2. \A c : c \in OwnerCubes(m) <=> c \in OwnerCubes(t) /\ c # id
    BY <1>2, <2>1 DEF OwnerCubes
  <2>3. NormalDimensions(m) = NormalDimensions(t)
    BY <1>1 DEF NormalDimensions
  <2> QED
    BY <2>2, <2>3
<1>6. MetaInStep(m)
  <2>1. {m.cubes[c].name : c \in OwnerCubes(m)}
          = {t.cubes[c].name : c \in OwnerCubes(t)} \ {n}
    BY <1>0, <1>2, <1>5 DEF OwnerCubes, NamesDiffer, Good
  <2>2. {m.dims[d].name : d \in NormalDimensions(m)}
          = {t.dims[d].name : d \in NormalDimensions(t)}
    BY <1>1, <1>5
  <2>3. /\ t.dimElems.names = {t.dims[d].name : d \in NormalDimensions(t)}
        /\ t.cubeElems.names = {t.cubes[c].name : c \in OwnerCubes(t)}
    BY DEF Good, MetaInStep
  <2>4. m.cubeElems.names = t.cubeElems.names \ {n}
    BY <1>1 DEF ChangedTo
  <2> QED
    BY <1>1, <2>1, <2>2, <2>3, <2>4 DEF MetaInStep
<1>7. /\ \A c, o : RightsOf(t, c, o) => (c = a <=> o = id)
      /\ \A c, o : RightsOf(m, c, o) => RightsOf(t, c, o)
      /\ \A c, o : RightsOf(t, c, o) /\ o # id => RightsOf(m, c, o)
      /\ \A c, d : AttributeOf(m, c, d) <=> AttributeOf(t, c, d)
  <2>1. ASSUME NEW c, NEW o, RightsOf(t, c, o) PROVE c = a <=> o = id
    <3>1. NamesDiffer(t.cubes) /\ o \in DOMAIN t.cubes
      BY <2>1 DEF Good, RightsOf, OwnerCubes
    <3>2. c = a => t.cubes[o].name = t.cubes[id].name
      BY <1>a, <2>1, CompanionNames DEF RightsOf
    <3> QED
      BY <1>a, <1>c, <2>1, <3>1, <3>2 DEF RightsOf, NamesDiffer
  <2>2. \A c, o : RightsOf(m, c, o) => RightsOf(t, c, o)
    BY <1>2, <1>5 DEF RightsOf, OwnerCubes
  <2>3. ASSUME NEW c, NEW o, RightsOf(t, c, o), o # id PROVE RightsOf(m, c, o)
    <3>1. c # a /\ c # id /\ o # a
      BY <1>a, <1>c, <2>1, <2>3 DEF RightsOf, OwnerCubes
    <3> QED
      BY <1>2, <1>5, <2>3, <3>1 DEF RightsOf, OwnerCubes
  <2>4. \A c, d : AttributeOf(m, c, d) => AttributeOf(t, c, d)
    BY <1>1, <1>2 DEF AttributeOf
  <2>5. ASSUME NEW c, NEW d, AttributeOf(t, c, d) PROVE AttributeOf(m, c, d)
    <3>1. c # id
      BY <1>c, <2>5 DEF AttributeOf
    <3>2. c # a
      BY <1>a, <2>5, CompanionNames DEF AttributeOf, RightsOf
    <3> QED
      BY <1>1, <1>2, <2>5, <3>1, <3>2 DEF AttributeOf
  <2> QED
    BY <2>1, <2>2, <2>3, <2>4, <2>5
<1>8. Companions(m)
  BY <1>1, <1>2, <1>5, <1>7 DEF Companions, Good
<1>9. Pairs(t, m) /\ Pairs(m, t)
  <2>1. \A c, d : AttributeOf(t, c, d) => c \in DOMAIN m.cubes /\ d \in DOMAIN m.dims
    BY <1>7 DEF AttributeOf
  <2>2. \A c, d : AttributeOf(m, c, d) => c \in DOMAIN t.cubes /\ d \in DOMAIN t.dims
    BY <1>7 DEF AttributeOf
  <2>3. ASSUME NEW c, NEW o, RightsOf(t, c, o)
        PROVE  c \in DOMAIN m.cubes <=> o \in DOMAIN m.cubes
    BY <1>2, <1>7, <2>3 DEF RightsOf, OwnerCubes
  <2>4. \A c, o : RightsOf(m, c, o) => c \in DOMAIN t.cubes /\ o \in DOMAIN t.cubes
    BY <1>7 DEF RightsOf, OwnerCubes
  <2> QED
    BY <1>2, <1>7, <2>1, <2>2, <2>3, <2>4 DEF Pairs
<1>10. Gives(r, m, t)
  BY <1>1 DEF Gives
<1>11. SameNormal(m, t)
  BY <1>1, <1>5 DEF SameNormal
<1>12. Did(r, m, t)
  <2>1. \A c \in OwnerCubes(m) : m.cubes[c] = t.cubes[c]
    BY <1>2 DEF OwnerCubes
  <2>2. ClientCubes(m) = Without(ClientCubes(t), {id})
    BY <1>5, <2>1 DEF ClientCubes, Without
  <2> QED
    BY <1>1, <2>2 DEF Did
<1> QED
  BY <1>1, <1>4, <1>6, <1>8, <1>9, <1>10, <1>11, <1>12 DEF Edits, Good, ChangedTo

LEMMA RenameCubeEdits ==
  ASSUME NEW next \in [dims : Nat, cubes : Nat], NEW t, IsTree(t, next), Good(t),
         NEW p, NEW name \in CubeName, NEW id \in OwnerCubes(t),
         CanRename(t.cubes, id, name),
         NEW r, r.op = "cube/rename", r.name = name, r.id = id, NEW m, m = RenameCube(t, p, id, name)
  PROVE  Edits(m, t, p, r)
<1>0. PICK n : n = t.cubes[id].name
  OBVIOUS
<1>z. id \in DOMAIN t.cubes /\ t.cubes[id].kind # "system"
  BY DEF OwnerCubes
<1>y. CASE n = name
  <2>1. m = t
    BY <1>0, <1>y DEF RenameCube
  <2>2. Pairs(t, t) /\ Gives(r, t, t) /\ SameNormal(t, t) /\ SameOwners(t, t)
    <3>1. Pairs(t, t)
      BY DEF Pairs, AttributeOf, RightsOf, OwnerCubes
    <3> QED
      BY <3>1 DEF Gives, SameNormal, SameOwners
  <2>3. Did(r, t, t)
    <3>1. [t.cubes[id] EXCEPT !.name = name] = t.cubes[id]
      BY <1>0, <1>y, <1>z DEF IsTree, IsCubeList
    <3>2. RenamedTo(ClientCubes(t), id, name) = ClientCubes(t)
      BY <3>1 DEF RenamedTo, ClientCubes
    <3> QED
      BY <3>2 DEF Did
  <2> QED
    BY <2>1, <2>2, <2>3 DEF Edits
<1>x. CASE n # name
  <2>a. PICK a : RightsOf(t, a, id)
    BY DEF Good, Companions
  <2>b. a # id /\ a \in DOMAIN t.cubes /\ t.cubes[a].name = RightsCube(n)
        /\ t.cubes[a].kind = "system"
    BY <1>0, <1>z, <2>a DEF RightsOf
  <2>c. \A c \in DOMAIN t.cubes : t.cubes[c].name # name
    <3>1. PICK l : l = t.cubes
      OBVIOUS
    <3>2. DOMAIN l \subseteq Nat /\ CanRename(l, id, name) /\ l[id].name # name
      BY <1>0, <1>x, <3>1 DEF IsTree, IsCubeList
    <3>3. ~InUse(l, name)
      BY <3>2, LookupFinds DEF CanRename
    <3> QED
      BY <3>1, <3>3 DEF InUse, ByName
  <2>d. \A c \in DOMAIN t.cubes : t.cubes[c].name # RightsCube(name)
    <3> SUFFICES ASSUME NEW c \in DOMAIN t.cubes, t.cubes[c].name = RightsCube(name)
                 PROVE  FALSE
      OBVIOUS
    <3>1. c \notin OwnerCubes(t)
      BY SystemNames, TreeNames
    <3>2. (\E d : AttributeOf(t, c, d)) \/ (\E o : RightsOf(t, c, o))
      BY <3>1 DEF Good, Companions
    <3> QED
      BY <2>c, <3>2, CompanionNames DEF AttributeOf, RightsOf, OwnerCubes
  <2>e. PICK one : one = RenamedTo(t.cubes, id, name)
    OBVIOUS
  <2>f. /\ DOMAIN one = DOMAIN t.cubes
        /\ \A c \in DOMAIN t.cubes : /\ one[c].kind = t.cubes[c].kind
                                     /\ one[c].uses = t.cubes[c].uses
                                     /\ c # id => one[c].name = t.cubes[c].name
        /\ one[id].name = name
        /\ one \in [DOMAIN one -> [name : CubeName \union SystemName,
                                   kind : Kind \union {"system"}, uses : SUBSET Nat]]
    BY <1>z, <2>e DEF RenamedTo, IsTree, IsCubeList
  <2>g. NamesDiffer(one)
    BY <1>z, <2>c, <2>f DEF NamesDiffer, Good
  <2>h. Lookup(one, RightsCube(n)) = a /\ InUse(one, RightsCube(n))
    <3>1. PICK k : k = RightsCube(n)
      OBVIOUS
    <3>2. DOMAIN one \subseteq Nat /\ a \in DOMAIN one /\ one[a].name = k
      BY <2>b, <2>f, <3>1 DEF IsTree, IsCubeList
    <3>3. Lookup(one, k) = a /\ InUse(one, k)
      BY <2>g, <3>2, LookupIs
    <3> QED
      BY <3>1, <3>3
  <2>1. /\ m.dims = t.dims /\ m.dimElems = t.dimElems
        /\ m.cubes = RenamedTo(one, a, RightsCube(name))
        /\ m.cubeElems = ChangedTo(p, (t.cubeElems.names \ {n}) \union {name})
    BY <1>0, <1>x, <2>e, <2>h DEF RenameCube, RenamedFrom, IsTree
  <2>3. /\ DOMAIN m.cubes = DOMAIN t.cubes
        /\ \A c \in DOMAIN t.cubes :
             /\ m.cubes[c].kind = t.cubes[c].kind
             /\ m.cubes[c].uses = t.cubes[c].uses
             /\ c # a /\ c # id => m.cubes[c].name = t.cubes[c].name
        /\ m.cubes[a].name = RightsCube(name) /\ m.cubes[id].name = name
    <3>1. /\ DOMAIN m.cubes = DOMAIN one
          /\ \A c \in DOMAIN one : /\ m.cubes[c].kind = one[c].kind
                                   /\ m.cubes[c].uses = one[c].uses
                                   /\ c # a => m.cubes[c].name = one[c].name
          /\ m.cubes[a].name = RightsCube(name)
      BY <2>b, <2>f, <2>1 DEF RenamedTo
    <3> QED
      BY <1>z, <2>b, <2>f, <3>1
  <2>4. NamesDiffer(m.dims) /\ NamesDiffer(m.cubes)
    <3>1. name # RightsCube(name)
      BY SystemNames
    <3>2. NamesDiffer(t.cubes) /\ NamesDiffer(t.dims)
      BY DEF Good
    <3> QED
      BY <1>z, <2>b, <2>c, <2>d, <2>1, <2>3, <3>1, <3>2 DEF NamesDiffer
  <2>5. OwnerCubes(m) = OwnerCubes(t) /\ NormalDimensions(m) = NormalDimensions(t)
        /\ a \notin OwnerCubes(t)
    BY <2>b, <2>1, <2>3 DEF OwnerCubes, NormalDimensions
  <2>6. MetaInStep(m)
    <3>1. m.dimElems.names = {m.dims[d].name : d \in NormalDimensions(m)}
      BY <2>1, <2>5 DEF Good, MetaInStep
    <3>2. t.cubeElems.names = {t.cubes[c].name : c \in OwnerCubes(t)}
      BY DEF Good, MetaInStep
    <3>3. m.cubeElems.names = (t.cubeElems.names \ {n}) \union {name}
      BY <2>1 DEF ChangedTo
    <3>4. \A c \in OwnerCubes(t) : c # id => m.cubes[c].name = t.cubes[c].name
      BY <2>3, <2>5 DEF OwnerCubes
    <3>5. ASSUME NEW x \in m.cubeElems.names
          PROVE  \E c \in OwnerCubes(t) : m.cubes[c].name = x
      <4>1. CASE x = name
        BY <2>3, <4>1
      <4>2. CASE x # name
        <5>1. PICK c \in OwnerCubes(t) : t.cubes[c].name = x
          BY <3>2, <3>3, <4>2
        <5> QED
          BY <1>0, <3>3, <3>4, <4>2, <5>1
      <4> QED
        BY <4>1, <4>2
    <3>6. ASSUME NEW c \in OwnerCubes(t) PROVE m.cubes[c].name \in m.cubeElems.names
      BY <1>0, <1>z, <2>3, <3>2, <3>3, <3>4 DEF OwnerCubes, NamesDiffer, Good
    <3>7. m.cubeElems.names = {m.cubes[c].name : c \in OwnerCubes(m)}
      BY <2>5, <3>5, <3>6
    <3> QED
      BY <3>1, <3>7 DEF MetaInStep
  <2>7. /\ \A c, o : RightsOf(t, c, o) <=> RightsOf(m, c, o)
        /\ \A c, d : AttributeOf(m, c, d) <=> AttributeOf(t, c, d)
    <3>1. ASSUME NEW c, NEW o, RightsOf(t, c, o) PROVE c = a <=> o = id
      <4>1. NamesDiffer(t.cubes) /\ o \in DOMAIN t.cubes
        BY <3>1 DEF Good, RightsOf, OwnerCubes
      <4>2. c = a => t.cubes[o].name = t.cubes[id].name
        BY <2>a, <3>1, CompanionNames DEF RightsOf
      <4> QED
        BY <1>z, <2>a, <3>1, <4>1, <4>2 DEF RightsOf, NamesDiffer
    <3>2. ASSUME NEW c, NEW o, RightsOf(m, c, o) PROVE c = a <=> o = id
      <4>1. NamesDiffer(m.cubes) /\ o \in DOMAIN m.cubes /\ c \in DOMAIN m.cubes
            /\ id \in DOMAIN m.cubes /\ a \in DOMAIN m.cubes
        BY <1>z, <2>b, <2>3, <2>4, <3>2 DEF RightsOf, OwnerCubes
      <4>2. m.cubes[c].name = RightsCube(m.cubes[o].name)
        BY <3>2 DEF RightsOf
      <4>3. c = a => m.cubes[o].name = m.cubes[id].name
        BY <2>3, <4>2, CompanionNames
      <4>4. o = id => m.cubes[c].name = m.cubes[a].name
        BY <2>3, <4>2
      <4> QED
        BY <4>1, <4>3, <4>4 DEF NamesDiffer
    <3>3. ASSUME NEW c, NEW o, RightsOf(t, c, o) PROVE RightsOf(m, c, o)
      <4>1. /\ c = a <=> o = id
            /\ c # id /\ o # a
        BY <1>z, <2>5, <3>1, <3>3 DEF RightsOf
      <4>2. m.cubes[c].name = RightsCube(m.cubes[o].name)
        BY <2>3, <3>3, <4>1 DEF RightsOf, OwnerCubes
      <4> QED
        BY <2>3, <2>5, <3>3, <4>2 DEF RightsOf, OwnerCubes
    <3>4. ASSUME NEW c, NEW o, RightsOf(m, c, o) PROVE RightsOf(t, c, o)
      <4>a. c # id /\ o # a
        <5>1. o \in OwnerCubes(t) /\ c \notin OwnerCubes(t)
          BY <2>5, <3>4 DEF RightsOf, OwnerCubes
        <5> QED
          BY <2>5, <5>1
      <4>b. c = a => o = id
        BY <2>3, <2>5, <3>2, <3>4, <4>a DEF RightsOf
      <4>c. o = id => c = a
        BY <2>3, <2>5, <3>2, <3>4, <4>a DEF RightsOf
      <4>1. /\ c = a <=> o = id
            /\ c # id /\ o # a
        BY <4>a, <4>b, <4>c
      <4>2. t.cubes[c].name = RightsCube(t.cubes[o].name)
        BY <1>0, <2>b, <2>3, <3>4, <4>1 DEF RightsOf, OwnerCubes
      <4> QED
        BY <2>3, <2>5, <3>4, <4>2 DEF RightsOf, OwnerCubes
    <3>5. ASSUME NEW c, NEW d, AttributeOf(m, c, d) PROVE AttributeOf(t, c, d)
      <4>1. c # a /\ c # id
        BY <1>z, <2>3, <3>5, CompanionNames DEF AttributeOf
      <4> QED
        BY <2>1, <2>3, <3>5, <4>1 DEF AttributeOf
    <3>6. ASSUME NEW c, NEW d, AttributeOf(t, c, d) PROVE AttributeOf(m, c, d)
      <4>1. c # a /\ c # id
        BY <1>z, <2>b, <3>6, CompanionNames DEF AttributeOf
      <4> QED
        BY <2>1, <2>3, <3>6, <4>1 DEF AttributeOf
    <3> QED
      BY <3>3, <3>4, <3>5, <3>6
  <2>8. Companions(m)
    BY <2>1, <2>3, <2>5, <2>7 DEF Companions, Good
  <2>9. Pairs(t, m) /\ Pairs(m, t)
    <3>1. DOMAIN m.dims = DOMAIN t.dims /\ DOMAIN m.cubes = DOMAIN t.cubes
      BY <2>1, <2>3
    <3>2. /\ \A c, d : AttributeOf(t, c, d) => c \in DOMAIN t.cubes /\ d \in DOMAIN t.dims
          /\ \A c, o : RightsOf(t, c, o) => c \in DOMAIN t.cubes /\ o \in DOMAIN t.cubes
      BY DEF AttributeOf, RightsOf, OwnerCubes
    <3> QED
      BY <2>7, <3>1, <3>2 DEF Pairs
  <2>10. Gives(r, m, t)
    BY <2>1 DEF Gives
  <2>11. SameNormal(m, t)
    BY <2>1, <2>5 DEF SameNormal
  <2>12. Did(r, m, t)
    <3>1. \A c \in OwnerCubes(t) :
            m.cubes[c] = IF c = id THEN [t.cubes[id] EXCEPT !.name = name] ELSE t.cubes[c]
      BY <2>e, <2>f, <2>1, <2>5 DEF RenamedTo, OwnerCubes
    <3>2. RenamedTo(ClientCubes(t), id, name)
            = [c \in OwnerCubes(t) |->
                 IF c = id THEN [t.cubes[id] EXCEPT !.name = name] ELSE t.cubes[c]]
      BY DEF RenamedTo, ClientCubes
    <3>3. ClientCubes(m) = RenamedTo(ClientCubes(t), id, name)
      BY <2>5, <3>1, <3>2 DEF ClientCubes
    <3> QED
      BY <2>1, <2>3, <3>3 DEF Did
  <2> QED
    BY <2>1, <2>4, <2>6, <2>8, <2>9, <2>10, <2>11, <2>12 DEF Edits, Good, ChangedTo
<1> QED
  BY <1>x, <1>y
-----------------------------------------------------------------------------
(* The lists of R are the merge of those of M and L, both made from O.     *)
IsMerge(R, M, L, O) ==
  /\ \A d : d \in DOMAIN R.dims <=>
       /\ d \in DOMAIN M.dims \/ d \in DOMAIN L.dims \ DOMAIN O.dims
       /\ d \notin DOMAIN O.dims \ DOMAIN L.dims
  /\ \A d \in DOMAIN R.dims :
       \/ /\ d \in DOMAIN M.dims /\ R.dims[d] = M.dims[d]
          /\ d \notin DOMAIN O.dims \/ M.dims[d].name # O.dims[d].name
       \/ /\ d \in DOMAIN L.dims /\ R.dims[d] = L.dims[d]
          /\ \/ d \notin DOMAIN M.dims
             \/ d \in DOMAIN O.dims /\ M.dims[d].name = O.dims[d].name
  /\ \A c : c \in DOMAIN R.cubes <=>
       /\ c \in DOMAIN M.cubes \/ c \in DOMAIN L.cubes \ DOMAIN O.cubes
       /\ c \notin DOMAIN O.cubes \ DOMAIN L.cubes
  /\ \A c \in DOMAIN R.cubes :
       \/ /\ c \in DOMAIN M.cubes /\ R.cubes[c] = M.cubes[c]
          /\ c \notin DOMAIN O.cubes \/ M.cubes[c].name # O.cubes[c].name
       \/ /\ c \in DOMAIN L.cubes /\ R.cubes[c] = L.cubes[c]
          /\ \/ c \notin DOMAIN M.cubes
             \/ c \in DOMAIN O.cubes /\ M.cubes[c].name = O.cubes[c].name

LEMMA MergedIsMerge ==
  ASSUME TypeOK, NEW j \in Job
  PROVE  IsMerge(Merged(j), mine[j], latest, old[j])
BY MergedItems DEF IsMerge

(* A companion is merged with its owner, and as its owner.                 *)
LEMMA MergePairs ==
  ASSUME NEW R, NEW M, NEW L, NEW O, IsMerge(R, M, L, O), NEW t,
         Pairs(t, M), Pairs(t, L), Pairs(t, O)
  PROVE  Pairs(t, R)
<1>1. ASSUME NEW c, NEW d, AttributeOf(t, c, d)
      PROVE  /\ c \in DOMAIN R.cubes <=> d \in DOMAIN R.dims
             /\ d \in DOMAIN R.dims => AttributeOf(R, c, d)
  <2>1. /\ c \in DOMAIN M.cubes <=> d \in DOMAIN M.dims
        /\ c \in DOMAIN L.cubes <=> d \in DOMAIN L.dims
        /\ c \in DOMAIN O.cubes <=> d \in DOMAIN O.dims
    BY <1>1 DEF Pairs
  <2>2. /\ d \in DOMAIN M.dims => AttributeOf(M, c, d)
        /\ d \in DOMAIN L.dims => AttributeOf(L, c, d)
        /\ d \in DOMAIN O.dims => AttributeOf(O, c, d)
    BY <1>1 DEF Pairs
  <2>3. c \in DOMAIN R.cubes <=> d \in DOMAIN R.dims
    BY <2>1 DEF IsMerge
  <2>4. d \in DOMAIN M.dims /\ d \in DOMAIN O.dims =>
          (M.dims[d].name = O.dims[d].name <=> M.cubes[c].name = O.cubes[c].name)
    BY <2>2, CompanionNames DEF AttributeOf
  <2>5. ASSUME d \in DOMAIN R.dims PROVE AttributeOf(R, c, d)
    <3>1. \/ /\ d \in DOMAIN M.dims /\ R.dims[d] = M.dims[d] /\ R.cubes[c] = M.cubes[c]
          \/ /\ d \in DOMAIN L.dims /\ R.dims[d] = L.dims[d] /\ R.cubes[c] = L.cubes[c]
      BY <2>1, <2>3, <2>4, <2>5 DEF IsMerge
    <3> QED
      BY <2>2, <2>3, <2>5, <3>1 DEF AttributeOf
  <2> QED
    BY <2>3, <2>5
<1>2. ASSUME NEW c, NEW o, RightsOf(t, c, o)
      PROVE  /\ c \in DOMAIN R.cubes <=> o \in DOMAIN R.cubes
             /\ o \in DOMAIN R.cubes => RightsOf(R, c, o)
  <2>1. /\ c \in DOMAIN M.cubes <=> o \in DOMAIN M.cubes
        /\ c \in DOMAIN L.cubes <=> o \in DOMAIN L.cubes
        /\ c \in DOMAIN O.cubes <=> o \in DOMAIN O.cubes
    BY <1>2 DEF Pairs
  <2>2. /\ o \in DOMAIN M.cubes => RightsOf(M, c, o)
        /\ o \in DOMAIN L.cubes => RightsOf(L, c, o)
        /\ o \in DOMAIN O.cubes => RightsOf(O, c, o)
    BY <1>2 DEF Pairs
  <2>3. c \in DOMAIN R.cubes <=> o \in DOMAIN R.cubes
    BY <2>1 DEF IsMerge
  <2>4. o \in DOMAIN M.cubes /\ o \in DOMAIN O.cubes =>
          (M.cubes[o].name = O.cubes[o].name <=> M.cubes[c].name = O.cubes[c].name)
    BY <2>2, CompanionNames DEF RightsOf
  <2>5. ASSUME o \in DOMAIN R.cubes PROVE RightsOf(R, c, o)
    <3>1. \/ /\ o \in DOMAIN M.cubes /\ R.cubes[o] = M.cubes[o] /\ R.cubes[c] = M.cubes[c]
          \/ /\ o \in DOMAIN L.cubes /\ R.cubes[o] = L.cubes[o] /\ R.cubes[c] = L.cubes[c]
      BY <2>1, <2>3, <2>4, <2>5 DEF IsMerge
    <3> QED
      BY <2>2, <2>3, <2>5, <3>1 DEF RightsOf, OwnerCubes
  <2> QED
    BY <2>3, <2>5
<1> QED
  BY <1>1, <1>2 DEF Pairs

(* What only one of the two changed is merged as it is in that one.        *)
LEMMA MergeNormal ==
  ASSUME NEW R, NEW M, NEW L, NEW O, IsMerge(R, M, L, O),
         SameObjects(M, L), SameObjects(M, O), SameObjects(L, O)
  PROVE  /\ SameNormal(L, O) => SameNormal(R, M)
         /\ SameNormal(M, O) => SameNormal(R, L)
<1>1. /\ \A d \in DOMAIN M.dims \intersect DOMAIN L.dims : M.dims[d].kind = L.dims[d].kind
      /\ \A d \in DOMAIN M.dims \intersect DOMAIN O.dims : M.dims[d].kind = O.dims[d].kind
      /\ \A d \in DOMAIN L.dims \intersect DOMAIN O.dims : L.dims[d].kind = O.dims[d].kind
  BY DEF SameObjects
<1>2. ASSUME SameNormal(L, O) PROVE SameNormal(R, M)
  <2>1. ASSUME NEW d \in NormalDimensions(R)
        PROVE  d \in NormalDimensions(M) /\ R.dims[d].name = M.dims[d].name
    BY <1>1, <1>2, <2>1 DEF SameNormal, NormalDimensions, IsMerge
  <2>2. ASSUME NEW d \in NormalDimensions(M) PROVE d \in NormalDimensions(R)
    BY <1>1, <1>2, <2>2 DEF SameNormal, NormalDimensions, IsMerge
  <2> QED
    BY <2>1, <2>2 DEF SameNormal
<1>3. ASSUME SameNormal(M, O) PROVE SameNormal(R, L)
  <2>1. ASSUME NEW d \in NormalDimensions(R)
        PROVE  d \in NormalDimensions(L) /\ R.dims[d].name = L.dims[d].name
    BY <1>1, <1>3, <2>1 DEF SameNormal, NormalDimensions, IsMerge
  <2>2. ASSUME NEW d \in NormalDimensions(L) PROVE d \in NormalDimensions(R)
    BY <1>1, <1>3, <2>2 DEF SameNormal, NormalDimensions, IsMerge
  <2> QED
    BY <2>1, <2>2 DEF SameNormal
<1> QED
  BY <1>2, <1>3

LEMMA MergeOwners ==
  ASSUME NEW R, NEW M, NEW L, NEW O, IsMerge(R, M, L, O),
         SameObjects(M, L), SameObjects(M, O), SameObjects(L, O)
  PROVE  /\ SameOwners(L, O) => SameOwners(R, M)
         /\ SameOwners(M, O) => SameOwners(R, L)
<1>1. /\ \A d \in DOMAIN M.cubes \intersect DOMAIN L.cubes : M.cubes[d].kind = L.cubes[d].kind
      /\ \A d \in DOMAIN M.cubes \intersect DOMAIN O.cubes : M.cubes[d].kind = O.cubes[d].kind
      /\ \A d \in DOMAIN L.cubes \intersect DOMAIN O.cubes : L.cubes[d].kind = O.cubes[d].kind
  BY DEF SameObjects
<1>2. ASSUME SameOwners(L, O) PROVE SameOwners(R, M)
  <2>1. ASSUME NEW d \in OwnerCubes(R)
        PROVE  d \in OwnerCubes(M) /\ R.cubes[d].name = M.cubes[d].name
    BY <1>1, <1>2, <2>1 DEF SameOwners, OwnerCubes, IsMerge
  <2>2. ASSUME NEW d \in OwnerCubes(M) PROVE d \in OwnerCubes(R)
    BY <1>1, <1>2, <2>2 DEF SameOwners, OwnerCubes, IsMerge
  <2> QED
    BY <2>1, <2>2 DEF SameOwners
<1>3. ASSUME SameOwners(M, O) PROVE SameOwners(R, L)
  <2>1. ASSUME NEW d \in OwnerCubes(R)
        PROVE  d \in OwnerCubes(L) /\ R.cubes[d].name = L.cubes[d].name
    BY <1>1, <1>3, <2>1 DEF SameOwners, OwnerCubes, IsMerge
  <2>2. ASSUME NEW d \in OwnerCubes(L) PROVE d \in OwnerCubes(R)
    BY <1>1, <1>3, <2>2 DEF SameOwners, OwnerCubes, IsMerge
  <2> QED
    BY <2>1, <2>2 DEF SameOwners
<1> QED
  BY <1>2, <1>3

(* The companions in the merged lists are companions of one of the two.    *)
LEMMA MergeCompanions ==
  ASSUME NEW R, NEW M, NEW L, NEW O, IsMerge(R, M, L, O),
         Pairs(M, R), Pairs(L, R), Good(M), Good(L),
         \A x, y \in OwnerCubes(R) : R.cubes[x].name = R.cubes[y].name => x = y
  PROVE  /\ \A c, d : AttributeOf(R, c, d) => AttributeOf(M, c, d) \/ AttributeOf(L, c, d)
         /\ \A c, o : RightsOf(R, c, o) => RightsOf(M, c, o) \/ RightsOf(L, c, o)
         /\ Companions(R)
<1>1. \A c \in DOMAIN R.cubes :
        \/ c \in DOMAIN M.cubes /\ R.cubes[c] = M.cubes[c]
        \/ c \in DOMAIN L.cubes /\ R.cubes[c] = L.cubes[c]
  BY DEF IsMerge
<1>2. ASSUME NEW c \in DOMAIN R.cubes, R.cubes[c].kind = "system", NEW u \in {M, L},
             c \in DOMAIN u.cubes, R.cubes[c] = u.cubes[c]
      PROVE  (\E d : AttributeOf(u, c, d)) \/ (\E o : RightsOf(u, c, o))
  BY <1>2 DEF Good, Companions, OwnerCubes
<1>3. ASSUME NEW c, NEW d, AttributeOf(R, c, d)
      PROVE  AttributeOf(M, c, d) \/ AttributeOf(L, c, d)
  <2>1. c \in DOMAIN R.cubes /\ R.cubes[c].kind = "system"
    BY <1>3 DEF AttributeOf
  <2>2. PICK u \in {M, L} : c \in DOMAIN u.cubes /\ R.cubes[c] = u.cubes[c]
    BY <1>1, <2>1
  <2>3. \A o : ~RightsOf(u, c, o)
    BY <1>3, <2>2, CompanionNames DEF AttributeOf, RightsOf
  <2>4. PICK e : AttributeOf(u, c, e)
    BY <1>2, <2>1, <2>2, <2>3
  <2>5. e = d
    BY <1>3, <2>2, <2>4 DEF AttributeOf
  <2> QED
    BY <2>4, <2>5
<1>4. ASSUME NEW c, NEW o, RightsOf(R, c, o)
      PROVE  RightsOf(M, c, o) \/ RightsOf(L, c, o)
  <2>1. c \in DOMAIN R.cubes /\ R.cubes[c].kind = "system"
    BY <1>4 DEF RightsOf
  <2>2. PICK u \in {M, L} : c \in DOMAIN u.cubes /\ R.cubes[c] = u.cubes[c]
    BY <1>1, <2>1
  <2>3. \A d : ~AttributeOf(u, c, d)
    BY <1>4, <2>2, CompanionNames DEF AttributeOf, RightsOf
  <2>4. PICK e : RightsOf(u, c, e)
    BY <1>2, <2>1, <2>2, <2>3
  <2>5. RightsOf(R, c, e)
    BY <2>1, <2>4 DEF Pairs
  <2>6. e = o
    BY <1>4, <2>5, CompanionNames, ZenonT(40) DEF RightsOf
  <2> QED
    BY <2>4, <2>6
<1>5. Companions(R)
  <2>1. ASSUME NEW d \in DOMAIN R.dims PROVE \E c : AttributeOf(R, c, d)
    <3>1. PICK u \in {M, L} : d \in DOMAIN u.dims
      BY DEF IsMerge
    <3>2. PICK c : AttributeOf(u, c, d)
      BY <3>1 DEF Good, Companions
    <3> QED
      BY <3>2 DEF Pairs
  <2>2. ASSUME NEW o \in OwnerCubes(R) PROVE \E c : RightsOf(R, c, o)
    <3>1. PICK u \in {M, L} : o \in OwnerCubes(u)
      BY <1>1, <2>2 DEF OwnerCubes
    <3>2. PICK c : RightsOf(u, c, o)
      BY <3>1 DEF Good, Companions
    <3> QED
      BY <3>2 DEF Pairs, OwnerCubes
  <2>3. ASSUME NEW c \in DOMAIN R.cubes \ OwnerCubes(R)
        PROVE  (\E d : AttributeOf(R, c, d)) \/ (\E o : RightsOf(R, c, o))
    <3>1. R.cubes[c].kind = "system"
      BY DEF OwnerCubes
    <3>2. PICK u \in {M, L} : c \in DOMAIN u.cubes /\ R.cubes[c] = u.cubes[c]
      BY <1>1
    <3>3. (\E d : AttributeOf(u, c, d)) \/ (\E o : RightsOf(u, c, o))
      BY <1>2, <3>1, <3>2
    <3> QED
      BY <3>3 DEF Pairs
  <2> QED
    BY <2>1, <2>2, <2>3 DEF Companions
<1> QED
  BY <1>3, <1>4, <1>5

LEMMA MergeCubeNames ==
  ASSUME NEW R, NEW M, NEW L, NEW next, IsTree(R, next), Good(M), Good(L),
         Pairs(M, L), Pairs(L, M), NamesDiffer(R.dims), Companions(R),
         \A x, y \in OwnerCubes(R) : R.cubes[x].name = R.cubes[y].name => x = y,
         \A c, d : AttributeOf(R, c, d) => AttributeOf(M, c, d) \/ AttributeOf(L, c, d),
         \A c, o : RightsOf(R, c, o) => RightsOf(M, c, o) \/ RightsOf(L, c, o)
  PROVE  NamesDiffer(R.cubes)
<1> SUFFICES ASSUME NEW x \in DOMAIN R.cubes, NEW y \in DOMAIN R.cubes,
                    R.cubes[x].name = R.cubes[y].name
             PROVE  x = y
  BY DEF NamesDiffer
<1>1. x \in OwnerCubes(R) <=> y \in OwnerCubes(R)
  BY TreeNames
<1>2. CASE x \in OwnerCubes(R)
  BY <1>1, <1>2
<1>3. CASE x \notin OwnerCubes(R)
  <2>1. /\ (\E d : AttributeOf(R, x, d)) \/ (\E o : RightsOf(R, x, o))
        /\ (\E d : AttributeOf(R, y, d)) \/ (\E o : RightsOf(R, y, o))
    BY <1>1, <1>3 DEF Companions
  <2>2. ASSUME NEW d, NEW e, AttributeOf(R, x, d), AttributeOf(R, y, e) PROVE x = y
    <3>1. d = e
      <4>1. AttributeCube(R.dims[d].name) = AttributeCube(R.dims[e].name)
        BY <2>2 DEF AttributeOf
      <4>2. R.dims[d].name = R.dims[e].name
        BY <4>1, CompanionNames
      <4> QED
        BY <2>2, <4>2 DEF AttributeOf, NamesDiffer
    <3>2. PICK u \in {M, L} : AttributeOf(u, x, d)
      BY <2>2
    <3>3. AttributeOf(M, y, d) \/ AttributeOf(L, y, d)
      BY <2>2, <3>1
    <3>4. d \in DOMAIN u.dims
      BY <3>2 DEF AttributeOf
    <3>5. AttributeOf(u, y, d)
      BY <3>3, <3>4 DEF Pairs
    <3> QED
      BY <3>2, <3>5 DEF AttributeOf, Good, NamesDiffer
  <2>3. ASSUME NEW d, NEW e, RightsOf(R, x, d), RightsOf(R, y, e) PROVE x = y
    <3>1. d = e
      <4>1. RightsCube(R.cubes[d].name) = RightsCube(R.cubes[e].name)
        BY <2>3 DEF RightsOf
      <4>2. R.cubes[d].name = R.cubes[e].name
        BY <4>1, CompanionNames
      <4> QED
        BY <2>3, <4>2 DEF RightsOf
    <3>2. PICK u \in {M, L} : RightsOf(u, x, d)
      BY <2>3
    <3>3. RightsOf(M, y, d) \/ RightsOf(L, y, d)
      BY <2>3, <3>1
    <3>4. d \in DOMAIN u.cubes
      BY <3>2 DEF RightsOf, OwnerCubes
    <3>5. RightsOf(u, y, d)
      BY <3>3, <3>4 DEF Pairs
    <3> QED
      BY <3>2, <3>5 DEF RightsOf, Good, NamesDiffer
  <2>4. \A d, o : ~(AttributeOf(R, x, d) /\ RightsOf(R, y, o))
                  /\ ~(AttributeOf(R, y, d) /\ RightsOf(R, x, o))
    BY CompanionNames DEF AttributeOf, RightsOf
  <2> QED
    BY <2>1, <2>2, <2>3, <2>4
<1> QED
  BY <1>2, <1>3
-----------------------------------------------------------------------------
(* Every tree is consistent, and companions are the same in all of them.   *)
GoodInv == \A t \in Trees : Good(t)
PairsInv == \A s, t \in Trees : Pairs(s, t)

(* An element list of a meta dimension goes with one state of the list it  *)
(* describes, and the next one a job makes is new.                         *)
PointerInv ==
  \A s, t \in Trees :
    /\ s.dimElems.elementList = t.dimElems.elementList => SameNormal(s, t)
    /\ s.cubeElems.elementList = t.cubeElems.elementList => SameOwners(s, t)

FreshInv ==
  \A t \in Trees, j \in Job, n \in Nat :
    <<j, n>> \in {t.dimElems.elementList, t.cubeElems.elementList} =>
      n < commitTry[j] \/ (n = commitTry[j] /\ pc[j] # "start")

(* A dimension of a copy, or of the latest tree, has a name other than in  *)
(* the tree the copy was made from only by a request for that name.        *)
GivenInv == \A j \in Job : Gives(request[j], mine[j], old[j])

AcquiredInv ==
  \A j \in Job : \A d \in DOMAIN latest.dims :
    d \notin DOMAIN old[j].dims \/ latest.dims[d].name # old[j].dims[d].name =>
      \E k \in Job :
        /\ pc[k] = "done"
        /\ GivesDimensionName(request[k]) /\ request[k].name = latest.dims[d].name
        /\ request[k].op = "dimension/rename" => request[k].id = d

CompanionsInv ==
  GoodInv /\ PairsInv /\ PointerInv /\ FreshInv /\ GivenInv /\ AcquiredInv

LEMMA ChangeEdits ==
  ASSUME TypeOK, Good(latest), NEW j \in Job, Change(j)
  PROVE  \E m : Makes(j, m) /\ Edits(m, latest, New(j), request[j])
<1>1. PICK m : Makes(j, m)
  BY ChangeMakes
<1>2. request[j] \in Request
  BY AssignmentsAssumption DEF TypeOK
<1>3. \A op, t : Works(j, op, t) => m = t
  BY <1>1 DEF Makes, Works, TypeOK
<1>4. PICK l, n, p, r : l = latest /\ n = nextId /\ p = New(j) /\ r = request[j]
  OBVIOUS
<1>5. /\ n \in [dims : Nat, cubes : Nat] /\ IsTree(l, n) /\ Good(l) /\ r \in Request
  BY <1>2, <1>4 DEF TypeOK
<1>6. Edits(m, l, p, r)
  <2>1. CASE DimensionCreate(j)
    <3>1. /\ m = AddDimension(l, p, n.dims, n.cubes, r.name, r.kind)
          /\ CanAddDimension(l, r.name, r.kind) /\ r.op = "dimension/create"
      BY <1>3, <1>4, <2>1 DEF DimensionCreate
    <3>2. r.name \in DimensionName /\ r.kind \in Kind
      BY <1>5, <3>1, RequestFields
    <3> QED
      BY <1>5, <3>1, <3>2, AddDimensionEdits
  <2>2. CASE DimensionDestroy(j)
    <3>1. /\ m = RemoveDimension(l, p, r.id) /\ CanRemoveDimension(l, r.id)
          /\ r.op = "dimension/destroy"
      BY <1>3, <1>4, <2>2 DEF DimensionDestroy
    <3> QED
      BY <1>5, <3>1, RemoveDimensionEdits
  <2>3. CASE DimensionRename(j)
    <3>1. /\ m = RenameDimension(l, p, r.id, r.name)
          /\ CanRename(l.dims, r.id, r.name) /\ r.op = "dimension/rename"
      BY <1>3, <1>4, <2>3 DEF DimensionRename
    <3>2. r.name \in DimensionName
      BY <1>5, <3>1, RequestFields
    <3> QED
      BY <1>5, <3>1, <3>2, RenameDimensionEdits
  <2>4. CASE CubeCreate(j)
    <3>1. /\ m = AddCube(l, p, n.cubes, n.cubes + 1, r.name, r.kind, r.uses)
          /\ CanAddCube(l, r.name, r.kind, r.uses) /\ r.op = "cube/create"
      BY <1>3, <1>4, <2>4 DEF CubeCreate
    <3>2. r.name \in CubeName /\ r.kind \in Kind /\ r.uses \in SUBSET Nat
      BY <1>5, <3>1, RequestFields
    <3> QED
      BY <1>5, <3>1, <3>2, AddCubeEdits
  <2>5. CASE CubeDestroy(j)
    <3>1. /\ m = RemoveCube(l, p, r.id) /\ r.id \in OwnerCubes(l)
          /\ r.op = "cube/destroy"
      BY <1>3, <1>4, <2>5 DEF CubeDestroy
    <3> QED
      BY <1>5, <3>1, RemoveCubeEdits
  <2>6. CASE CubeRename(j)
    <3>1. /\ m = RenameCube(l, p, r.id, r.name) /\ r.id \in OwnerCubes(l)
          /\ CanRename(l.cubes, r.id, r.name) /\ r.op = "cube/rename"
      BY <1>3, <1>4, <2>6 DEF CubeRename
    <3>2. r.name \in CubeName
      BY <1>5, <3>1, RequestFields
    <3> QED
      BY <1>5, <3>1, <3>2, RenameCubeEdits
  <2> QED
    BY <2>1, <2>2, <2>3, <2>4, <2>5, <2>6 DEF Change
<1> QED
  BY <1>1, <1>4, <1>6

LEMMA PairsRefl == \A t : Pairs(t, t)
BY DEF Pairs, AttributeOf, RightsOf, OwnerCubes

(* Companions in a tree s are those in the tree m that follows t.          *)
LEMMA PairsThrough ==
  ASSUME NEW next \in [dims : Nat, cubes : Nat], NEW s, IsTree(s, next),
         NEW t, IsTree(t, next), NEW m, Follows(m, t, next),
         Pairs(s, t), Pairs(t, s), Pairs(t, m), Pairs(m, t)
  PROVE  Pairs(s, m) /\ Pairs(m, s)
<1>1. /\ \A d \in DOMAIN s.dims : d < next.dims /\ d \in Nat
      /\ \A c \in DOMAIN s.cubes : c < next.cubes /\ c \in Nat
  BY DEF IsTree, IsDimensionList, IsCubeList
<1>2. /\ \A d \in DOMAIN s.dims : d \in DOMAIN m.dims => d \in DOMAIN t.dims
      /\ \A c \in DOMAIN s.cubes : c \in DOMAIN m.cubes => c \in DOMAIN t.cubes
  BY <1>1 DEF Follows
<1>3. /\ \A c, d : AttributeOf(s, c, d) => c \in DOMAIN s.cubes /\ d \in DOMAIN s.dims
      /\ \A c, d : AttributeOf(m, c, d) => c \in DOMAIN m.cubes /\ d \in DOMAIN m.dims
      /\ \A c, d : RightsOf(s, c, d) => c \in DOMAIN s.cubes /\ d \in DOMAIN s.cubes
      /\ \A c, d : RightsOf(m, c, d) => c \in DOMAIN m.cubes /\ d \in DOMAIN m.cubes
  BY DEF AttributeOf, RightsOf, OwnerCubes
<1>4. Pairs(s, m)
  <2>1. ASSUME NEW c, NEW d, AttributeOf(s, c, d)
        PROVE  /\ c \in DOMAIN m.cubes <=> d \in DOMAIN m.dims
               /\ d \in DOMAIN m.dims => AttributeOf(m, c, d)
    BY <1>2, <1>3, <2>1 DEF Pairs
  <2>2. ASSUME NEW c, NEW d, RightsOf(s, c, d)
        PROVE  /\ c \in DOMAIN m.cubes <=> d \in DOMAIN m.cubes
               /\ d \in DOMAIN m.cubes => RightsOf(m, c, d)
    BY <1>2, <1>3, <2>2 DEF Pairs
  <2> QED
    BY <2>1, <2>2 DEF Pairs
<1>5. Pairs(m, s)
  <2>1. ASSUME NEW c, NEW d, AttributeOf(m, c, d)
        PROVE  /\ c \in DOMAIN s.cubes <=> d \in DOMAIN s.dims
               /\ d \in DOMAIN s.dims => AttributeOf(s, c, d)
    BY <1>2, <1>3, <2>1 DEF Pairs
  <2>2. ASSUME NEW c, NEW d, RightsOf(m, c, d)
        PROVE  /\ c \in DOMAIN s.cubes <=> d \in DOMAIN s.cubes
               /\ d \in DOMAIN s.cubes => RightsOf(s, c, d)
    BY <1>2, <1>3, <2>2 DEF Pairs
  <2> QED
    BY <2>1, <2>2 DEF Pairs
<1> QED
  BY <1>4, <1>5

LEMMA ChangeKeeps ==
  ASSUME TypeOK, CompanionsInv, NEW j \in Job, Change(j)
  PROVE  CompanionsInv'
<1>1. PICK m, l, p : /\ Makes(j, m) /\ l = latest /\ p = New(j)
                     /\ Edits(m, l, p, request[j])
  <2>1. Good(latest)
    BY DEF CompanionsInv, GoodInv, Trees
  <2> QED
    BY <2>1, ChangeEdits
<1>2. \A t \in Trees' : t \in Trees \/ t = m
  BY <1>1 DEF Makes, Trees, TypeOK
<1>3. l \in Trees
  BY <1>1 DEF Trees
<1>4. GoodInv'
  BY <1>1, <1>2 DEF CompanionsInv, GoodInv, Edits
<1>5. PairsInv'
  <2>1. ASSUME NEW t \in Trees PROVE Pairs(t, m) /\ Pairs(m, t)
    <3>1. PICK n : n = nextId
      OBVIOUS
    <3>2. /\ n \in [dims : Nat, cubes : Nat] /\ IsTree(t, n) /\ IsTree(l, n)
          /\ Follows(m, l, n)
      BY <1>1, <1>3, <3>1, TreesTyped DEF Makes, TypeOK
    <3>3. Pairs(t, l) /\ Pairs(l, t) /\ Pairs(l, m) /\ Pairs(m, l)
      BY <1>1, <1>3 DEF CompanionsInv, PairsInv, Edits
    <3> QED
      BY <3>2, <3>3, PairsThrough
  <2> QED
    BY <1>2, <2>1, PairsRefl DEF CompanionsInv, PairsInv
<1>6. \A t \in Trees : t.dimElems.elementList # p /\ t.cubeElems.elementList # p
  <2>1. p = <<j, commitTry[j]>> /\ commitTry[j] \in Nat /\ pc[j] = "start"
    BY <1>1 DEF New, Makes, TypeOK
  <2> QED
    BY <2>1 DEF CompanionsInv, FreshInv
<1>7. PointerInv'
  <2>1. ASSUME NEW t \in Trees
        PROVE  /\ t.dimElems.elementList = m.dimElems.elementList
                    => SameNormal(t, m) /\ SameNormal(m, t)
               /\ t.cubeElems.elementList = m.cubeElems.elementList
                    => SameOwners(t, m) /\ SameOwners(m, t)
    <3>1. /\ t.dimElems.elementList = l.dimElems.elementList => SameNormal(t, l)
          /\ t.cubeElems.elementList = l.cubeElems.elementList => SameOwners(t, l)
      BY <1>3 DEF CompanionsInv, PointerInv
    <3>2. /\ t.dimElems.elementList = m.dimElems.elementList
               => m.dimElems.elementList = l.dimElems.elementList /\ SameNormal(m, l)
          /\ t.cubeElems.elementList = m.cubeElems.elementList
               => m.cubeElems.elementList = l.cubeElems.elementList /\ SameOwners(m, l)
      BY <1>1, <1>6 DEF Edits
    <3> QED
      BY <3>1, <3>2 DEF SameNormal, SameOwners
  <2>2. SameNormal(m, m) /\ SameOwners(m, m)
    BY DEF SameNormal, SameOwners
  <2> QED
    BY <1>2, <2>1, <2>2 DEF CompanionsInv, PointerInv
<1>8. FreshInv'
  <2> SUFFICES ASSUME NEW t \in Trees', NEW k \in Job, NEW n \in Nat,
                      <<k, n>> \in {t.dimElems.elementList, t.cubeElems.elementList}
               PROVE  n < commitTry'[k] \/ (n = commitTry'[k] /\ pc'[k] # "start")
    BY DEF FreshInv
  <2>1. commitTry' = commitTry /\ pc' = [pc EXCEPT ![j] = "working"]
        /\ pc \in [Job -> {"start", "working", "done", "failed"}]
    BY <1>1 DEF Makes, TypeOK
  <2>2. ASSUME NEW s \in Trees,
               <<k, n>> \in {s.dimElems.elementList, s.cubeElems.elementList}
        PROVE  n < commitTry[k] \/ (n = commitTry[k] /\ pc[k] # "start")
    BY <2>2 DEF CompanionsInv, FreshInv
  <2>3. CASE <<k, n>> = p
    <3>1. k = j /\ n = commitTry[j]
      BY <1>1, <2>3 DEF New
    <3> QED
      BY <2>1, <3>1
  <2>4. CASE <<k, n>> # p
    <3>1. \E s \in Trees : <<k, n>> \in {s.dimElems.elementList, s.cubeElems.elementList}
      BY <1>1, <1>2, <1>3, <2>4 DEF Edits
    <3> QED
      BY <2>1, <2>2, <3>1
  <2> QED
    BY <2>3, <2>4
<1>9. GivenInv'
  <2>1. ASSUME NEW k \in Job PROVE Gives(request[k], mine'[k], old'[k])
    <3>1. CASE k = j
      BY <1>1, <3>1 DEF Makes, Edits, TypeOK
    <3>2. CASE k # j
      BY <1>1, <3>2 DEF Makes, TypeOK, CompanionsInv, GivenInv
    <3> QED
      BY <3>1, <3>2
  <2> QED
    BY <1>1, <2>1 DEF GivenInv, Makes
<1>10. AcquiredInv'
  <2> SUFFICES ASSUME NEW i \in Job, NEW d \in DOMAIN latest'.dims,
                      \/ d \notin DOMAIN old'[i].dims
                      \/ latest'.dims[d].name # old'[i].dims[d].name
               PROVE  \E k \in Job :
                        /\ pc'[k] = "done"
                        /\ GivesDimensionName(request'[k])
                        /\ request'[k].name = latest'.dims[d].name
                        /\ request'[k].op = "dimension/rename" => request'[k].id = d
    BY DEF AcquiredInv
  <2>1. i # j /\ old'[i] = old[i] /\ latest' = latest /\ request' = request
    BY <1>1 DEF Makes, TypeOK
  <2>2. PICK k \in Job :
          /\ pc[k] = "done"
          /\ GivesDimensionName(request[k]) /\ request[k].name = latest.dims[d].name
          /\ request[k].op = "dimension/rename" => request[k].id = d
    BY <2>1 DEF CompanionsInv, AcquiredInv
  <2>3. pc'[k] = "done"
    BY <1>1, <2>2 DEF Makes, TypeOK
  <2> QED
    BY <2>1, <2>2, <2>3
<1> QED
  BY <1>4, <1>5, <1>7, <1>8, <1>9, <1>10 DEF CompanionsInv
-----------------------------------------------------------------------------
(* Merging brings no dimension name twice: if both did not change normal   *)
(* dimensions, what the job and others named is user information, and the  *)
(* requests for such names are apart.                                      *)
LEMMA MergeDimensionNames ==
  ASSUME TypeOK, CompanionsInv, InfoNamesApart(request), NEW j \in Job,
         pc[j] = "working", NEW R, NEW M, NEW L, NEW O, IsTree(R, nextId),
         M = mine[j], L = latest, O = old[j], IsMerge(R, M, L, O),
         SameNormal(R, M) \/ SameNormal(R, L)
  PROVE  NamesDiffer(R.dims)
<1>0. Good(M) /\ Good(L)
  BY DEF CompanionsInv, GoodInv, Trees
<1>1. NamesDiffer(M.dims) /\ NamesDiffer(L.dims)
  BY <1>0 DEF Good
<1>2. ASSUME NEW x \in DOMAIN R.dims, NEW y \in DOMAIN R.dims, x # y,
             x \in DOMAIN M.dims, R.dims[x] = M.dims[x],
             x \notin DOMAIN O.dims \/ M.dims[x].name # O.dims[x].name,
             y \in DOMAIN L.dims, R.dims[y] = L.dims[y],
             y \notin DOMAIN M.dims
               \/ (y \in DOMAIN O.dims /\ M.dims[y].name = O.dims[y].name)
      PROVE  R.dims[x].name # R.dims[y].name
  <2> SUFFICES ASSUME R.dims[x].name = R.dims[y].name PROVE FALSE
    OBVIOUS
  <2>1. /\ GivesDimensionName(request[j]) /\ request[j].name = M.dims[x].name
        /\ request[j].op = "dimension/rename" => request[j].id = x
    BY <1>2 DEF CompanionsInv, GivenInv, Gives
  <2>2. y \notin DOMAIN O.dims \/ L.dims[y].name # O.dims[y].name
    <3>1. CASE y \in DOMAIN M.dims
      BY <1>1, <1>2, <3>1 DEF NamesDiffer
    <3>2. CASE y \notin DOMAIN M.dims
      BY <1>2, <3>2 DEF IsMerge
    <3> QED
      BY <3>1, <3>2
  <2>3. PICK k \in Job :
          /\ pc[k] = "done"
          /\ GivesDimensionName(request[k]) /\ request[k].name = L.dims[y].name
          /\ request[k].op = "dimension/rename" => request[k].id = y
    BY <1>2, <2>2 DEF CompanionsInv, AcquiredInv
  <2>4. k # j /\ request[k].name = request[j].name
    BY <1>2, <2>1, <2>3
  <2>5. request[j].name[1] = "dim"
    <3>1. \/ request[j].name[1] = "dim"
          \/ {request[j].op, request[k].op} = {"dimension/rename"} /\ request[j].id = request[k].id
      BY <2>1, <2>3, <2>4 DEF InfoNamesApart
    <3>2. ~({request[j].op, request[k].op} = {"dimension/rename"} /\ request[j].id = request[k].id)
      BY <1>2, <2>1, <2>3
    <3> QED
      BY <3>1, <3>2
  <2>6. R.dims[x].name[1] = "dim" /\ R.dims[y].name[1] = "dim"
    BY <1>2, <2>1, <2>5
  <2>7. \A d \in DOMAIN R.dims : R.dims[d].name[1] = "dim" => d \in NormalDimensions(R)
    BY DEF IsTree, IsDimensionList, ValidName, NormalDimensions, Kind
  <2>8. x \in NormalDimensions(R) /\ y \in NormalDimensions(R)
    BY <2>6, <2>7
  <2> QED
    BY <1>1, <1>2, <2>8 DEF SameNormal, NamesDiffer, NormalDimensions
<1> SUFFICES ASSUME NEW x \in DOMAIN R.dims, NEW y \in DOMAIN R.dims, x # y
             PROVE  R.dims[x].name # R.dims[y].name
  BY DEF NamesDiffer
<1>3. CASE x \in DOMAIN M.dims /\ R.dims[x] = M.dims[x]
           /\ y \in DOMAIN M.dims /\ R.dims[y] = M.dims[y]
  BY <1>1, <1>3 DEF NamesDiffer
<1>4. CASE x \in DOMAIN L.dims /\ R.dims[x] = L.dims[x]
           /\ y \in DOMAIN L.dims /\ R.dims[y] = L.dims[y]
  BY <1>1, <1>4 DEF NamesDiffer
<1> QED
  BY <1>2, <1>3, <1>4 DEF IsMerge

LEMMA MergeKeeps ==
  ASSUME TypeOK, ObjectsInv, CompanionsInv, InfoNamesApart(request),
         NEW j \in Job, Merge(j)
  PROVE  CompanionsInv'
<1>1. PICK R, M, L, O : R = Merged(j) /\ M = mine[j] /\ L = latest /\ O = old[j]
  OBVIOUS
<1>2. /\ M \in Trees /\ L \in Trees /\ O \in Trees
      /\ IsTree(M, nextId) /\ IsTree(L, nextId) /\ IsTree(O, nextId)
      /\ IsTree(R, nextId)
  BY <1>1, MergedType DEF Trees, TypeOK
<1>3. IsMerge(R, M, L, O)
  BY <1>1, MergedIsMerge
<1>4. /\ pc[j] = "working" /\ ~Conflict(j) /\ latest' = R
      /\ pc' = [pc EXCEPT ![j] = "done"]
      /\ UNCHANGED <<request, nextId, commitTry, old, mine>>
  BY <1>1 DEF Merge
<1>5. \A t \in Trees' : t \in Trees \/ t = R
  BY <1>4 DEF Trees
<1>6. /\ Good(M) /\ Good(L) /\ Good(O)
      /\ \A s, t \in {M, L, O} : SameObjects(s, t)
      /\ \A s \in Trees, t \in {M, L, O} : Pairs(s, t) /\ Pairs(t, s)
  BY <1>2 DEF CompanionsInv, GoodInv, ObjectsInv, PairsInv
<1>7. \A t \in Trees : Pairs(t, R)
  BY <1>3, <1>6, MergePairs
<1>8. /\ SameNormal(L, O) => SameNormal(R, M)
      /\ SameNormal(M, O) => SameNormal(R, L)
      /\ SameOwners(L, O) => SameOwners(R, M)
      /\ SameOwners(M, O) => SameOwners(R, L)
  <2>1. SameObjects(M, L) /\ SameObjects(M, O) /\ SameObjects(L, O)
    BY <1>6
  <2> QED
    BY <1>3, <2>1, MergeNormal, MergeOwners
<1>9. \E u \in {M, L} : R.dimElems = u.dimElems /\ SameNormal(R, u)
  <2>1. R.dimElems = IF M.dimElems.elementList # O.dimElems.elementList
                     THEN M.dimElems ELSE L.dimElems
    BY <1>1 DEF Merged, MergedMeta
  <2>2. CASE M.dimElems.elementList # O.dimElems.elementList
    <3>1. L.dimElems.elementList = O.dimElems.elementList
      BY <1>1, <1>4, <2>2 DEF Conflict, MetaConflict
    <3>2. SameNormal(L, O)
      BY <1>2, <3>1 DEF CompanionsInv, PointerInv
    <3> QED
      BY <1>8, <2>1, <2>2, <3>2
  <2>3. CASE M.dimElems.elementList = O.dimElems.elementList
    <3>1. SameNormal(M, O)
      BY <1>2, <2>3 DEF CompanionsInv, PointerInv
    <3> QED
      BY <1>8, <2>1, <2>3, <3>1
  <2> QED
    BY <2>2, <2>3
<1>10. \E u \in {M, L} : R.cubeElems = u.cubeElems /\ SameOwners(R, u)
  <2>1. R.cubeElems = IF M.cubeElems.elementList # O.cubeElems.elementList
                      THEN M.cubeElems ELSE L.cubeElems
    BY <1>1 DEF Merged, MergedMeta
  <2>2. CASE M.cubeElems.elementList # O.cubeElems.elementList
    <3>1. L.cubeElems.elementList = O.cubeElems.elementList
      BY <1>1, <1>4, <2>2 DEF Conflict, MetaConflict
    <3>2. SameOwners(L, O)
      BY <1>2, <3>1 DEF CompanionsInv, PointerInv
    <3> QED
      BY <1>8, <2>1, <2>2, <3>2
  <2>3. CASE M.cubeElems.elementList = O.cubeElems.elementList
    <3>1. SameOwners(M, O)
      BY <1>2, <2>3 DEF CompanionsInv, PointerInv
    <3> QED
      BY <1>8, <2>1, <2>3, <3>1
  <2> QED
    BY <2>2, <2>3
<1>11. NamesDiffer(R.dims)
  BY <1>1, <1>2, <1>3, <1>4, <1>9, MergeDimensionNames
<1>12. \A x, y \in OwnerCubes(R) : R.cubes[x].name = R.cubes[y].name => x = y
  BY <1>6, <1>10 DEF SameOwners, OwnerCubes, Good, NamesDiffer
<1>13. /\ \A c, d : AttributeOf(R, c, d) => AttributeOf(M, c, d) \/ AttributeOf(L, c, d)
       /\ \A c, o : RightsOf(R, c, o) => RightsOf(M, c, o) \/ RightsOf(L, c, o)
       /\ Companions(R)
  BY <1>2, <1>3, <1>6, <1>7, <1>12, MergeCompanions
<1>14. Good(R)
  <2>1. NamesDiffer(R.cubes)
    <3>1. Pairs(M, L) /\ Pairs(L, M)
      BY <1>2, <1>6
    <3>2. PICK n : n = nextId
      OBVIOUS
    <3> QED
      BY <1>2, <1>6, <1>11, <1>12, <1>13, <3>1, <3>2, MergeCubeNames
  <2>2. R.dimElems.names = {R.dims[d].name : d \in NormalDimensions(R)}
    <3>1. PICK u \in {M, L} : R.dimElems = u.dimElems /\ SameNormal(R, u)
      BY <1>9
    <3>2. u.dimElems.names = {u.dims[d].name : d \in NormalDimensions(u)}
      BY <1>6 DEF Good, MetaInStep
    <3> QED
      BY <3>1, <3>2 DEF SameNormal
  <2>3. R.cubeElems.names = {R.cubes[c].name : c \in OwnerCubes(R)}
    <3>1. PICK u \in {M, L} : R.cubeElems = u.cubeElems /\ SameOwners(R, u)
      BY <1>10
    <3>2. u.cubeElems.names = {u.cubes[c].name : c \in OwnerCubes(u)}
      BY <1>6 DEF Good, MetaInStep
    <3> QED
      BY <3>1, <3>2 DEF SameOwners
  <2> QED
    BY <1>11, <1>13, <2>1, <2>2, <2>3 DEF Good, MetaInStep
<1>15. GoodInv'
  BY <1>5, <1>14 DEF CompanionsInv, GoodInv
<1>16. PairsInv'
  <2>1. \A t \in Trees : Pairs(R, t)
    <3> SUFFICES ASSUME NEW t \in Trees PROVE Pairs(R, t)
      OBVIOUS
    <3>1. Pairs(M, t) /\ Pairs(L, t)
      BY <1>6
    <3> QED
      BY <1>13, <3>1 DEF Pairs
  <2> QED
    BY <1>5, <1>7, <2>1, PairsRefl DEF CompanionsInv, PairsInv
<1>17. PointerInv'
  <2>1. ASSUME NEW t \in Trees
        PROVE  /\ t.dimElems.elementList = R.dimElems.elementList
                    => SameNormal(t, R) /\ SameNormal(R, t)
               /\ t.cubeElems.elementList = R.cubeElems.elementList
                    => SameOwners(t, R) /\ SameOwners(R, t)
    <3>1. \A u \in {M, L} :
            /\ t.dimElems.elementList = u.dimElems.elementList => SameNormal(t, u)
            /\ t.cubeElems.elementList = u.cubeElems.elementList => SameOwners(t, u)
      BY <1>2 DEF CompanionsInv, PointerInv
    <3>2. t.dimElems.elementList = R.dimElems.elementList
            => SameNormal(t, R) /\ SameNormal(R, t)
      BY <1>9, <3>1 DEF SameNormal
    <3>3. t.cubeElems.elementList = R.cubeElems.elementList
            => SameOwners(t, R) /\ SameOwners(R, t)
      BY <1>10, <3>1 DEF SameOwners
    <3> QED
      BY <3>2, <3>3
  <2>2. SameNormal(R, R) /\ SameOwners(R, R)
    BY DEF SameNormal, SameOwners
  <2> QED
    BY <1>5, <2>1, <2>2 DEF CompanionsInv, PointerInv
<1>18. FreshInv'
  <2> SUFFICES ASSUME NEW t \in Trees', NEW k \in Job, NEW n \in Nat,
                      <<k, n>> \in {t.dimElems.elementList, t.cubeElems.elementList}
               PROVE  n < commitTry'[k] \/ (n = commitTry'[k] /\ pc'[k] # "start")
    BY DEF FreshInv
  <2>1. \E s \in Trees : <<k, n>> \in {s.dimElems.elementList, s.cubeElems.elementList}
    BY <1>2, <1>5, <1>9, <1>10
  <2>2. n < commitTry[k] \/ (n = commitTry[k] /\ pc[k] # "start")
    BY <2>1 DEF CompanionsInv, FreshInv
  <2> QED
    BY <1>4, <2>2 DEF TypeOK
<1>19. GivenInv'
  BY <1>4 DEF CompanionsInv, GivenInv
<1>20. AcquiredInv'
  <2> SUFFICES ASSUME NEW i \in Job, NEW d \in DOMAIN R.dims,
                      \/ d \notin DOMAIN old[i].dims
                      \/ R.dims[d].name # old[i].dims[d].name
               PROVE  \E k \in Job :
                        /\ pc'[k] = "done"
                        /\ GivesDimensionName(request[k])
                        /\ request[k].name = R.dims[d].name
                        /\ request[k].op = "dimension/rename" => request[k].id = d
    BY <1>4 DEF AcquiredInv
  <2>1. \A k \in Job : pc[k] = "done" => pc'[k] = "done"
    BY <1>4 DEF TypeOK
  <2>2. pc'[j] = "done"
    BY <1>4 DEF TypeOK
  <2>3. CASE /\ d \in DOMAIN M.dims /\ R.dims[d] = M.dims[d]
             /\ d \notin DOMAIN O.dims \/ M.dims[d].name # O.dims[d].name
    <3>1. /\ GivesDimensionName(request[j]) /\ request[j].name = R.dims[d].name
          /\ request[j].op = "dimension/rename" => request[j].id = d
      BY <1>1, <2>3 DEF CompanionsInv, GivenInv, Gives
    <3> QED
      BY <2>2, <3>1
  <2>4. CASE d \in DOMAIN L.dims /\ R.dims[d] = L.dims[d]
    <3>1. PICK k \in Job :
            /\ pc[k] = "done"
            /\ GivesDimensionName(request[k]) /\ request[k].name = L.dims[d].name
            /\ request[k].op = "dimension/rename" => request[k].id = d
      BY <1>1, <2>4 DEF CompanionsInv, AcquiredInv
    <3> QED
      BY <2>1, <2>4, <3>1
  <2> QED
    BY <1>3, <2>3, <2>4 DEF IsMerge
<1> QED
  BY <1>15, <1>16, <1>17, <1>18, <1>19, <1>20 DEF CompanionsInv
-----------------------------------------------------------------------------
(* CompanionsInStep, companion by companion.                               *)
LEMMA CompanionsAre ==
  ASSUME NEW next, NEW t, IsTree(t, next)
  PROVE  CompanionsInStep(t) <=> Companions(t)
<1> DEFINE A(d) == [name |-> AttributeCube(t.dims[d].name), kind |-> "system",
                    uses |-> {d}]
           B(o) == [name |-> RightsCube(t.cubes[o].name), kind |-> "system",
                    uses |-> t.cubes[o].uses]
           S == DOMAIN t.cubes \ OwnerCubes(t)
<1>1. \A c \in DOMAIN t.cubes : t.cubes[c] = [name |-> t.cubes[c].name,
                                             kind |-> t.cubes[c].kind,
                                             uses |-> t.cubes[c].uses]
  BY DEF IsTree, IsCubeList
<1>2. \A c \in S, d \in DOMAIN t.dims : AttributeOf(t, c, d) <=> t.cubes[c] = A(d)
  BY <1>1 DEF AttributeOf
<1>3. \A c \in S, o \in OwnerCubes(t) : RightsOf(t, c, o) <=> t.cubes[c] = B(o)
  BY <1>1 DEF RightsOf
<1>4. /\ \A c, d : AttributeOf(t, c, d) => c \in S /\ d \in DOMAIN t.dims
      /\ \A c, o : RightsOf(t, c, o) => c \in S /\ o \in OwnerCubes(t)
  BY DEF AttributeOf, RightsOf, OwnerCubes
<1>5. CompanionsInStep(t) <=>
        {t.cubes[c] : c \in S} = {A(d) : d \in DOMAIN t.dims}
                                   \union {B(o) : o \in OwnerCubes(t)}
  BY DEF CompanionsInStep
<1> HIDE DEF A, B, S
<1>6. ASSUME CompanionsInStep(t) PROVE Companions(t)
  <2>1. ASSUME NEW d \in DOMAIN t.dims PROVE \E c : AttributeOf(t, c, d)
    <3>1. PICK c \in S : t.cubes[c] = A(d)
      BY <1>5, <1>6
    <3> QED
      BY <1>2, <3>1
  <2>2. ASSUME NEW o \in OwnerCubes(t) PROVE \E c : RightsOf(t, c, o)
    <3>1. PICK c \in S : t.cubes[c] = B(o)
      BY <1>5, <1>6
    <3> QED
      BY <1>3, <3>1
  <2>3. ASSUME NEW c \in S
        PROVE  (\E d : AttributeOf(t, c, d)) \/ (\E o : RightsOf(t, c, o))
    <3>1. (\E d \in DOMAIN t.dims : t.cubes[c] = A(d))
            \/ (\E o \in OwnerCubes(t) : t.cubes[c] = B(o))
      BY <1>5, <1>6
    <3> QED
      BY <1>2, <1>3, <3>1
  <2> QED
    BY <2>1, <2>2, <2>3 DEF Companions, S
<1>7. ASSUME Companions(t) PROVE CompanionsInStep(t)
  <2>1. ASSUME NEW d \in DOMAIN t.dims PROVE \E c \in S : t.cubes[c] = A(d)
    BY <1>2, <1>4, <1>7 DEF Companions
  <2>2. ASSUME NEW o \in OwnerCubes(t) PROVE \E c \in S : t.cubes[c] = B(o)
    BY <1>3, <1>4, <1>7 DEF Companions
  <2>3. ASSUME NEW c \in S
        PROVE  \/ \E d \in DOMAIN t.dims : t.cubes[c] = A(d)
               \/ \E o \in OwnerCubes(t) : t.cubes[c] = B(o)
    BY <1>2, <1>3, <1>4, <1>7 DEF Companions, S
  <2> QED
    BY <1>5, <2>1, <2>2, <2>3
<1> QED
  BY <1>6, <1>7

LEMMA CompanionsHold ==
  ASSUME \A q \in Assignments : InfoNamesApart(q)
  PROVE  Spec => [](TypeOK /\ CompanionsInv)
<1>1. Init => ObjectsInv /\ CompanionsInv
  <2> SUFFICES ASSUME Init PROVE ObjectsInv /\ CompanionsInv
    OBVIOUS
  <2>1. \A t \in Trees : t = Loaded
    BY DEF Init, Trees
  <2>2. Good(Loaded)
    BY LoadedAssumption, CompanionsAre DEF Consistent, Good
  <2>3. SameNormal(Loaded, Loaded) /\ SameOwners(Loaded, Loaded)
    BY DEF SameNormal, SameOwners
  <2>4. FreshInv
    BY <2>1, LoadedAssumption, JobAssumption DEF FreshInv
  <2>5. GivenInv /\ AcquiredInv
    BY DEF Init, GivenInv, AcquiredInv, Gives
  <2> QED
    BY <2>1, <2>2, <2>3, <2>4, <2>5, SameRefl, PairsRefl
    DEF ObjectsInv, CompanionsInv, GoodInv, PairsInv, PointerInv
<1>2. TypeOK /\ ObjectsInv /\ CompanionsInv /\ [Next]_vars => ObjectsInv' /\ CompanionsInv'
  <2> SUFFICES ASSUME TypeOK, ObjectsInv, CompanionsInv, [Next]_vars
               PROVE  ObjectsInv' /\ CompanionsInv'
    OBVIOUS
  <2>1. InfoNamesApart(request)
    BY DEF TypeOK
  <2>2. ASSUME NEW j \in Job, Change(j) PROVE CompanionsInv'
    BY <2>2, ChangeKeeps
  <2>3. ASSUME NEW j \in Job, Merge(j) PROVE CompanionsInv'
    BY <2>1, <2>3, MergeKeeps
  <2>4. ASSUME NEW j \in Job, MergeFails(j) \/ Throw(j) PROVE CompanionsInv'
    <3>1. /\ UNCHANGED <<request, latest, old, mine>>
          /\ pc[j] \in {"start", "working"}
          /\ \A k \in Job : k # j => pc'[k] = pc[k] /\ commitTry'[k] = commitTry[k]
          /\ \/ commitTry'[j] = commitTry[j] /\ pc'[j] = "failed"
             \/ /\ commitTry'[j] = commitTry[j] + 1 /\ pc[j] = "working"
      BY <2>4 DEF MergeFails, Throw, TypeOK
    <3>2. FreshInv'
      <4> SUFFICES ASSUME NEW t \in Trees, NEW k \in Job, NEW n \in Nat,
                          <<k, n>> \in {t.dimElems.elementList, t.cubeElems.elementList}
                   PROVE  n < commitTry'[k] \/ (n = commitTry'[k] /\ pc'[k] # "start")
        BY <3>1 DEF FreshInv, Trees
      <4>1. n < commitTry[k] \/ (n = commitTry[k] /\ pc[k] # "start")
        BY DEF CompanionsInv, FreshInv
      <4>2. commitTry[j] \in Nat /\ commitTry[k] \in Nat
        BY DEF TypeOK
      <4> QED
        BY <3>1, <4>1, <4>2
    <3>3. AcquiredInv'
      <4> SUFFICES ASSUME NEW i \in Job, NEW d \in DOMAIN latest.dims,
                          \/ d \notin DOMAIN old[i].dims
                          \/ latest.dims[d].name # old[i].dims[d].name
                   PROVE  \E k \in Job :
                            /\ pc'[k] = "done"
                            /\ GivesDimensionName(request[k])
                            /\ request[k].name = latest.dims[d].name
                            /\ request[k].op = "dimension/rename" => request[k].id = d
        BY <3>1 DEF AcquiredInv
      <4>1. PICK k \in Job :
              /\ pc[k] = "done"
              /\ GivesDimensionName(request[k]) /\ request[k].name = latest.dims[d].name
              /\ request[k].op = "dimension/rename" => request[k].id = d
        BY DEF CompanionsInv, AcquiredInv
      <4>2. pc'[k] = "done"
        BY <3>1, <4>1
      <4> QED
        BY <4>1, <4>2
    <3>4. GoodInv' /\ PairsInv' /\ PointerInv'
      <4>1. Trees' = Trees
        BY <3>1 DEF Trees
      <4> QED
        BY <4>1 DEF CompanionsInv, GoodInv, PairsInv, PointerInv
    <3>5. GivenInv'
      BY <3>1 DEF CompanionsInv, GivenInv
    <3> QED
      BY <3>2, <3>3, <3>4, <3>5 DEF CompanionsInv
  <2>5. ASSUME UNCHANGED vars PROVE CompanionsInv'
    <3>1. UNCHANGED <<request, latest, pc, commitTry, old, mine>>
      BY <2>5 DEF vars
    <3>2. FreshInv'
      BY <3>1 DEF CompanionsInv, FreshInv, Trees
    <3>3. AcquiredInv'
      BY <3>1 DEF CompanionsInv, AcquiredInv
    <3>4. GoodInv' /\ PairsInv' /\ PointerInv'
      <4>1. Trees' = Trees
        BY <3>1 DEF Trees
      <4> QED
        BY <4>1 DEF CompanionsInv, GoodInv, PairsInv, PointerInv
    <3>5. GivenInv'
      BY <3>1 DEF CompanionsInv, GivenInv
    <3> QED
      BY <3>2, <3>3, <3>4, <3>5 DEF CompanionsInv
  <2>6. ObjectsInv'
    BY ObjectsStep
  <2> QED
    BY <2>2, <2>3, <2>4, <2>5, <2>6 DEF Next, Idle
<1> QED
  BY <1>1, <1>2, TypeCorrect, PTL DEF Spec

LEMMA LatestGood ==
  ASSUME TypeOK, CompanionsInv
  PROVE  NamesUnique /\ SystemObjectsInStep
<1>1. Good(latest) /\ IsTree(latest, nextId)
  BY DEF CompanionsInv, GoodInv, Trees, TypeOK
<1>2. PICK l, n : l = latest /\ n = nextId
  OBVIOUS
<1>3. CompanionsInStep(l)
  BY <1>1, <1>2, CompanionsAre DEF Good
<1> QED
  BY <1>1, <1>2, <1>3 DEF Good, NamesUnique, SystemObjectsInStep

(* No two dimensions and no two cubes have the same name, for requests     *)
(* whose user information names are apart: any loaded database, any number *)
(* of jobs.                                                                *)
THEOREM NamesUniqueCorrect ==
  (\A q \in Assignments : InfoNamesApart(q)) => (Spec => []NamesUnique)
<1> SUFFICES ASSUME \A q \in Assignments : InfoNamesApart(q)
             PROVE  Spec => []NamesUnique
  OBVIOUS
<1>1. Spec => [](TypeOK /\ CompanionsInv)
  BY CompanionsHold
<1> QED
  BY <1>1, LatestGood, PTL

(* The meta dimensions list what the lists hold, every dimension has its   *)
(* attribute cube and every cube its rights cube, and no system cube is    *)
(* without its owner, under the same condition.                            *)
THEOREM SystemObjectsInStepCorrect ==
  (\A q \in Assignments : InfoNamesApart(q)) => (Spec => []SystemObjectsInStep)
<1> SUFFICES ASSUME \A q \in Assignments : InfoNamesApart(q)
             PROVE  Spec => []SystemObjectsInStep
  OBVIOUS
<1>1. Spec => [](TypeOK /\ CompanionsInv)
  BY CompanionsHold
<1> QED
  BY <1>1, LatestGood, PTL
-----------------------------------------------------------------------------
(* The database implements the catalogue.  A job did what it was asked for *)
(* with its copy.                                                          *)
DidInv ==
  \A j \in Job : pc[j] = "working" => Did(request[j], mine[j], old[j])

(* The identifiers of what a working job added are those of nothing else.  *)
Added(j) == [dims |-> DOMAIN mine[j].dims \ DOMAIN old[j].dims,
             cubes |-> DOMAIN mine[j].cubes \ DOMAIN old[j].cubes]

IdsInv ==
  /\ gone \in [dims : SUBSET (0 .. nextId.dims - 1),
               cubes : SUBSET (0 .. nextId.cubes - 1)]
  /\ \A j \in Job : pc[j] = "working" =>
       /\ Added(j).dims \intersect (DOMAIN latest.dims \union gone.dims) = {}
       /\ Added(j).cubes \intersect (DOMAIN latest.cubes \union gone.cubes) = {}
       /\ \A k \in Job \ {j} :
            /\ Added(j).dims \intersect DOMAIN mine[k].dims = {}
            /\ Added(j).cubes \intersect DOMAIN mine[k].cubes = {}

(* What a copy has and the latest tree has no more is gone.                *)
GoneInv ==
  \A j \in Job :
    /\ DOMAIN old[j].dims \ DOMAIN latest.dims \subseteq gone.dims
    /\ DOMAIN old[j].cubes \ DOMAIN latest.cubes \subseteq gone.cubes

(* What has another name in a copy was renamed by another job.             *)
Renamed(op, id, name) ==
  \E k \in Job : /\ pc[k] = "done" /\ request[k].op = op
                 /\ request[k].id = id /\ request[k].name = name

RenamedInv ==
  \A j \in Job :
    /\ \A d \in DOMAIN latest.dims \intersect DOMAIN old[j].dims :
         \/ latest.dims[d].name = old[j].dims[d].name
         \/ Renamed("dimension/rename", d, latest.dims[d].name)
    /\ \A c \in OwnerCubes(latest) \intersect OwnerCubes(old[j]) :
         \/ latest.cubes[c].name = old[j].cubes[c].name
         \/ Renamed("cube/rename", c, latest.cubes[c].name)

SerialInv == DidInv /\ IdsInv /\ GoneInv /\ RenamedInv
-----------------------------------------------------------------------------
(* The list R is the merge of M and L, both made from O.                   *)
IsListMerge(R, M, L, O) ==
  /\ R = [x \in DOMAIN R |-> R[x]]
  /\ \A x : x \in DOMAIN R <=>
       /\ x \in DOMAIN M \/ x \in DOMAIN L \ DOMAIN O
       /\ x \notin DOMAIN O \ DOMAIN L
  /\ \A x \in DOMAIN R :
       \/ /\ x \in DOMAIN M /\ R[x] = M[x]
          /\ x \notin DOMAIN O \/ M[x].name # O[x].name
       \/ /\ x \in DOMAIN L /\ R[x] = L[x]
          /\ \/ x \notin DOMAIN M
             \/ x \in DOMAIN O /\ M[x].name = O[x].name

IsList(L) == L = [x \in DOMAIN L |-> L[x]]

(* The merge applies what the job did to its copy to the latest list.      *)
LEMMA MergeSame ==
  ASSUME NEW R, NEW L, NEW O, IsListMerge(R, O, L, O), IsList(L)
  PROVE  R = L
<1>1. DOMAIN R = DOMAIN L
  BY DEF IsListMerge
<1>2. \A x \in DOMAIN R : R[x] = L[x]
  BY DEF IsListMerge
<1> QED
  BY <1>1, <1>2 DEF IsListMerge, IsList

LEMMA MergeWith ==
  ASSUME NEW R, NEW L, NEW O, NEW id, NEW v, id \notin DOMAIN O, id \notin DOMAIN L,
         IsListMerge(R, With(O, id, v), L, O), IsList(L)
  PROVE  R = With(L, id, v)
<1>1. PICK M : M = With(O, id, v)
  OBVIOUS
<1>2. /\ DOMAIN M = DOMAIN O \union {id} /\ M[id] = v
      /\ \A x \in DOMAIN O : M[x] = O[x]
  BY <1>1 DEF With
<1>3. DOMAIN R = DOMAIN L \union {id}
  BY <1>1, <1>2 DEF IsListMerge
<1>4. \A x \in DOMAIN R : R[x] = IF x = id THEN v ELSE L[x]
  BY <1>1, <1>2, <1>3 DEF IsListMerge
<1> QED
  BY <1>3, <1>4 DEF IsListMerge, With

LEMMA MergeWithout ==
  ASSUME NEW R, NEW L, NEW O, NEW id, id \in DOMAIN O,
         IsListMerge(R, Without(O, {id}), L, O), IsList(L)
  PROVE  R = Without(L, {id})
<1>1. PICK M : M = Without(O, {id})
  OBVIOUS
<1>2. /\ DOMAIN M = DOMAIN O \ {id} /\ \A x \in DOMAIN M : M[x] = O[x]
  BY <1>1 DEF Without
<1>3. DOMAIN R = DOMAIN L \ {id}
  BY <1>1, <1>2 DEF IsListMerge
<1>4. \A x \in DOMAIN R : R[x] = L[x]
  BY <1>1, <1>2, <1>3 DEF IsListMerge
<1> QED
  BY <1>3, <1>4 DEF IsListMerge, Without

(* A rename has its effect, unless the item is gone or had the name.       *)
LEMMA MergeRename ==
  ASSUME NEW R, NEW L, NEW O, NEW id, NEW n, id \in DOMAIN O,
         IsListMerge(R, RenamedTo(O, id, n), L, O), IsList(L),
         id \in DOMAIN L =>
           [O[id] EXCEPT !.name = n] = [L[id] EXCEPT !.name = n],
         [O[id] EXCEPT !.name = n].name = n
  PROVE  /\ id \notin DOMAIN L \/ O[id].name = n => R = L
         /\ id \in DOMAIN L /\ O[id].name # n => R = RenamedTo(L, id, n)
<1>1. PICK M : M = RenamedTo(O, id, n)
  OBVIOUS
<1>2. /\ DOMAIN M = DOMAIN O /\ M[id] = [O[id] EXCEPT !.name = n]
      /\ \A x \in DOMAIN O : x # id => M[x] = O[x]
  BY <1>1 DEF RenamedTo
<1>3. DOMAIN R = DOMAIN L
  BY <1>1, <1>2 DEF IsListMerge
<1>4. M[id].name = n
  BY <1>2
<1>5. \A x \in DOMAIN R : x # id => R[x] = L[x]
  BY <1>1, <1>2, <1>3 DEF IsListMerge
<1>6. ASSUME id \in DOMAIN L, O[id].name # n PROVE R[id] = [L[id] EXCEPT !.name = n]
  BY <1>1, <1>2, <1>3, <1>4, <1>6 DEF IsListMerge
<1>7. ASSUME id \in DOMAIN L, O[id].name = n PROVE R[id] = L[id]
  BY <1>1, <1>2, <1>3, <1>4, <1>7 DEF IsListMerge
<1>8. ASSUME id \notin DOMAIN L \/ O[id].name = n PROVE R = L
  <2>1. \A x \in DOMAIN R : R[x] = L[x]
    BY <1>3, <1>5, <1>7, <1>8
  <2> QED
    BY <1>3, <2>1 DEF IsListMerge, IsList
<1>9. ASSUME id \in DOMAIN L, O[id].name # n PROVE R = RenamedTo(L, id, n)
  <2>1. RenamedTo(L, id, n)
          = [x \in DOMAIN L |-> IF x = id THEN [L[id] EXCEPT !.name = n] ELSE L[x]]
    BY DEF RenamedTo
  <2>2. \A x \in DOMAIN R :
          R[x] = IF x = id THEN [L[id] EXCEPT !.name = n] ELSE L[x]
    BY <1>3, <1>5, <1>6, <1>9
  <2> QED
    BY <1>3, <2>1, <2>2 DEF IsListMerge
<1> QED
  BY <1>8, <1>9

(* What clients see of the merged tree is merged from what they see.       *)
LEMMA ClientMerge ==
  ASSUME NEW R, NEW M, NEW L, NEW O, IsMerge(R, M, L, O),
         SameObjects(M, L), SameObjects(M, O), SameObjects(L, O)
  PROVE  IsListMerge(ClientCubes(R), ClientCubes(M), ClientCubes(L), ClientCubes(O))
<1>1. /\ \A c \in DOMAIN M.cubes \intersect DOMAIN L.cubes : M.cubes[c].kind = L.cubes[c].kind
      /\ \A c \in DOMAIN M.cubes \intersect DOMAIN O.cubes : M.cubes[c].kind = O.cubes[c].kind
      /\ \A c \in DOMAIN L.cubes \intersect DOMAIN O.cubes : L.cubes[c].kind = O.cubes[c].kind
  BY DEF SameObjects
<1>2. /\ \A c : c \in DOMAIN R.cubes <=>
           /\ c \in DOMAIN M.cubes \/ c \in DOMAIN L.cubes \ DOMAIN O.cubes
           /\ c \notin DOMAIN O.cubes \ DOMAIN L.cubes
      /\ \A c \in DOMAIN R.cubes :
           \/ /\ c \in DOMAIN M.cubes /\ R.cubes[c] = M.cubes[c]
              /\ c \notin DOMAIN O.cubes \/ M.cubes[c].name # O.cubes[c].name
           \/ /\ c \in DOMAIN L.cubes /\ R.cubes[c] = L.cubes[c]
              /\ \/ c \notin DOMAIN M.cubes
                 \/ c \in DOMAIN O.cubes /\ M.cubes[c].name = O.cubes[c].name
  BY DEF IsMerge
<1>3. \A t : /\ DOMAIN ClientCubes(t) = OwnerCubes(t)
             /\ ClientCubes(t) = [c \in OwnerCubes(t) |-> ClientCubes(t)[c]]
             /\ \A c \in OwnerCubes(t) : ClientCubes(t)[c] = t.cubes[c]
  BY DEF ClientCubes
<1>4. \A t : \A c : c \in OwnerCubes(t) <=> c \in DOMAIN t.cubes /\ t.cubes[c].kind # "system"
  BY DEF OwnerCubes
<1>5. ASSUME NEW c
      PROVE  c \in OwnerCubes(R) <=>
               /\ c \in OwnerCubes(M) \/ c \in OwnerCubes(L) \ OwnerCubes(O)
               /\ c \notin OwnerCubes(O) \ OwnerCubes(L)
  BY <1>1, <1>2, <1>4
<1>6. ASSUME NEW c \in OwnerCubes(R)
      PROVE  \/ /\ c \in OwnerCubes(M) /\ R.cubes[c] = M.cubes[c]
                /\ c \notin OwnerCubes(O) \/ M.cubes[c].name # O.cubes[c].name
             \/ /\ c \in OwnerCubes(L) /\ R.cubes[c] = L.cubes[c]
                /\ \/ c \notin OwnerCubes(M)
                   \/ c \in OwnerCubes(O) /\ M.cubes[c].name = O.cubes[c].name
  BY <1>1, <1>2, <1>4
<1> QED
  BY <1>3, <1>5, <1>6 DEF IsListMerge
-----------------------------------------------------------------------------
RequestOps == {"dimension/create", "dimension/destroy", "dimension/rename",
               "cube/create", "cube/destroy", "cube/rename"}

LEMMA RequestHasOp ==
  ASSUME NEW r \in Request
  PROVE  r.op \in RequestOps
BY DEF Request, RequestOps

(* Only a rename gives an object of the copy another name.                 *)
LEMMA DidRenames ==
  ASSUME NEW r \in Request, NEW next, NEW t, IsTree(t, next), NEW m, Did(r, m, t)
  PROVE  /\ \A d \in DOMAIN m.dims \intersect DOMAIN t.dims :
              \/ m.dims[d].name = t.dims[d].name
              \/ r.op = "dimension/rename" /\ r.id = d /\ r.name = m.dims[d].name
         /\ \A c \in OwnerCubes(m) \intersect OwnerCubes(t) :
              \/ m.cubes[c].name = t.cubes[c].name
              \/ r.op = "cube/rename" /\ r.id = c /\ r.name = m.cubes[c].name
<1>1. r.op \in RequestOps
  BY RequestHasOp
<1>2. \A s : /\ DOMAIN ClientCubes(s) = OwnerCubes(s)
             /\ \A c \in OwnerCubes(s) : ClientCubes(s)[c] = s.cubes[c]
  BY DEF ClientCubes
<1>3. ASSUME NEW d \in DOMAIN m.dims \intersect DOMAIN t.dims
      PROVE  \/ m.dims[d].name = t.dims[d].name
             \/ r.op = "dimension/rename" /\ r.id = d /\ r.name = m.dims[d].name
  <2>1. CASE r.op = "dimension/create"
    BY <1>3, <2>1 DEF Did, With
  <2>2. CASE r.op = "dimension/destroy"
    BY <1>3, <2>2 DEF Did, Without
  <2>3. CASE r.op = "dimension/rename"
    BY <1>3, <2>3 DEF Did, RenamedTo, IsTree, IsDimensionList
  <2>4. CASE r.op \in {"cube/create", "cube/destroy", "cube/rename"}
    BY <2>4 DEF Did
  <2> QED
    BY <1>1, <2>1, <2>2, <2>3, <2>4 DEF RequestOps
<1>4. ASSUME NEW c \in OwnerCubes(m) \intersect OwnerCubes(t)
      PROVE  \/ m.cubes[c].name = t.cubes[c].name
             \/ r.op = "cube/rename" /\ r.id = c /\ r.name = m.cubes[c].name
  <2>0. PICK f, g : f = ClientCubes(m) /\ g = ClientCubes(t)
    OBVIOUS
  <2>a. /\ f[c] = m.cubes[c] /\ g[c] = t.cubes[c] /\ c \in DOMAIN f /\ c \in DOMAIN g
        /\ g[c] \in [name : CubeName \union SystemName,
                     kind : Kind \union {"system"}, uses : SUBSET Nat]
    BY <1>2, <1>4, <2>0 DEF IsTree, IsCubeList, OwnerCubes
  <2>1. CASE r.op \in {"dimension/create", "dimension/destroy", "dimension/rename"}
    BY <2>0, <2>a, <2>1 DEF Did
  <2>2. CASE r.op = "cube/create"
    <3>1. PICK id \in DOMAIN m.cubes \ DOMAIN t.cubes :
            f = With(g, id, [name |-> r.name, kind |-> r.kind, uses |-> r.uses])
      BY <2>0, <2>2 DEF Did
    <3>2. c # id
      BY <1>4, <3>1 DEF OwnerCubes
    <3> QED
      BY <2>a, <3>1, <3>2 DEF With
  <2>3. CASE r.op = "cube/destroy"
    <3>1. f = Without(g, {r.id})
      BY <2>0, <2>3 DEF Did
    <3> QED
      BY <2>a, <3>1 DEF Without
  <2>4. CASE r.op = "cube/rename"
    <3>1. f = RenamedTo(g, r.id, r.name)
      BY <2>0, <2>4 DEF Did
    <3> QED
      BY <2>a, <2>4, <3>1 DEF RenamedTo
  <2> QED
    BY <1>1, <2>1, <2>2, <2>3, <2>4 DEF RequestOps
<1> QED
  BY <1>3, <1>4

(* What was in a copy is in the latest tree or gone, so it is not what a   *)
(* working job added.                                                      *)
LEMMA AddedAreNew ==
  ASSUME IdsInv, GoneInv, NEW j \in Job, pc[j] = "working", NEW k \in Job
  PROVE  /\ Added(j).dims \intersect DOMAIN old[k].dims = {}
         /\ Added(j).cubes \intersect DOMAIN old[k].cubes = {}
BY DEF IdsInv, GoneInv

LEMMA ChangeKeepsSerial ==
  ASSUME TypeOK, CompanionsInv, SerialInv, NEW j \in Job, Change(j)
  PROVE  SerialInv'
<1>1. PICK m : Makes(j, m) /\ Did(request[j], m, latest)
  <2>1. Good(latest)
    BY DEF CompanionsInv, GoodInv, Trees
  <2> QED
    BY <2>1, ChangeEdits DEF Edits
<1>2. /\ old' = [old EXCEPT ![j] = latest] /\ mine' = [mine EXCEPT ![j] = m]
      /\ pc[j] = "start" /\ pc' = [pc EXCEPT ![j] = "working"]
      /\ UNCHANGED <<request, latest, gone>>
      /\ Follows(m, latest, nextId)
      /\ nextId' \in [dims : Nat, cubes : Nat] /\ nextId \in [dims : Nat, cubes : Nat]
      /\ nextId.dims <= nextId'.dims /\ nextId.cubes <= nextId'.cubes
  BY <1>1 DEF Makes, TypeOK
<1>3. /\ DOMAIN old = Job /\ DOMAIN mine = Job
      /\ pc \in [Job -> {"start", "working", "done", "failed"}]
  BY DEF TypeOK
<1>4. DidInv'
  BY <1>1, <1>2, <1>3 DEF SerialInv, DidInv
<1>5. IdsInv'
  <2>1. \A t \in Trees : /\ DOMAIN t.dims \subseteq 0 .. nextId.dims - 1
                         /\ DOMAIN t.cubes \subseteq 0 .. nextId.cubes - 1
    BY TreesTyped DEF IsTree, IsDimensionList, IsCubeList
  <2>2. latest \in Trees /\ \A k \in Job : mine[k] \in Trees
    BY DEF Trees
  <2>3. gone \in [dims : SUBSET (0 .. nextId'.dims - 1),
                 cubes : SUBSET (0 .. nextId'.cubes - 1)]
    <3>1. /\ 0 .. nextId.dims - 1 \subseteq 0 .. nextId'.dims - 1
          /\ 0 .. nextId.cubes - 1 \subseteq 0 .. nextId'.cubes - 1
      BY <1>2
    <3> QED
      BY <3>1 DEF SerialInv, IdsInv
  <2>4. /\ \A d \in DOMAIN m.dims : d \in DOMAIN latest.dims \/ d >= nextId.dims
        /\ \A c \in DOMAIN m.cubes : c \in DOMAIN latest.cubes \/ c >= nextId.cubes
    BY <1>2 DEF Follows
  <2>5. Added(j)' = [dims |-> DOMAIN m.dims \ DOMAIN latest.dims,
                     cubes |-> DOMAIN m.cubes \ DOMAIN latest.cubes]
    BY <1>2, <1>3 DEF Added
  <2>6. \A k \in Job \ {j} : Added(k)' = Added(k) /\ mine'[k] = mine[k] /\ pc'[k] = pc[k]
    BY <1>2, <1>3 DEF Added
  <2>7. \A d : d \in Added(j)'.dims => d \notin 0 .. nextId.dims - 1
    BY <1>2, <2>4, <2>5
  <2>8. \A c : c \in Added(j)'.cubes => c \notin 0 .. nextId.cubes - 1
    BY <1>2, <2>4, <2>5
  <2>9. /\ Added(j)'.dims \intersect (DOMAIN latest.dims \union gone.dims) = {}
        /\ Added(j)'.cubes \intersect (DOMAIN latest.cubes \union gone.cubes) = {}
        /\ \A k \in Job : /\ Added(j)'.dims \intersect DOMAIN mine[k].dims = {}
                          /\ Added(j)'.cubes \intersect DOMAIN mine[k].cubes = {}
    <3>1. gone.dims \subseteq 0 .. nextId.dims - 1 /\ gone.cubes \subseteq 0 .. nextId.cubes - 1
      BY DEF SerialInv, IdsInv
    <3> QED
      BY <2>1, <2>2, <2>7, <2>8, <3>1
  <2>10. ASSUME NEW k \in Job \ {j}, pc[k] = "working"
         PROVE  /\ Added(k).dims \intersect DOMAIN m.dims = {}
                /\ Added(k).cubes \intersect DOMAIN m.cubes = {}
    <3>1. /\ Added(k).dims \intersect DOMAIN latest.dims = {}
          /\ Added(k).cubes \intersect DOMAIN latest.cubes = {}
      BY <2>10 DEF SerialInv, IdsInv
    <3>2. /\ Added(k).dims \subseteq 0 .. nextId.dims - 1
          /\ Added(k).cubes \subseteq 0 .. nextId.cubes - 1
      BY <2>1, <2>2 DEF Added
    <3> QED
      BY <1>2, <2>4, <3>1, <3>2
  <2>11. ASSUME NEW k \in Job, pc'[k] = "working"
         PROVE  /\ Added(k)'.dims \intersect (DOMAIN latest.dims \union gone.dims) = {}
                /\ Added(k)'.cubes \intersect (DOMAIN latest.cubes \union gone.cubes) = {}
                /\ \A i \in Job \ {k} :
                     /\ Added(k)'.dims \intersect DOMAIN mine'[i].dims = {}
                     /\ Added(k)'.cubes \intersect DOMAIN mine'[i].cubes = {}
    <3>1. CASE k = j
      BY <2>6, <2>9, <3>1
    <3>2. CASE k # j
      <4>1. pc[k] = "working" /\ Added(k)' = Added(k)
        BY <2>6, <2>11, <3>2
      <4>2. ASSUME NEW i \in Job \ {k}
            PROVE  /\ Added(k).dims \intersect DOMAIN mine'[i].dims = {}
                   /\ Added(k).cubes \intersect DOMAIN mine'[i].cubes = {}
        <5>1. CASE i = j
          BY <1>2, <1>3, <2>10, <3>2, <4>1, <5>1
        <5>2. CASE i # j
          BY <2>6, <4>1, <4>2, <5>2 DEF SerialInv, IdsInv
        <5> QED
          BY <5>1, <5>2
      <4> QED
        BY <4>1, <4>2 DEF SerialInv, IdsInv
    <3> QED
      BY <3>1, <3>2
  <2> QED
    BY <1>2, <2>3, <2>11 DEF IdsInv
<1>6. GoneInv'
  BY <1>2, <1>3 DEF SerialInv, GoneInv
<1>7. RenamedInv'
  <2>1. \A op, id, name : Renamed(op, id, name) => Renamed(op, id, name)'
    <3> SUFFICES ASSUME NEW op, NEW id, NEW name, Renamed(op, id, name)
                 PROVE  Renamed(op, id, name)'
      OBVIOUS
    <3>1. PICK k \in Job : /\ pc[k] = "done" /\ request[k].op = op
                           /\ request[k].id = id /\ request[k].name = name
      BY DEF Renamed
    <3>2. pc'[k] = "done" /\ request' = request
      BY <1>2, <1>3, <3>1
    <3> QED
      BY <3>1, <3>2 DEF Renamed
  <2> SUFFICES ASSUME NEW k \in Job
               PROVE  /\ \A d \in DOMAIN latest.dims \intersect DOMAIN old'[k].dims :
                           \/ latest.dims[d].name = old'[k].dims[d].name
                           \/ Renamed("dimension/rename", d, latest.dims[d].name)
                      /\ \A c \in OwnerCubes(latest) \intersect OwnerCubes(old'[k]) :
                           \/ latest.cubes[c].name = old'[k].cubes[c].name
                           \/ Renamed("cube/rename", c, latest.cubes[c].name)
    BY <1>2, <2>1 DEF RenamedInv
  <2>2. CASE k = j
    BY <1>2, <1>3, <2>2
  <2>3. CASE k # j
    BY <1>2, <1>3, <2>3 DEF SerialInv, RenamedInv
  <2> QED
    BY <2>2, <2>3
<1> QED
  BY <1>4, <1>5, <1>6, <1>7 DEF SerialInv

LEMMA MergeKeepsSerial ==
  ASSUME TypeOK, ObjectsInv, SerialInv, NEW j \in Job, Merge(j)
  PROVE  SerialInv'
<1>1. PICK R, M, L, O : /\ R = Merged(j) /\ M = mine[j] /\ L = latest /\ O = old[j]
                        /\ IsMerge(R, M, L, O)
  BY MergedIsMerge
<1>2. /\ latest' = R /\ pc[j] = "working" /\ pc' = [pc EXCEPT ![j] = "done"]
      /\ gone'.dims = gone.dims \union (DOMAIN L.dims \ DOMAIN R.dims)
      /\ gone'.cubes = gone.cubes \union (DOMAIN L.cubes \ DOMAIN R.cubes)
      /\ gone' = [dims |-> gone.dims \union (DOMAIN L.dims \ DOMAIN R.dims),
                  cubes |-> gone.cubes \union (DOMAIN L.cubes \ DOMAIN R.cubes)]
      /\ UNCHANGED <<request, nextId, old, mine>>
  BY <1>1 DEF Merge
<1>3. /\ pc \in [Job -> {"start", "working", "done", "failed"}]
      /\ IsTree(O, nextId) /\ IsTree(L, nextId) /\ request[j] \in Request
      /\ nextId \in [dims : Nat, cubes : Nat]
  BY <1>1, AssignmentsAssumption DEF TypeOK
<1>4. DidInv'
  BY <1>2, <1>3 DEF SerialInv, DidInv
<1>5. /\ DOMAIN R.dims \subseteq DOMAIN M.dims \union DOMAIN L.dims
      /\ DOMAIN R.cubes \subseteq DOMAIN M.cubes \union DOMAIN L.cubes
  BY <1>1 DEF IsMerge
<1>6. IdsInv'
  <2>1. /\ DOMAIN L.dims \subseteq 0 .. nextId.dims - 1
        /\ DOMAIN L.cubes \subseteq 0 .. nextId.cubes - 1
    BY <1>3 DEF IsTree, IsDimensionList, IsCubeList
  <2>2. \A k \in Job : Added(k)' = Added(k)
    BY <1>2 DEF Added
  <2>3. \A k \in Job : pc'[k] = "working" => k # j /\ pc[k] = "working"
    BY <1>2, <1>3
  <2>4. gone'.dims \subseteq 0 .. nextId.dims - 1 /\ gone'.cubes \subseteq 0 .. nextId.cubes - 1
    BY <1>2, <2>1 DEF SerialInv, IdsInv
  <2>5. gone' \in [dims : SUBSET (0 .. nextId.dims - 1), cubes : SUBSET (0 .. nextId.cubes - 1)]
    BY <1>2, <2>4
  <2> QED
    BY <1>1, <1>2, <1>5, <2>2, <2>3, <2>5 DEF SerialInv, IdsInv
<1>7. GoneInv'
  BY <1>1, <1>2 DEF SerialInv, GoneInv
<1>8. RenamedInv'
  <2>1. \A op, id, name : Renamed(op, id, name) => Renamed(op, id, name)'
    <3> SUFFICES ASSUME NEW op, NEW id, NEW name, Renamed(op, id, name)
                 PROVE  Renamed(op, id, name)'
      OBVIOUS
    <3>1. PICK k \in Job : /\ pc[k] = "done" /\ request[k].op = op
                           /\ request[k].id = id /\ request[k].name = name
      BY DEF Renamed
    <3>2. pc'[k] = "done" /\ request' = request
      BY <1>2, <1>3, <3>1
    <3> QED
      BY <3>1, <3>2 DEF Renamed
  <2>2. \A op, id, name : request[j].op = op /\ request[j].id = id /\ request[j].name = name
                            => Renamed(op, id, name)'
    <3>1. pc'[j] = "done"
      BY <1>2, <1>3
    <3> QED
      BY <1>2, <3>1 DEF Renamed
  <2>3. PICK r, n : r = request[j] /\ n = nextId
    OBVIOUS
  <2>4. /\ \A d \in DOMAIN M.dims \intersect DOMAIN O.dims :
             \/ M.dims[d].name = O.dims[d].name
             \/ r.op = "dimension/rename" /\ r.id = d /\ r.name = M.dims[d].name
        /\ \A c \in OwnerCubes(M) \intersect OwnerCubes(O) :
             \/ M.cubes[c].name = O.cubes[c].name
             \/ r.op = "cube/rename" /\ r.id = c /\ r.name = M.cubes[c].name
    <3>1. Did(r, M, O) /\ IsTree(O, n) /\ r \in Request
      BY <1>1, <1>2, <1>3, <2>3 DEF SerialInv, DidInv
    <3> QED
      BY <3>1, DidRenames
  <2>5. \A k \in Job : /\ Added(j).dims \intersect DOMAIN old[k].dims = {}
                       /\ Added(j).cubes \intersect DOMAIN old[k].cubes = {}
    BY <1>2, AddedAreNew DEF SerialInv
  <2>6. /\ Added(j).dims = DOMAIN M.dims \ DOMAIN O.dims
        /\ Added(j).cubes = DOMAIN M.cubes \ DOMAIN O.cubes
    BY <1>1 DEF Added
  <2>7. ASSUME NEW k \in Job, NEW d \in DOMAIN R.dims \intersect DOMAIN old[k].dims
        PROVE  \/ R.dims[d].name = old[k].dims[d].name
               \/ Renamed("dimension/rename", d, R.dims[d].name)'
    <3>1. CASE d \in DOMAIN L.dims /\ R.dims[d] = L.dims[d]
      <4>1. \/ L.dims[d].name = old[k].dims[d].name
            \/ Renamed("dimension/rename", d, L.dims[d].name)
        BY <1>1, <2>7, <3>1 DEF SerialInv, RenamedInv
      <4> QED
        BY <2>1, <3>1, <4>1
    <3>2. CASE /\ d \in DOMAIN M.dims /\ R.dims[d] = M.dims[d]
               /\ d \notin DOMAIN O.dims \/ M.dims[d].name # O.dims[d].name
      <4>1. d \in DOMAIN O.dims
        BY <2>5, <2>6, <2>7, <3>2
      <4>2. r.op = "dimension/rename" /\ r.id = d /\ r.name = R.dims[d].name
        BY <2>4, <3>2, <4>1
      <4> QED
        BY <2>2, <2>3, <4>2
    <3> QED
      BY <1>1, <2>7, <3>1, <3>2 DEF IsMerge
  <2>8. ASSUME NEW k \in Job, NEW c \in OwnerCubes(R) \intersect OwnerCubes(old[k])
        PROVE  \/ R.cubes[c].name = old[k].cubes[c].name
               \/ Renamed("cube/rename", c, R.cubes[c].name)'
    <3>0. c \in DOMAIN R.cubes /\ R.cubes[c].kind # "system" /\ c \in DOMAIN old[k].cubes
      BY <2>8 DEF OwnerCubes
    <3>1. CASE c \in DOMAIN L.cubes /\ R.cubes[c] = L.cubes[c]
      <4>1. c \in OwnerCubes(latest)
        BY <1>1, <3>0, <3>1 DEF OwnerCubes
      <4>2. \/ L.cubes[c].name = old[k].cubes[c].name
            \/ Renamed("cube/rename", c, L.cubes[c].name)
        BY <1>1, <2>8, <4>1 DEF SerialInv, RenamedInv
      <4> QED
        BY <2>1, <3>1, <4>2
    <3>2. CASE /\ c \in DOMAIN M.cubes /\ R.cubes[c] = M.cubes[c]
               /\ c \notin DOMAIN O.cubes \/ M.cubes[c].name # O.cubes[c].name
      <4>1. c \in DOMAIN O.cubes
        BY <2>5, <2>6, <3>0, <3>2
      <4>2. c \in OwnerCubes(M) /\ c \in OwnerCubes(O)
        <5>1. SameObjects(M, O)
          BY <1>1 DEF ObjectsInv, Trees
        <5> QED
          BY <3>0, <3>2, <4>1, <5>1 DEF OwnerCubes, SameObjects
      <4>3. r.op = "cube/rename" /\ r.id = c /\ r.name = R.cubes[c].name
        BY <2>4, <3>2, <4>1, <4>2
      <4> QED
        BY <2>2, <2>3, <4>3
    <3> QED
      BY <1>1, <3>0, <3>1, <3>2 DEF IsMerge
  <2> QED
    BY <1>2, <2>7, <2>8 DEF RenamedInv
<1> QED
  BY <1>4, <1>6, <1>7, <1>8 DEF SerialInv
-----------------------------------------------------------------------------
(* What a merge has to go on: the trees R merged, M the job's, L the       *)
(* latest and O the one the job copied, and the request r.                 *)
Merges(j, R, M, L, O, r) ==
  /\ R = Merged(j) /\ M = mine[j] /\ L = latest /\ O = old[j] /\ r = request[j]
  /\ Did(r, M, O) /\ RemovesUnused(M, O)
  /\ IsListMerge(R.dims, M.dims, L.dims, O.dims)
  /\ IsListMerge(ClientCubes(R), ClientCubes(M), ClientCubes(L), ClientCubes(O))
  /\ IsMerge(R, M, L, O)
  /\ SameObjects(M, L) /\ SameObjects(M, O) /\ SameObjects(L, O)
  /\ NamesDiffer(R.dims) /\ NamesDiffer(R.cubes)
  /\ NamesDiffer(L.dims) /\ NamesDiffer(L.cubes)
  /\ IsTree(R, nextId) /\ IsTree(M, nextId) /\ IsTree(L, nextId) /\ IsTree(O, nextId)
  /\ IsList(L.dims) /\ IsList(ClientCubes(L))

LEMMA MergeMerges ==
  ASSUME TypeOK, CompanionsInv, CompanionsInv', ObjectsInv, KeptInv, SerialInv,
         NEW j \in Job, Merge(j)
  PROVE  \E R, M, L, O, r : Merges(j, R, M, L, O, r)
<1>1. PICK R, M, L, O, r : /\ R = Merged(j) /\ M = mine[j] /\ L = latest /\ O = old[j]
                           /\ r = request[j] /\ IsMerge(R, M, L, O)
  BY MergedIsMerge
<1>2. IsTree(R, nextId) /\ IsTree(M, nextId) /\ IsTree(L, nextId) /\ IsTree(O, nextId)
  BY <1>1, MergedType DEF TypeOK
<1>3. Did(r, M, O) /\ RemovesUnused(M, O)
  BY <1>1 DEF Merge, SerialInv, DidInv, KeptInv
<1>4. SameObjects(M, L) /\ SameObjects(M, O) /\ SameObjects(L, O)
  BY <1>1 DEF ObjectsInv, Trees
<1>5. IsListMerge(R.dims, M.dims, L.dims, O.dims)
  <2>1. R.dims = MergedList(M.dims, L.dims, O.dims)
    BY <1>1 DEF Merged, MergedDimensions
  <2>2. R.dims = [x \in DOMAIN R.dims |-> R.dims[x]]
    BY <1>2 DEF IsTree, IsDimensionList
  <2> QED
    BY <1>1, <2>2 DEF IsListMerge, IsMerge
<1>6. IsListMerge(ClientCubes(R), ClientCubes(M), ClientCubes(L), ClientCubes(O))
  BY <1>1, <1>4, ClientMerge
<1>7. NamesDiffer(L.dims) /\ NamesDiffer(L.cubes)
  BY <1>1 DEF CompanionsInv, GoodInv, Trees, Good
<1>8. NamesDiffer(R.dims) /\ NamesDiffer(R.cubes)
  BY <1>1 DEF CompanionsInv, GoodInv, Trees, Good, Merge
<1>9. IsList(L.dims) /\ IsList(ClientCubes(L))
  BY <1>2 DEF IsTree, IsDimensionList, IsList, ClientCubes
<1>10. Merges(j, R, M, L, O, r)
  BY <1>1, <1>2, <1>3, <1>4, <1>5, <1>6, <1>7, <1>8, <1>9 DEF Merges
<1> QED
  BY <1>10

(* If the copy keeps the objects it has, nothing goes from the latest tree.*)
LEMMA NothingGoes ==
  ASSUME TypeOK, SerialInv, NEW j \in Job, Merge(j), NEW R, NEW M, NEW L, NEW O, NEW r,
         Merges(j, R, M, L, O, r)
  PROVE  /\ DOMAIN O.dims \subseteq DOMAIN M.dims => gone'.dims = gone.dims
         /\ /\ DOMAIN O.dims \subseteq DOMAIN M.dims
            /\ DOMAIN O.cubes \subseteq DOMAIN M.cubes
            => gone' = gone
         /\ gone'.dims = gone.dims \union (DOMAIN L.dims \ DOMAIN R.dims)
         /\ gone'.cubes = gone.cubes \union (DOMAIN L.cubes \ DOMAIN R.cubes)
<1>1. gone' = [dims |-> gone.dims \union (DOMAIN L.dims \ DOMAIN R.dims),
               cubes |-> gone.cubes \union (DOMAIN L.cubes \ DOMAIN R.cubes)]
  BY DEF Merge, Merges
<1>2. gone = [dims |-> gone.dims, cubes |-> gone.cubes]
  BY DEF SerialInv, IdsInv
<1>3. DOMAIN O.dims \subseteq DOMAIN M.dims => DOMAIN L.dims \ DOMAIN R.dims = {}
  BY DEF Merges, IsMerge
<1>4. DOMAIN O.cubes \subseteq DOMAIN M.cubes => DOMAIN L.cubes \ DOMAIN R.cubes = {}
  BY DEF Merges, IsMerge
<1> QED
  BY <1>1, <1>2, <1>3, <1>4

(* The request is answered.                                                *)
LEMMA MergeAnswers ==
  ASSUME TypeOK, NEW j \in Job, Merge(j), NEW op, request[j].op = op
  PROVE  Serial!Applied(j, op)
<1>1. /\ pc[j] = "working" /\ pc' = [pc EXCEPT ![j] = "done"]
      /\ UNCHANGED request /\ pc \in [Job -> {"start", "working", "done", "failed"}]
  BY DEF Merge, TypeOK
<1>2. \A k \in Job : Outcome(k)' = IF k = j THEN "applied" ELSE Outcome(k)
  BY <1>1 DEF Outcome
<1>3. Outcome(j) = "pending"
  BY <1>1 DEF Outcome
<1> QED
  BY <1>1, <1>2, <1>3 DEF Serial!Applied

LEMMA MergeCreatesDimension ==
  ASSUME TypeOK, SerialInv, NEW j \in Job, Merge(j), NEW R, NEW M, NEW L, NEW O, NEW r,
         Merges(j, R, M, L, O, r), r.op = "dimension/create"
  PROVE  Serial!CreateDimension(j)
<1>1. PICK v : v = [name |-> r.name, kind |-> r.kind]
  OBVIOUS
<1>2. PICK id \in DOMAIN M.dims \ DOMAIN O.dims : M.dims = With(O.dims, id, v)
  BY <1>1 DEF Merges, Did
<1>3. id \notin DOMAIN L.dims /\ id \notin gone.dims
  BY <1>2 DEF Merge, Merges, SerialInv, IdsInv, Added
<1>4. R.dims = With(L.dims, id, v)
  BY <1>2, <1>3, MergeWith DEF Merges
<1>5. ClientCubes(R) = ClientCubes(L)
  BY MergeSame DEF Merges, Did
<1>6. gone' = gone
  <2>1. DOMAIN O.dims \subseteq DOMAIN M.dims /\ DOMAIN O.cubes \subseteq DOMAIN M.cubes
    BY <1>2 DEF With, Merges, Did
  <2> QED
    BY <2>1, NothingGoes
<1>7. \A x \in DOMAIN L.dims : L.dims[x].name # r.name
  <2>1. \A x \in DOMAIN L.dims : x \in DOMAIN R.dims /\ R.dims[x] = L.dims[x]
    BY <1>3, <1>4 DEF With
  <2>2. id \in DOMAIN R.dims /\ R.dims[id].name = r.name
    BY <1>1, <1>4 DEF With
  <2> QED
    BY <1>3, <2>1, <2>2 DEF Merges, NamesDiffer
<1>8. /\ latest' = R /\ latest = L /\ request[j] = r
      /\ Serial!Applied(j, "dimension/create")
  BY MergeAnswers DEF Merge, Merges
<1>9. R.dims = Serial!With(L.dims, id, [name |-> r.name, kind |-> r.kind])
      /\ id \in DOMAIN R.dims
  BY <1>1, <1>4 DEF With, Serial!With
<1> QED
  BY <1>3, <1>5, <1>6, <1>7, <1>8, <1>9 DEF Serial!CreateDimension, Serial!NameFree

LEMMA MergeDestroysDimension ==
  ASSUME TypeOK, SerialInv, NEW j \in Job, Merge(j), NEW R, NEW M, NEW L, NEW O, NEW r,
         Merges(j, R, M, L, O, r), r.op = "dimension/destroy"
  PROVE  Serial!DestroyDimension(j)
<1>1. r.id \in DOMAIN O.dims /\ M.dims = Without(O.dims, {r.id})
  BY DEF Merges, Did
<1>2. R.dims = Without(L.dims, {r.id})
  BY <1>1, MergeWithout DEF Merges
<1>3. ClientCubes(R) = ClientCubes(L)
  BY MergeSame DEF Merges, Did
<1>4. r.id \notin DOMAIN R.dims /\ r.id \notin DOMAIN M.dims
  BY <1>1, <1>2 DEF Without
<1>5. ASSUME NEW c \in OwnerCubes(L), L.cubes[c].kind = "normal"
      PROVE  r.id \notin L.cubes[c].uses
  <2>1. c \in DOMAIN L.cubes
    BY DEF OwnerCubes
  <2>2. CASE c \in DOMAIN O.cubes
    BY <1>1, <1>4, <1>5, <2>1, <2>2 DEF Merges, SameObjects, RemovesUnused
  <2>3. CASE c \notin DOMAIN O.cubes
    <3>1. L.cubes[c].uses \subseteq DOMAIN MergedDimensions(j)
      BY <2>1, <2>3 DEF Merge, Conflict, DimensionMissing, Merges
    <3>2. MergedDimensions(j) = R.dims
      BY DEF Merges, Merged
    <3> QED
      BY <1>4, <3>1, <3>2
  <2> QED
    BY <2>2, <2>3
<1>6. gone'.dims = gone.dims \union {r.id} /\ gone.cubes \subseteq gone'.cubes
  <2>1. r.id \in DOMAIN L.dims \/ r.id \in gone.dims
    BY <1>1 DEF SerialInv, GoneInv, Merges
  <2>2. DOMAIN L.dims \ DOMAIN R.dims = DOMAIN L.dims \intersect {r.id}
    BY <1>2 DEF Without
  <2> QED
    BY <2>1, <2>2, NothingGoes
<1>7. /\ latest' = R /\ latest = L /\ request[j] = r
      /\ Serial!Applied(j, "dimension/destroy")
  BY MergeAnswers DEF Merge, Merges
<1>8. R.dims = Serial!Without(L.dims, r.id)
  BY <1>2 DEF Without, Serial!Without
<1>9. \A c \in DOMAIN ClientCubes(L) : ClientCubes(L)[c].kind = "normal" =>
        r.id \notin ClientCubes(L)[c].uses
  BY <1>5 DEF ClientCubes
<1> QED
  BY <1>3, <1>6, <1>7, <1>8, <1>9 DEF Serial!DestroyDimension, Serial!Buries

LEMMA MergeRenamesDimension ==
  ASSUME TypeOK, SerialInv, NEW j \in Job, Merge(j), NEW R, NEW M, NEW L, NEW O, NEW r,
         Merges(j, R, M, L, O, r), r.op = "dimension/rename"
  PROVE  Serial!RenameDimension(j)
<1>1. r.id \in DOMAIN O.dims /\ M.dims = RenamedTo(O.dims, r.id, r.name)
  BY DEF Merges, Did
<1>2. PICK id, n : id = r.id /\ n = r.name
  BY SMTT(30)
<1>3. /\ id \in DOMAIN L.dims => [O.dims[id] EXCEPT !.name = n] = [L.dims[id] EXCEPT !.name = n]
      /\ [O.dims[id] EXCEPT !.name = n].name = n
      /\ id \in DOMAIN L.dims => [L.dims[id] EXCEPT !.name = n].name = n
      /\ id \in DOMAIN L.dims /\ L.dims[id].name = n => [L.dims[id] EXCEPT !.name = n] = L.dims[id]
  BY <1>1, <1>2 DEF Merges, SameObjects, IsTree, IsDimensionList
<1>4. /\ id \notin DOMAIN L.dims \/ O.dims[id].name = n => R.dims = L.dims
      /\ id \in DOMAIN L.dims /\ O.dims[id].name # n => R.dims = RenamedTo(L.dims, id, n)
  BY <1>1, <1>2, <1>3, MergeRename DEF Merges
<1>5. ClientCubes(R) = ClientCubes(L)
  BY MergeSame DEF Merges, Did
<1>6. gone' = gone
  <2>1. DOMAIN O.dims \subseteq DOMAIN M.dims /\ DOMAIN O.cubes \subseteq DOMAIN M.cubes
    BY <1>1 DEF RenamedTo, Merges, Did
  <2> QED
    BY <2>1, NothingGoes
<1>7. /\ latest' = R /\ latest = L /\ request[j] = r
      /\ Serial!Applied(j, "dimension/rename")
  BY MergeAnswers DEF Merge, Merges
<1>8. \/ /\ id \in DOMAIN L.dims /\ Serial!NameFreeBut(L.dims, id, n)
         /\ R.dims = [L.dims EXCEPT ![id].name = n]
      \/ id \in gone.dims /\ R.dims = L.dims
      \/ Serial!RenamedOtherwise(j) /\ R.dims = L.dims
  <2>1. CASE id \notin DOMAIN L.dims
    BY <1>1, <1>2, <1>4, <2>1 DEF SerialInv, GoneInv, Merges
  <2>2. CASE id \in DOMAIN L.dims /\ O.dims[id].name # n
    <3>1. R.dims = RenamedTo(L.dims, id, n)
      BY <1>4, <2>2
    <3>2. /\ DOMAIN R.dims = DOMAIN L.dims /\ R.dims[id].name = n
          /\ \A x \in DOMAIN L.dims : x # id => R.dims[x] = L.dims[x]
      BY <1>3, <2>2, <3>1 DEF RenamedTo
    <3>3. Serial!NameFreeBut(L.dims, id, n)
      BY <2>2, <3>2 DEF Serial!NameFreeBut, Merges, NamesDiffer
    <3> QED
      BY <2>2, <3>1, <3>3 DEF RenamedTo
  <2>3. CASE id \in DOMAIN L.dims /\ O.dims[id].name = n /\ L.dims[id].name = n
    <3>1. R.dims = [L.dims EXCEPT ![id].name = n]
      BY <1>3, <1>4, <2>3 DEF Merges, IsList
    <3>2. Serial!NameFreeBut(L.dims, id, n)
      BY <2>3 DEF Serial!NameFreeBut, Merges, NamesDiffer
    <3> QED
      BY <2>3, <3>1, <3>2
  <2>4. CASE id \in DOMAIN L.dims /\ O.dims[id].name = n /\ L.dims[id].name # n
    <3>1. Renamed("dimension/rename", id, L.dims[id].name)
      BY <1>1, <1>2, <2>4 DEF SerialInv, RenamedInv, Merges
    <3>2. PICK k \in Job : /\ pc[k] = "done" /\ request[k].op = "dimension/rename"
                           /\ request[k].id = id /\ request[k].name = L.dims[id].name
      BY <3>1 DEF Renamed
    <3>3. Serial!RenamedOtherwise(j)
      BY <1>2, <1>7, <2>4, <3>2 DEF Serial!RenamedOtherwise, Outcome
    <3> QED
      BY <1>4, <2>4, <3>3
  <2> QED
    BY <2>1, <2>2, <2>3, <2>4
<1> QED
  BY <1>2, <1>5, <1>6, <1>7, <1>8 DEF Serial!RenameDimension

LEMMA MergeCreatesCube ==
  ASSUME TypeOK, SerialInv, NEW j \in Job, Merge(j), NEW R, NEW M, NEW L, NEW O, NEW r,
         Merges(j, R, M, L, O, r), r.op = "cube/create"
  PROVE  Serial!CreateCube(j)
<1>1. PICK v : v = [name |-> r.name, kind |-> r.kind, uses |-> r.uses]
  OBVIOUS
<1>2. PICK id \in DOMAIN M.cubes \ DOMAIN O.cubes :
        ClientCubes(M) = With(ClientCubes(O), id, v)
  BY <1>1 DEF Merges, Did
<1>3. id \notin DOMAIN L.cubes /\ id \notin gone.cubes
  BY <1>2 DEF Merge, Merges, SerialInv, IdsInv, Added
<1>4. PICK F, G : F = ClientCubes(R) /\ G = ClientCubes(L)
  OBVIOUS
<1>5. \A t : /\ DOMAIN ClientCubes(t) = OwnerCubes(t) /\ OwnerCubes(t) \subseteq DOMAIN t.cubes
             /\ \A c \in OwnerCubes(t) : ClientCubes(t)[c] = t.cubes[c]
  BY DEF ClientCubes, OwnerCubes
<1>6. F = With(G, id, v)
  <2>1. id \notin DOMAIN ClientCubes(O) /\ id \notin DOMAIN ClientCubes(L)
    BY <1>2, <1>3, <1>5
  <2> QED
    BY <1>2, <1>4, <2>1, MergeWith DEF Merges
<1>7. R.dims = L.dims
  BY MergeSame DEF Merges, Did
<1>8. gone' = gone
  <2>1. DOMAIN O.dims \subseteq DOMAIN M.dims /\ DOMAIN O.cubes \subseteq DOMAIN M.cubes
    BY DEF Merges, Did
  <2> QED
    BY <2>1, NothingGoes
<1>9. \A x \in DOMAIN G : G[x].name # r.name
  <2>1. \A x \in DOMAIN G : x \in DOMAIN F /\ F[x] = G[x] /\ x # id
    BY <1>3, <1>4, <1>5, <1>6 DEF With
  <2>2. id \in DOMAIN F /\ F[id].name = r.name
    BY <1>1, <1>6 DEF With
  <2>3. \A x, y \in DOMAIN F : F[x].name = F[y].name => x = y
    BY <1>4, <1>5 DEF Merges, NamesDiffer
  <2> QED
    BY <2>1, <2>2, <2>3
<1>10. r.uses \subseteq DOMAIN L.dims
  <2>1. id \in OwnerCubes(M) /\ M.cubes[id] = v
    <3>1. id \in DOMAIN ClientCubes(M) /\ ClientCubes(M)[id] = v
      BY <1>2 DEF With
    <3> QED
      BY <1>5, <3>1
  <2>2. v.uses \subseteq DOMAIN MergedDimensions(j)
    BY <1>2, <2>1 DEF Merge, Conflict, DimensionMissing, Merges
  <2>3. MergedDimensions(j) = R.dims /\ v.uses = r.uses
    BY <1>1 DEF Merges, Merged
  <2> QED
    BY <1>7, <2>2, <2>3
<1>11. /\ latest' = R /\ latest = L /\ request[j] = r
       /\ Serial!Applied(j, "cube/create")
  BY MergeAnswers DEF Merge, Merges
<1>12. F = Serial!With(G, id, [name |-> r.name, kind |-> r.kind, uses |-> r.uses])
       /\ id \in DOMAIN F /\ id \notin DOMAIN G
  <2>1. id \notin DOMAIN G
    BY <1>3, <1>4, <1>5
  <2> QED
    BY <1>1, <1>6, <2>1 DEF With, Serial!With
<1> QED
  BY <1>3, <1>4, <1>7, <1>8, <1>9, <1>10, <1>11, <1>12
  DEF Serial!CreateCube, Serial!NameFree

LEMMA MergeDestroysCube ==
  ASSUME TypeOK, SerialInv, NEW j \in Job, Merge(j), NEW R, NEW M, NEW L, NEW O, NEW r,
         Merges(j, R, M, L, O, r), r.op = "cube/destroy"
  PROVE  Serial!DestroyCube(j)
<1>1. /\ r.id \in OwnerCubes(O)
      /\ ClientCubes(M) = Without(ClientCubes(O), {r.id})
  BY DEF Merges, Did
<1>2. \A t : /\ DOMAIN ClientCubes(t) = OwnerCubes(t) /\ OwnerCubes(t) \subseteq DOMAIN t.cubes
             /\ \A c \in OwnerCubes(t) : ClientCubes(t)[c] = t.cubes[c]
  BY DEF ClientCubes, OwnerCubes
<1>3. ClientCubes(R) = Without(ClientCubes(L), {r.id})
  <2>1. r.id \in DOMAIN ClientCubes(O)
    BY <1>1, <1>2
  <2> QED
    BY <1>1, <2>1, MergeWithout DEF Merges
<1>4. R.dims = L.dims
  BY MergeSame DEF Merges, Did
<1>5. r.id \notin DOMAIN R.cubes
  <2>1. r.id \notin OwnerCubes(M)
    BY <1>1, <1>2 DEF Without
  <2>2. r.id \notin DOMAIN M.cubes
    BY <1>1, <2>1 DEF OwnerCubes, SameObjects, Merges
  <2> QED
    BY <1>1, <2>2 DEF Merges, IsMerge, OwnerCubes
<1>6. gone'.dims = gone.dims /\ gone.cubes \union {r.id} \subseteq gone'.cubes
  <2>1. r.id \in DOMAIN L.cubes \/ r.id \in gone.cubes
    BY <1>1, <1>2 DEF SerialInv, GoneInv, Merges
  <2>2. DOMAIN O.dims \subseteq DOMAIN M.dims
    BY DEF Merges, Did
  <2> QED
    BY <1>5, <2>1, <2>2, NothingGoes
<1>7. /\ latest' = R /\ latest = L /\ request[j] = r
      /\ Serial!Applied(j, "cube/destroy")
  BY MergeAnswers DEF Merge, Merges
<1>8. PICK F, G : F = ClientCubes(R) /\ G = ClientCubes(L)
  OBVIOUS
<1>9. F = Serial!Without(G, r.id)
  BY <1>3, <1>8 DEF Without, Serial!Without
<1> QED
  BY <1>4, <1>6, <1>7, <1>8, <1>9 DEF Serial!DestroyCube, Serial!Buries

LEMMA MergeRenamesCube ==
  ASSUME TypeOK, SerialInv, NEW j \in Job, Merge(j), NEW R, NEW M, NEW L, NEW O, NEW r,
         Merges(j, R, M, L, O, r), r.op = "cube/rename"
  PROVE  Serial!RenameCube(j)
<1>1. /\ r.id \in OwnerCubes(O)
      /\ ClientCubes(M) = RenamedTo(ClientCubes(O), r.id, r.name)
  BY DEF Merges, Did
<1>2. \A t : /\ DOMAIN ClientCubes(t) = OwnerCubes(t) /\ OwnerCubes(t) \subseteq DOMAIN t.cubes
             /\ \A c \in OwnerCubes(t) : ClientCubes(t)[c] = t.cubes[c]
  BY DEF ClientCubes, OwnerCubes
<1>3. PICK F, G, H, id, n : /\ F = ClientCubes(R) /\ G = ClientCubes(L) /\ H = ClientCubes(O)
                            /\ id = r.id /\ n = r.name
  OBVIOUS
<1>4. /\ id \in DOMAIN H
      /\ id \in DOMAIN G => [H[id] EXCEPT !.name = n] = [G[id] EXCEPT !.name = n]
      /\ [H[id] EXCEPT !.name = n].name = n
      /\ id \in DOMAIN G => [G[id] EXCEPT !.name = n].name = n
      /\ id \in DOMAIN G /\ G[id].name = n => [G[id] EXCEPT !.name = n] = G[id]
  <2>1. /\ id \in DOMAIN H /\ id \in DOMAIN O.cubes /\ H[id] = O.cubes[id]
        /\ id \in DOMAIN G => id \in DOMAIN L.cubes /\ G[id] = L.cubes[id]
    BY <1>1, <1>2, <1>3
  <2>2. PICK h : h = O.cubes[id]
    OBVIOUS
  <2>3. PICK g : g = L.cubes[id]
    OBVIOUS
  <2>4. h \in [name : CubeName \union SystemName,
              kind : Kind \union {"system"}, uses : SUBSET Nat]
    BY <2>1, <2>2 DEF Merges, IsTree, IsCubeList
  <2>5. id \in DOMAIN G => g \in [name : CubeName \union SystemName,
                                kind : Kind \union {"system"}, uses : SUBSET Nat]
    BY <2>1, <2>3 DEF Merges, IsTree, IsCubeList
  <2>6. id \in DOMAIN G => g.kind = h.kind /\ g.uses = h.uses
    BY <2>1, <2>2, <2>3 DEF Merges, SameObjects
  <2> QED
    BY <2>1, <2>2, <2>3, <2>4, <2>5, <2>6
<1>5. /\ id \notin DOMAIN G \/ H[id].name = n => F = G
      /\ id \in DOMAIN G /\ H[id].name # n => F = RenamedTo(G, id, n)
  <2>1. IsListMerge(F, RenamedTo(H, id, n), G, H) /\ IsList(G)
    BY <1>1, <1>3 DEF Merges
  <2> QED
    BY <1>4, <2>1, MergeRename
<1>6. R.dims = L.dims
  BY MergeSame DEF Merges, Did
<1>7. gone' = gone
  <2>1. DOMAIN O.dims \subseteq DOMAIN M.dims /\ DOMAIN O.cubes \subseteq DOMAIN M.cubes
    BY DEF Merges, Did
  <2> QED
    BY <2>1, NothingGoes
<1>8. /\ latest' = R /\ latest = L /\ request[j] = r
      /\ Serial!Applied(j, "cube/rename")
  BY MergeAnswers DEF Merge, Merges
<1>9. /\ \A x, y \in DOMAIN F : F[x].name = F[y].name => x = y
      /\ \A x, y \in DOMAIN G : G[x].name = G[y].name => x = y
  BY <1>2, <1>3 DEF Merges, NamesDiffer
<1>10. \/ /\ id \in DOMAIN G /\ Serial!NameFreeBut(G, id, n)
          /\ F = [G EXCEPT ![id].name = n]
       \/ id \in gone.cubes /\ F = G
       \/ Serial!RenamedOtherwise(j) /\ F = G
  <2>1. CASE id \notin DOMAIN G
    <3>1. id \notin DOMAIN L.cubes
      <4>1. id \in DOMAIN O.cubes /\ O.cubes[id].kind # "system"
        BY <1>1, <1>3 DEF OwnerCubes
      <4>2. ~(id \in DOMAIN L.cubes /\ L.cubes[id].kind # "system")
        BY <1>2, <1>3, <2>1 DEF OwnerCubes
      <4> QED
        BY <4>1, <4>2 DEF Merges, SameObjects
    <3>2. id \in gone.cubes
      BY <1>1, <1>2, <1>3, <3>1 DEF SerialInv, GoneInv, Merges
    <3> QED
      BY <1>5, <2>1, <3>2
  <2>2. CASE id \in DOMAIN G /\ H[id].name # n
    <3>1. F = RenamedTo(G, id, n)
      BY <1>5, <2>2
    <3>2. /\ DOMAIN F = DOMAIN G /\ F[id].name = n
          /\ \A x \in DOMAIN G : x # id => F[x] = G[x]
      BY <1>4, <2>2, <3>1 DEF RenamedTo
    <3>3. Serial!NameFreeBut(G, id, n)
      BY <1>9, <2>2, <3>2 DEF Serial!NameFreeBut
    <3> QED
      BY <2>2, <3>1, <3>3 DEF RenamedTo
  <2>3. CASE id \in DOMAIN G /\ H[id].name = n /\ G[id].name = n
    <3>1. IsList(G)
      BY <1>3 DEF Merges
    <3>2. F = [G EXCEPT ![id].name = n]
      BY <1>4, <1>5, <2>3, <3>1 DEF IsList
    <3>3. Serial!NameFreeBut(G, id, n)
      BY <1>9, <2>3 DEF Serial!NameFreeBut
    <3> QED
      BY <2>3, <3>2, <3>3
  <2>4. CASE id \in DOMAIN G /\ H[id].name = n /\ G[id].name # n
    <3>1. /\ id \in OwnerCubes(latest) /\ id \in OwnerCubes(old[j])
          /\ G[id] = latest.cubes[id] /\ H[id] = old[j].cubes[id]
      BY <1>1, <1>2, <1>3, <2>4 DEF Merges
    <3>2. Renamed("cube/rename", id, G[id].name)
      BY <2>4, <3>1 DEF SerialInv, RenamedInv
    <3>3. PICK k \in Job : /\ pc[k] = "done" /\ request[k].op = "cube/rename"
                           /\ request[k].id = id /\ request[k].name = G[id].name
      BY <3>2 DEF Renamed
    <3>4. Serial!RenamedOtherwise(j)
      BY <1>3, <1>8, <2>4, <3>3 DEF Serial!RenamedOtherwise, Outcome
    <3> QED
      BY <1>5, <2>4, <3>4
  <2> QED
    BY <2>1, <2>2, <2>3, <2>4
<1> QED
  BY <1>3, <1>6, <1>7, <1>8, <1>10 DEF Serial!RenameCube

LEMMA MergeIsRequest ==
  ASSUME TypeOK, CompanionsInv, CompanionsInv', ObjectsInv, KeptInv, SerialInv,
         NEW j \in Job, Merge(j)
  PROVE  Serial!Next
<1>1. PICK R, M, L, O, r : Merges(j, R, M, L, O, r)
  BY MergeMerges
<1>2. r.op \in RequestOps
  <2>1. r \in Request
    BY <1>1, AssignmentsAssumption DEF Merges, TypeOK
  <2> QED
    BY <2>1, RequestHasOp
<1>3. CASE r.op = "dimension/create"
  BY <1>1, <1>3, MergeCreatesDimension DEF Serial!Next
<1>4. CASE r.op = "dimension/destroy"
  BY <1>1, <1>4, MergeDestroysDimension DEF Serial!Next
<1>5. CASE r.op = "dimension/rename"
  BY <1>1, <1>5, MergeRenamesDimension DEF Serial!Next
<1>6. CASE r.op = "cube/create"
  BY <1>1, <1>6, MergeCreatesCube DEF Serial!Next
<1>7. CASE r.op = "cube/destroy"
  BY <1>1, <1>7, MergeDestroysCube DEF Serial!Next
<1>8. CASE r.op = "cube/rename"
  BY <1>1, <1>8, MergeRenamesCube DEF Serial!Next
<1> QED
  BY <1>2, <1>3, <1>4, <1>5, <1>6, <1>7, <1>8 DEF RequestOps

(* A job that neither merges nor ends is not seen.                         *)
LEMMA OthersAnswer ==
  ASSUME TypeOK, NEW j \in Job, UNCHANGED <<request, latest, gone>>,
         pc[j] \in {"start", "working"}, NEW p \in {"start", "working", "failed"},
         pc' = [pc EXCEPT ![j] = p]
  PROVE  [Serial!Next]_(Serial!vars)
<1>0. pc \in [Job -> {"start", "working", "done", "failed"}]
  BY DEF TypeOK
<1>1. \A k \in Job : k # j => Outcome(k)' = Outcome(k)
  BY <1>0 DEF Outcome
<1>2. Outcome(j) = "pending"
  BY <1>0 DEF Outcome
<1>3. UNCHANGED <<ClientCubes(latest), latest.dims>>
  OBVIOUS
<1>4. CASE p = "failed"
  <2>1. Outcome(j)' = "refused"
    BY <1>0, <1>4 DEF Outcome
  <2> QED
    BY <1>1, <1>2, <1>3, <2>1 DEF Serial!Next, Serial!Refuse
<1>5. CASE p # "failed"
  <2>1. Outcome(j)' = Outcome(j)
    BY <1>0, <1>5 DEF Outcome
  <2>2. UNCHANGED [k \in Job |-> Outcome(k)]
    BY <1>1, <2>1
  <2> QED
    BY <1>3, <2>2 DEF Serial!vars
<1> QED
  BY <1>4, <1>5

LEMMA SerialStep ==
  ASSUME TypeOK, CompanionsInv, CompanionsInv', ObjectsInv, KeptInv, SerialInv,
         [Next]_vars
  PROVE  SerialInv' /\ [Serial!Next]_(Serial!vars)
<1>1. ASSUME NEW j \in Job, Change(j)
      PROVE  SerialInv' /\ [Serial!Next]_(Serial!vars)
  <2>1. SerialInv'
    BY <1>1, ChangeKeepsSerial
  <2>2. PICK m : Makes(j, m)
    BY <1>1, ChangeMakes
  <2>3. [Serial!Next]_(Serial!vars)
    BY <2>2, OthersAnswer DEF Makes
  <2> QED
    BY <2>1, <2>3
<1>2. ASSUME NEW j \in Job, Merge(j)
      PROVE  SerialInv' /\ [Serial!Next]_(Serial!vars)
  BY <1>2, MergeKeepsSerial, MergeIsRequest
<1>3. ASSUME NEW j \in Job, MergeFails(j) \/ Throw(j)
      PROVE  SerialInv' /\ [Serial!Next]_(Serial!vars)
  <2>1. /\ pc[j] \in {"start", "working"}
        /\ UNCHANGED <<request, latest, nextId, old, mine, gone>>
    BY <1>3 DEF MergeFails, Throw
  <2>2. PICK p \in {"start", "failed"} : pc' = [pc EXCEPT ![j] = p]
    BY <1>3 DEF MergeFails, Throw
  <2>3. pc \in [Job -> {"start", "working", "done", "failed"}]
    BY DEF TypeOK
  <2>4. \A k \in Job : /\ pc'[k] = "working" => pc[k] = "working"
                       /\ pc'[k] = "done" <=> pc[k] = "done"
    BY <2>1, <2>2, <2>3
  <2>5. DidInv' /\ GoneInv'
    BY <2>1, <2>4 DEF SerialInv, DidInv, GoneInv
  <2>6. IdsInv'
    BY <2>1, <2>4 DEF SerialInv, IdsInv, Added
  <2>7. RenamedInv'
    BY <2>1, <2>4 DEF SerialInv, RenamedInv, Renamed
  <2>8. [Serial!Next]_(Serial!vars)
    BY <2>1, <2>2, OthersAnswer
  <2> QED
    BY <2>5, <2>6, <2>7, <2>8 DEF SerialInv
<1>4. ASSUME UNCHANGED vars
      PROVE  SerialInv' /\ [Serial!Next]_(Serial!vars)
  <2>1. SerialInv'
    BY <1>4 DEF vars, SerialInv, DidInv, IdsInv, Added, GoneInv, RenamedInv, Renamed
  <2>2. UNCHANGED Serial!vars
    BY <1>4 DEF vars, Serial!vars, Outcome
  <2> QED
    BY <2>1, <2>2
<1> QED
  BY <1>1, <1>2, <1>3, <1>4 DEF Next, Idle

(* Requests are serializable: each commit has the effect of its request on *)
(* the latest lists, as the catalogue promises it, under the same          *)
(* condition on names of user information.                                 *)
THEOREM ImplementsCatalogueCorrect ==
  (\A q \in Assignments : InfoNamesApart(q)) => (Spec => ImplementsCatalogue)
<1> SUFFICES ASSUME \A q \in Assignments : InfoNamesApart(q)
             PROVE  Spec => ImplementsCatalogue
  OBVIOUS
<1>1. Init => SerialInv
  <2> SUFFICES ASSUME Init PROVE SerialInv
    OBVIOUS
  <2>1. \A j \in Job : pc[j] = "start" /\ old[j] = latest
    BY DEF Init
  <2>2. gone \in [dims : SUBSET (0 .. nextId.dims - 1), cubes : SUBSET (0 .. nextId.cubes - 1)]
    BY DEF Init
  <2> QED
    BY <2>1, <2>2 DEF SerialInv, DidInv, IdsInv, GoneInv, RenamedInv
<1>2. Init => Serial!Init
  <2> SUFFICES ASSUME Init PROVE Serial!Init
    OBVIOUS
  <2>1. [j \in Job |-> Outcome(j)] = [j \in Job |-> "pending"]
    BY DEF Init, Outcome
  <2> QED
    BY <2>1 DEF Init, Serial!Init
<1>3. Spec => [](TypeOK /\ CompanionsInv /\ ObjectsInv /\ KeptInv)
  BY CompanionsHold, KeptHold, PTL
<1>4. /\ TypeOK /\ CompanionsInv /\ ObjectsInv /\ KeptInv
      /\ CompanionsInv' /\ SerialInv /\ [Next]_vars
      => SerialInv' /\ [Serial!Next]_(Serial!vars)
  BY SerialStep
<1> QED
  BY <1>1, <1>2, <1>3, <1>4, PTL DEF Spec, ImplementsCatalogue, Serial!Spec
=============================================================================
