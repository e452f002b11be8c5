------------------------------ MODULE Catalogue ------------------------------
(***************************************************************************)
(* What a database promises about its dimensions and cubes: unique names,  *)
(* identifiers that are never given out again, no cube without its         *)
(* dimensions, and every request carried out at once or refused.           *)
(*                                                                         *)
(* Two weaknesses are part of the promise: the rename of an object that    *)
(* another job removed meanwhile is acknowledged and has no effect, and so *)
(* is the rename to the name the object already had when the job looked,   *)
(* though another job gave it a third name meanwhile.                      *)
(***************************************************************************)
EXTENDS Integers, FiniteSets

CONSTANTS Job, LoadedDims, LoadedCubes

VARIABLES
  request,   \* what each job was asked to do
  dims,      \* dimension id -> [name, kind]
  cubes,     \* cube id -> [name, kind, uses]
  gone,      \* [dims, cubes]: ids that are not given out again
  outcome    \* "pending", "applied" or "refused"

vars == <<request, dims, cubes, gone, outcome>>

With(f, k, v) == [x \in DOMAIN f \union {k} |-> IF x = k THEN v ELSE f[x]]
Without(f, k) == [x \in DOMAIN f \ {k} |-> f[x]]
NameFree(f, n) == \A x \in DOMAIN f : f[x].name # n
NameFreeBut(f, k, n) == \A x \in DOMAIN f \ {k} : f[x].name # n
-----------------------------------------------------------------------------
Init ==
  /\ dims = LoadedDims
  /\ cubes = LoadedCubes
  /\ gone = [dims |-> {}, cubes |-> {}]
  /\ outcome = [j \in Job |-> "pending"]

(* Another job renamed the object to another name than j would.            *)
RenamedOtherwise(j) ==
  \E k \in Job :
    /\ outcome[k] = "applied" /\ request[k].op = request[j].op
    /\ request[k].id = request[j].id /\ request[k].name # request[j].name

Applied(j, op) ==
  /\ outcome[j] = "pending"
  /\ outcome' = [outcome EXCEPT ![j] = "applied"]
  /\ request[j].op = op
  /\ UNCHANGED request

(* These identifiers are not given out again, and, of cubes, those of      *)
(* system cubes that are not shown here.                                   *)
Buries(D, C) ==
  /\ gone'.dims = gone.dims \union D
  /\ gone.cubes \union C \subseteq gone'.cubes

CreateDimension(j) ==
  LET r == request[j] IN
  /\ Applied(j, "dimension/create")
  /\ NameFree(dims, r.name)
  /\ \E id \in DOMAIN dims' \ (DOMAIN dims \union gone.dims) :
       dims' = With(dims, id, [name |-> r.name, kind |-> r.kind])
  /\ UNCHANGED <<cubes, gone>>

DestroyDimension(j) ==
  LET id == request[j].id IN
  /\ Applied(j, "dimension/destroy")
  /\ \A c \in DOMAIN cubes : cubes[c].kind = "normal" => id \notin cubes[c].uses
  /\ dims' = Without(dims, id)
  /\ Buries({id}, {})
  /\ UNCHANGED cubes

RenameDimension(j) ==
  LET r == request[j] IN
  /\ Applied(j, "dimension/rename")
  /\ \/ /\ r.id \in DOMAIN dims
        /\ NameFreeBut(dims, r.id, r.name)
        /\ dims' = [dims EXCEPT ![r.id].name = r.name]
     \/ r.id \in gone.dims /\ UNCHANGED dims
     \/ RenamedOtherwise(j) /\ UNCHANGED dims
  /\ UNCHANGED <<cubes, gone>>

CreateCube(j) ==
  LET r == request[j] IN
  /\ Applied(j, "cube/create")
  /\ NameFree(cubes, r.name)
  /\ r.uses \subseteq DOMAIN dims
  /\ \E id \in DOMAIN cubes' \ (DOMAIN cubes \union gone.cubes) :
       cubes' = With(cubes, id,
                     [name |-> r.name, kind |-> r.kind, uses |-> r.uses])
  /\ UNCHANGED <<dims, gone>>

DestroyCube(j) ==
  LET id == request[j].id IN
  /\ Applied(j, "cube/destroy")
  /\ cubes' = Without(cubes, id)
  /\ Buries({}, {id})
  /\ UNCHANGED dims

RenameCube(j) ==
  LET r == request[j] IN
  /\ Applied(j, "cube/rename")
  /\ \/ /\ r.id \in DOMAIN cubes
        /\ NameFreeBut(cubes, r.id, r.name)
        /\ cubes' = [cubes EXCEPT ![r.id].name = r.name]
     \/ r.id \in gone.cubes /\ UNCHANGED cubes
     \/ RenamedOtherwise(j) /\ UNCHANGED cubes
  /\ UNCHANGED <<dims, gone>>

Refuse(j) ==
  /\ outcome[j] = "pending"
  /\ outcome' = [outcome EXCEPT ![j] = "refused"]
  /\ UNCHANGED <<request, dims, cubes, gone>>

Next ==
  \E j \in Job :
    \/ CreateDimension(j) \/ DestroyDimension(j) \/ RenameDimension(j)
    \/ CreateCube(j) \/ DestroyCube(j) \/ RenameCube(j) \/ Refuse(j)

Spec == Init /\ [][Next]_vars
=============================================================================
