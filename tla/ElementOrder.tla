---------------------------- MODULE ElementOrder ----------------------------
(***************************************************************************)
(* What a dimension promises its clients: an ordered list of elements with *)
(* unique names and identifiers that are never given out again until the   *)
(* dimension is cleared.  Every request is carried out at once, on the     *)
(* list as it then is, or refused without a trace.                         *)
(*                                                                         *)
(* element/move_bulk has no action here: it is not atomic in the code.     *)
(***************************************************************************)
EXTENDS Integers, Sequences, SequencesExt, Sublist

CONSTANTS Job, LoadedOrder, LoadedName

VARIABLES
  request,    \* what each job was asked to do
  order,      \* the elements [id, name], by position
  name,       \* the name of the dimension
  used,       \* identifiers given out since the last clear
  outcome     \* "pending", "applied" or "refused"

vars == <<request, order, name, used, outcome>>

Ids == {e.id : e \in Range(order)}
Names == {e.name : e \in Range(order)}
PositionOf(id) == CHOOSE i \in DOMAIN order : order[i].id = id
-----------------------------------------------------------------------------
Init ==
  /\ order = LoadedOrder
  /\ name = LoadedName
  /\ used = Ids
  /\ outcome = [j \in Job |-> "pending"]

Applied(j, op) ==
  /\ outcome[j] = "pending"
  /\ outcome' = [outcome EXCEPT ![j] = "applied"]
  /\ request[j].op \in op
  /\ UNCHANGED request

Create(j) ==
  /\ Applied(j, {"create"})
  /\ order' # <<>>
  /\ request[j].name \notin Names
  /\ LET e == Last(order') IN
       /\ e.id \notin used
       /\ order' = Append(order, [id |-> e.id, name |-> request[j].name])
       /\ used' = used \union {e.id}
  /\ UNCHANGED name

Rename(j) ==
  LET r == request[j]
      i == PositionOf(r.id) IN
  /\ Applied(j, {"rename"})
  /\ r.id \in Ids
  /\ r.name \in Names => order[i].name = r.name
  /\ order' = [order EXCEPT ![i].name = r.name]
  /\ UNCHANGED <<name, used>>

Move(j) ==
  LET r == request[j]
      i == PositionOf(r.id) IN
  /\ Applied(j, {"move"})
  /\ r.id \in Ids
  /\ r.position \in DOMAIN order
  /\ order' = InsertAt(RemoveAt(order, i), r.position, order[i])
  /\ UNCHANGED <<name, used>>

Destroy(j) ==
  /\ Applied(j, {"destroy", "destroy_bulk"})
  /\ order' = Sublist(order, {i \in DOMAIN order :
                                order[i].id \notin Range(request[j].ids)})
  /\ UNCHANGED <<name, used>>

Clear(j) ==
  /\ Applied(j, {"clear"})
  /\ order' = <<>>
  /\ used' = {}
  /\ UNCHANGED name

RenameDimension(j) ==
  /\ Applied(j, {"rename_dimension"})
  /\ name' = request[j].name
  /\ UNCHANGED <<order, used>>

Refuse(j) ==
  /\ outcome[j] = "pending"
  /\ outcome' = [outcome EXCEPT ![j] = "refused"]
  /\ UNCHANGED <<request, order, name, used>>

Next ==
  \E j \in Job :
    \/ Create(j) \/ Rename(j) \/ Move(j) \/ Destroy(j)
    \/ Clear(j) \/ RenameDimension(j) \/ Refuse(j)

Spec == Init /\ [][Next]_vars
=============================================================================
