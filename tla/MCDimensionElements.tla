------------------------ MODULE MCDimensionElements ------------------------
(* Instances of DimensionElements for TLC.                                 *)
EXTENDS DimensionElements

CONSTANTS alpha, beta, gamma, j1, j2, j3

MCLoaded == <<alpha, beta>>

Symmetry == Permutations(Job)

Creates == {[op |-> "create", name |-> n] : n \in {alpha, gamma}}
Renames == {[op |-> "rename", id |-> i, name |-> n] : i \in {0}, n \in {beta, gamma}}
Moves == {[op |-> "move", id |-> 1, position |-> 1],
          [op |-> "move", id |-> 0, position |-> 2]}
Destroys == {[op |-> "destroy", ids |-> <<0>>],
             [op |-> "destroy_bulk", ids |-> <<1, 0>>],
             [op |-> "destroy_bulk", ids |-> <<2, 1>>]}
Clears == {[op |-> "clear"]}
DimensionRenames == {[op |-> "rename_dimension", name |-> n] : n \in {beta, gamma}}
BulkMoves == {[op |-> "move_bulk", moves |-> <<<<0, 2>>>>]}

(* Every change of elements against every other.                           *)
MCElements == [Job -> Creates \union Renames \union Moves
                        \union Destroys \union Clears]

(* The dimension is renamed while elements move, one job in bulk.          *)
MCBulk == {r \in [Job -> DimensionRenames \union BulkMoves] :
             Cardinality({j \in Job : r[j] \in BulkMoves}) = 1}

(* The dimension is renamed while elements move; no two renames to one     *)
(* name, since the second would find nothing to change.                    *)
MCMoves == {r \in [Job -> DimensionRenames \union Moves] :
              \A j, k \in Job : r[j] = r[k] /\ r[j] \in DimensionRenames => j = k}

(* What a passing run takes on.                                            *)
MCAll == MCElements \union MCBulk \union MCMoves

=============================================================================
