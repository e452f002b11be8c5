------------------------------ MODULE MCCatalog ------------------------------
(* Instances of Catalog for TLC.                                           *)
EXTENDS Catalog, TLC

CONSTANTS alpha, beta, gamma, j1, j2, j3

Symmetry == Permutations(Job)

Empty == [dims |-> [x \in {} |-> 0], cubes |-> [x \in {} |-> 0],
          dimElems |-> [elementList |-> <<NoJob, 0>>, names |-> {}],
          cubeElems |-> [elementList |-> <<NoJob, 0>>, names |-> {}]]

(* Two dimensions, the second for user information, and a cube on the      *)
(* first.                                                                  *)
MCLoaded ==
  LET p == <<NoJob, 0>>
      t1 == AddDimension(Empty, p, 0, 0, <<"dim", alpha>>, "normal")
      t2 == AddDimension(t1, p, 1, 1, <<"##dim", alpha>>, "info")
  IN AddCube(t2, p, 2, 3, <<"cube", alpha>>, "normal", {0})

MCFirstId == [dims |-> 2, cubes |-> 4]

DimensionCreates ==
  {[op |-> "dimension/create", name |-> <<"dim", beta>>, kind |-> "normal"]}
InfoDimensionCreates ==
  {[op |-> "dimension/create", name |-> <<"##dim", beta>>, kind |-> "info"]}
DimensionDestroys == {[op |-> "dimension/destroy", id |-> d] : d \in 0 .. 1}
DimensionRenames ==
  {[op |-> "dimension/rename", id |-> 0, name |-> <<"dim", alpha>>],
   [op |-> "dimension/rename", id |-> 0, name |-> <<"dim", beta>>],
   [op |-> "dimension/rename", id |-> 1, name |-> <<"##dim", gamma>>]}
CubeCreates ==
  {[op |-> "cube/create", name |-> <<"cube", beta>>, kind |-> "normal",
    uses |-> u] : u \in {{0}, {1}}}
InfoCubeCreates ==
  {[op |-> "cube/create", name |-> <<"##cube", beta>>, kind |-> "info",
    uses |-> {1}]}
CubeDestroys == {[op |-> "cube/destroy", id |-> 2]}
CubeRenames ==
  {[op |-> "cube/rename", id |-> 2, name |-> <<"cube", n>>] : n \in {alpha, beta}}

(* Everything against everything, but for two jobs that create the user    *)
(* information dimension of that name.                                     *)
MCAll == {r \in [Job -> DimensionCreates \union InfoDimensionCreates
                          \union DimensionDestroys \union DimensionRenames
                          \union CubeCreates \union InfoCubeCreates
                          \union CubeDestroys \union CubeRenames] :
            InfoNamesApart(r)}

=============================================================================
