---------------------------- MODULE MCValueCache ----------------------------
(* An instance of ValueCache: a cube with a rule that reads a cube with a  *)
(* rule that reads a third one.                                            *)
EXTENDS ValueCache, TLC

CONSTANTS plan, rates, base

MCCube == {plan, rates, base}
MCListed == <<plan, rates, base>>
MCSource == [c \in MCCube |-> CASE c = plan -> rates [] c = rates -> base [] OTHER -> None]

Symmetry == Permutations(Reader) \cup Permutations(Writer) \cup Permutations(Area)
=============================================================================
