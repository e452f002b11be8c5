---------------------------- MODULE MCHierarchy ----------------------------
(* Instances of Hierarchy for TLC.                                         *)
EXTENDS Hierarchy, TLC

CONSTANTS e1, e2, e3, e4

Symmetry == Permutations(Element)

(* Numeric elements, one of them possibly a string element, or all but two *)
(* still to be created.                                                    *)
MCInitial == {[e \in Element |-> "NUMERIC"]}
             \union {[e \in Element |-> IF e = s THEN "STRING" ELSE "NUMERIC"] :
                        s \in Element}
             \union {[e \in Element |-> IF e \in S THEN "NUMERIC" ELSE "UNDEFINED"] :
                        S \in {T \in SUBSET Element : Cardinality(T) = 2}}

(* One element, or two in any order.                                       *)
MCBatches == {<<a>> : a \in Element}
             \union {<<p[1], p[2]>> : p \in {q \in Element \X Element : q[1] # q[2]}}
=============================================================================
