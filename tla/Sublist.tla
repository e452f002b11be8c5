------------------------------ MODULE Sublist ------------------------------
(* What is left of a sequence when some of its positions are given up.     *)
EXTENDS Integers, Sequences, FiniteSets

(* The position among those of K that k gets when the others close up.     *)
Rank(K, k) == Cardinality({i \in K : i <= k})

(* The elements of seq at the positions K, in their order.                 *)
Sublist(seq, K) ==
  [i \in 1 .. Cardinality(K) |-> seq[CHOOSE k \in K : Rank(K, k) = i]]
=============================================================================
