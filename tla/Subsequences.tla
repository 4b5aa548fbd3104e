---------------------------- MODULE Subsequences ----------------------------
(***************************************************************************)
(* What remains of a sequence when a pass over it keeps some elements and  *)
(* drops the others, in terms of the positions it keeps.                   *)
(*                                                                         *)
(* SelectSeq computes the same by recursion.  Stated by positions, that    *)
(* nothing is lost, duplicated or reordered can be proved.                 *)
(***************************************************************************)
EXTENDS Naturals, FiniteSets

\* The place of k among the numbers of the set K, the least of which is first.
Rank(k, K) == Cardinality({j \in K : j <= k})

\* The elements of s at the positions K, in their order.
Kept(s, K) == [r \in 1 .. Cardinality(K) |-> s[CHOOSE k \in K : Rank(k, K) = r]]
=============================================================================
