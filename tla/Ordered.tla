------------------------------- MODULE Ordered -------------------------------
(* Sorting and filtering by what the result is, not by an algorithm.  (Of    *)
(* SetToSortSeq and SelectSeq, which say the same, nothing can be proved.)   *)
EXTENDS Integers, Sequences, FiniteSets

(* The members of a finite set, ordered by a strict total order on them, a   *)
(* set of pairs: the k-th is the one that k - 1 others come before.          *)
Arranged(S, order) ==
  [k \in 1 .. Cardinality(S) |->
     CHOOSE i \in S : Cardinality({j \in S : <<j, i>> \in order}) = k - 1]

(* The members of a finite set of integers, the smallest first. *)
InOrder(S) == Arranged(S, {p \in S \X S : p[1] < p[2]})

(* The members of a sequence that are in a set, in the sequence's order. *)
Keep(list, S) == LET kept == InOrder({i \in DOMAIN list : list[i] \in S})
                 IN  [k \in DOMAIN kept |-> list[kept[k]]]
=============================================================================
