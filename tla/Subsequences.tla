----------------------------- MODULE Subsequences -----------------------------
(***************************************************************************)
(* The part of a sequence that is kept when elements go from its midst: a  *)
(* retain, a filter, an entry taken out of a cache.  The parts are named   *)
(* by their places, and the k-th of these is the one with k places up to   *)
(* it, so that facts about them follow from facts about finite sets.       *)
(***************************************************************************)
EXTENDS Naturals, Sequences, FiniteSets

UpTo(places, i) == {j \in places : j <= i}
Kth(places, k) == CHOOSE i \in places : Cardinality(UpTo(places, i)) = k

\* The elements of a sequence at some of its places, in their order.
At(seq, places) == [k \in 1..Cardinality(places) |-> seq[Kth(places, k)]]
=============================================================================
