-------------------------- MODULE MCLinkStatistics --------------------------
(***************************************************************************)
(* One link, because every key and lock begins with the link; two days in  *)
(* two months, so that a day of the first is recorded and closed during    *)
(* the second; one visitor, who may appear in two countries.               *)
(***************************************************************************)
EXTENDS LinkStatistics, TLC

CONSTANTS a1, a2, l1, br, unknown, p1, p2, w1, w2, f1, f2

MCMonthOf == [d \in Days |-> IF d = 0 THEN "jan" ELSE "feb"]

MCSymmetry ==
  Permutations(Accesses) \cup Permutations(Countries) \cup Permutations(Visitors)
    \cup Permutations(Workers) \cup Permutations(Finalizers)
=============================================================================
