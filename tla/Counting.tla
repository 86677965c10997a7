------------------------------- MODULE Counting -------------------------------
(***************************************************************************)
(* How many goroutines are at one of a set of program points: the operator *)
(* the counter invariants of the synchronization modules are written with. *)
(* A counter kept in a word of memory (waiters, readers, permits) is right *)
(* when it equals such a count.                                            *)
(***************************************************************************)
EXTENDS Naturals, FiniteSets

\* The goroutines of pc that are at one of the points of P.
At(pc, P) == {g \in DOMAIN pc : pc[g] \in P}

\* Their number.
Count(pc, P) == Cardinality(At(pc, P))

\* What a goroutine at point p adds to the count of P.
Weight(p, P) == IF p \in P THEN 1 ELSE 0
=============================================================================
