-------------------------------- MODULE MCSched --------------------------------
(* The instance of Sched that TLC checks. *)
EXTENDS Sched, TLC

\* Neither threads nor processors are told apart.
Symmetry == Permutations(Ms) \cup Permutations(Ps)
=============================================================================
