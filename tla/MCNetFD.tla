-------------------------------- MODULE MCNetFD --------------------------------
(* The instance of NetFD that TLC checks. *)
EXTENDS NetFD, TLC

CONSTANTS g1, g2, g3

\* g1 and g2 make the same calls.
Symmetry == Permutations({g1, g2})
=============================================================================
