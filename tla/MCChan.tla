-------------------------------- MODULE MCChan --------------------------------
(* Channels on a small instance: a is buffered and used by single operations, *)
(* b is buffered and u is not, and selects wait for both.                     *)
EXTENDS Chan

CONSTANTS a, b, u

MCCap == [c \in Chans |-> IF c = u THEN 0 ELSE 1]

Single(c, d, blocks) ==
  [cases |-> {[c |-> c, dir |-> d]}, block |-> blocks, select |-> FALSE]

SelectRecv(cs) ==
  [cases |-> [c : cs, dir : {"recv"}], block |-> TRUE, select |-> TRUE]

MCOffers ==
  {Single(c, d, TRUE) : c \in {a, u}, d \in Dirs}
    \cup {Single(b, "send", TRUE), SelectRecv({b, u}),
          Single(u, "send", FALSE), Single(a, "recv", FALSE)}

Symmetry == Permutations(Goroutines)
=============================================================================
