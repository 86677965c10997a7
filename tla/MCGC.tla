--------------------------------- MODULE MCGC ---------------------------------
(* Instances of GC for TLC. *)
EXTENDS GC, TLC

\* The objects of a span are alike.
ObjectSymmetry == Permutations(Objects)

\* While the barrier is on all spans are swept and no slot is freed: with none left,
\* a full span in a cache serves for nothing till the pause gives it up.  States that
\* differ in that alone are told apart by no step and no property.
FullSpansAside ==
  <<ptr, stack, top, free, marked, pc, hand, gcw, full, valid, gc, mode, todo, lag, span,
    IF writeBarrierEnabled /\ free = {} THEN NoSpan ELSE cache>>
=============================================================================
