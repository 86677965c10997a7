\* Two Ps, one with a goroutine and both marking, a stack barrier, and a span of two
\* objects: collections without end, concurrent and forced.
SPECIFICATION Spec
CONSTANTS
  Procs = {p1, p2}
  Busy = {p1}
  Objects = {o1, o2}
  Spans = {{o1, o2}}
  Null = Null
  Data = Data
  MaxBarriers = 1
SYMMETRY ObjectSymmetry
VIEW FullSpansAside
INVARIANTS
  NoDangling
  NoThrow
  ScannedPointsToMarked
  IInv
