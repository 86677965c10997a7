CONSTANTS
  p1 = p1
  p2 = p2
  None = None
  Procs = {p1, p2}
  Busy = p1
  MaxG = 7
  Yielding = {1}
  Size = 4
  W = 8
  Start = 6
SPECIFICATION Spec
INVARIANTS
  IInv
PROPERTY ImplementsRunQueues

