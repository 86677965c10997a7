\* Three goroutines on one descriptor and its successor; two of them read or
\* write, the third one sets deadlines, and all of them close.
SPECIFICATION Spec
CONSTANTS
  g1 = g1
  g2 = g2
  g3 = g3
  Timer = Timer
  Users = {g1, g2}
  Closers = {g1, g2, g3}
  Setters = {g3}
  Directions = {"w"}
  Times = {1}
  MaxFD = 2
  MaxSets = 2
SYMMETRY Symmetry
INVARIANTS
  IInv
  NoThrow
  NoLostWakeup
PROPERTIES
  OwnDeadlines
