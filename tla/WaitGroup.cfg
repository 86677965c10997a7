\* Five goroutines that add, end tasks and wait, over several sets of tasks.
SPECIFICATION FairSpec
CONSTANTS
  Goroutines = {g1, g2, g3, g4, g5}
  Tasks = {g1, g2}
  MaxDelta = 4
INVARIANTS
  NoPanic
  WaitIsBarrier
  IInv
PROPERTIES
  WaitReturns
