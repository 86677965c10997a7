\* Every interleaving of three goroutines: safety, refinement and progress.
SPECIFICATION MutexFairSpec
CONSTANTS
  Lockers = {g1, g2, g3}
  ActiveSpin = 1
INVARIANTS
  OneHolder
  NoLostWakeup
  MutexInv
PROPERTIES
  ImplementsLock
  ImplementsLockProgress
  PendingLocksReturn
