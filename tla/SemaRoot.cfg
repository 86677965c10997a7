\* Four goroutines at two semaphores that share a root.  All of them may end up
\* waiting with nobody left to release: that is not a fault of the semaphore.
SPECIFICATION SemaFairSpec
CONSTANTS
  Callers = {g1, g2, g3, g4}
  Addrs = {a, b}
  NoAddr = NoAddr
  MaxPermits = 2
CHECK_DEADLOCK FALSE
INVARIANTS
  SemaNoLostWakeup
  SemaInv
PROPERTIES
  ImplementsSemaphore
  PermitsAreTaken
