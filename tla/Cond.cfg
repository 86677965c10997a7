\* Four goroutines in Wait, Signal and Broadcast.  All of them may end up in Wait
\* with nobody left to signal.
SPECIFICATION CondFairSpec
CONSTANTS
  Users = {g1, g2, g3, g4}
  NoOne = NoOne
CHECK_DEADLOCK FALSE
INVARIANTS
  CondInv
PROPERTIES
  SignalReturns
