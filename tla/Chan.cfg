\* Three goroutines.  All of them may end up parked with nobody left.
SPECIFICATION Spec
CONSTANTS
  Goroutines = {g1, g2, g3}
  Chans = {a, b, u}
  Closable = {a, u}
  a = a
  b = b
  u = u
  Cap <- MCCap
  Offers <- MCOffers
SYMMETRY Symmetry
CHECK_DEADLOCK FALSE
INVARIANTS
  IInv
  NoMatchAsleep
  NoLostWakeup
PROPERTIES
  ImplementsChannels
