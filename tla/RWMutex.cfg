\* Five goroutines, each reader or writer in turn.
SPECIFICATION FairSpec
CONSTANTS
  Goroutines = {g1, g2, g3, g4, g5}
  MaxReaders = 6
INVARIANTS
  Exclusion
  NoFalsePanic
  IInv
PROPERTIES
  WriterGetsIn
  PendingCallsReturn
