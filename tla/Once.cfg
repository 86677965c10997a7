\* Five calls of Do; the run ends when all have returned.
SPECIFICATION OnceSpec
CONSTANTS
  Callers = {g1, g2, g3, g4, g5}
CHECK_DEADLOCK FALSE
INVARIANTS
  ReturnAfterRun
  OnceInv
