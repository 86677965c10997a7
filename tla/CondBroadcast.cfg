\* The documentation's promise about Broadcast.
SPECIFICATION BroadcastSpec
CONSTANTS
  Users = {g1, g2, g3}
  NoOne = NoOne
CHECK_DEADLOCK FALSE
INVARIANTS
  BroadcastWakesAll
