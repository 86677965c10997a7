SPECIFICATION Spec
CONSTANTS
  Ms = {m1, m2, m3}
  Ps = {p1, p2, p3}
  Sysmon = sysmon
  None = none
  NG = 3
SYMMETRY Symmetry
INVARIANTS IInv NoThrow WorkConserved
CHECK_DEADLOCK FALSE
