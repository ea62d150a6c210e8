SPECIFICATION Spec
CONSTANTS
  w1 = w1
  w2 = w2
  w3 = w3
  Work = {w1, w2, w3}
  NoWork = NoWork
  MaxId = 2
  MaxFaults = 2
SYMMETRY Works
INVARIANTS TypeOK OneHolder OneWorkPerId
CHECK_DEADLOCK FALSE
