SPECIFICATION Spec
CONSTANTS
  Distances = {0, 1, 2, 4}
  Gate = 1
  MaxCountLost = 5
  MaxNew = 2
  MaxTargets = 3
INVARIANTS OneForOne GhostsLeave
PROPERTIES NotDroppedEarly
