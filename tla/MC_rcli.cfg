SPECIFICATION FairSpec
CONSTANTS
  Cycles = {c1, c2}
  Durations = {0, 1}
INVARIANTS TypeOK OneCycle MixedIsMarked ModeIsKept
PROPERTIES RequestAnswered LimitedCycleEnds
CHECK_DEADLOCK FALSE
