SPECIFICATION AFifoSpec
CONSTANTS
  Depth = 8
  MaxWords = 20
  MaxWrEdges = 1
INVARIANTS ReadsFollowWrites StatusTellsFull FlagsInTime OutputShowsNext
