SPECIFICATION Spec
CONSTANTS
  Size = 22
  Aria = 2
  Near = 4
  Rises <- MCRises
  Falls <- MCFalls
INVARIANTS TypeOK MaximaApart StrongerIsFound PlaceIsTold TwoTargetsAtMost
CHECK_DEADLOCK FALSE
