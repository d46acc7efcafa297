SPECIFICATION Spec
CONSTANTS
  d1 = d1
  d2 = d2
  d3 = d3
  d4 = d4
  Delegate = {d1, d2, d3, d4}
  Setting <- TwoOfFour
INVARIANTS
  QueuedHasTwoThirds
CHECK_DEADLOCK FALSE
