SPECIFICATION FairSpec
CONSTANTS
  d1 = d1
  d2 = d2
  d3 = d3
  d4 = d4
  Delegate = {d1, d2, d3}
  Setting <- MCSetting
INVARIANTS
  GossipConsistent
  QueuedHasTwoThirds
  GossipEndsWell
PROPERTIES
  GossipEnds
CHECK_DEADLOCK FALSE
