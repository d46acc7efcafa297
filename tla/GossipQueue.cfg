SPECIFICATION StartSpec
CONSTANTS
  g1 = g1
  g2 = g2
  g3 = g3
  h1 = h1
  h2 = h2
  Gossip <- MCGossip
  Hash <- MCHash
  HashOf <- MCHashOf
  TimeOf <- MCTimeOf
  Worker = {1, 2}
  Service = {"dapos"}
INVARIANTS
  NeverPopsEmpty
  ExistsHasReason
PROPERTIES
  GossipIsServed
CHECK_DEADLOCK FALSE
