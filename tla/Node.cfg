SPECIFICATION NodeSpec
CONSTANTS
  Node = {d1, d2}
  DelegateAddresses = {}
  Software = {"disgo", "db"}
  MaxFaults = 1
  Received = {g1, g2}
  Submission = {s}
  Self = self
  Peer = {p1, p2}
  Workers = 2
  IsBookkeeper = TRUE
  MaxRestarts = 1
SYMMETRY MCSymmetry
INVARIANTS
  DelegatesInTouch
  DroppedOnlyIfForgotten
  ExecutedIsAnswered
CHECK_DEADLOCK FALSE
