SPECIFICATION FairSpec
CONSTANTS
  t0 = t0  t1 = t1  t2 = t2  g = g  a = a  b = b
  Tx = {t0, t1, t2}
  Genesis = t0
  Contracts = {t2}
  Touches <- MCTouches
  KeyOrder <- MCKeyOrder
  Peer = {p, q}
  Past = {{}, {t0, t1}}
  CopyPoints = {11, 19}
  PageSize = 3
  MaxFaults = 1
INVARIANTS
  CopyIsComplete
  CopyIsConsistent
PROPERTIES
  StartsAtLast
CHECK_DEADLOCK FALSE
