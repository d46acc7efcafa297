SPECIFICATION FairSpec
CONSTANTS
  Goroutine = {g1, g2, g3, g4}
  Key = {k1, k2}
INVARIANTS
  MutualExclusion
  NoLostWakeup
PROPERTIES
  KeyIsGranted
