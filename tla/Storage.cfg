SPECIFICATION StorageSpec
CONSTANTS
  Addr = {"a", "r"}
  Ripemd = "r"
  Key = {"k"}
  Val = {1}
  Code = {1}
  Known <- MCKnown
  Amount = {1}
  MaxBalance = 2
  MaxWork = 3
  Tries <- MCTries
  MaxSnapshots = 2
  MaxRounds = 2
  Helper = {h1, h2}
  Hash <- MCHash
  Kids <- MCKids
  StorageOf <- MCStorageOf
  CodeOf <- MCCodeOf
  Root = {"r1", "r2"}
  MaxLost = 2
  MaxCalls = 1
  MaxOpens = 2
SYMMETRY HelperSymmetry
INVARIANTS
  StateCoherent
  DiskClosed
  ReferencedIsKept
PROPERTIES
  AnswersKept
CHECK_DEADLOCK FALSE
