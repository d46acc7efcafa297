SPECIFICATION Spec
CONSTANTS
  WordBytes = 3
  ByteBits = 8
  AddressBytes = 2
  MaxUint64 = 1048575
  MaxMemSize = 6141
  StackLimit = 12
  CallCreateDepth = 3
  MaxCodeSize = 4
  MaxTxs = 2
  Ledger <- MCLedger
  Worlds <- MCWorlds
  Txs <- MCTxs
  Clock = {5, 6}
INVARIANTS
  FrameSound
PROPERTIES
  StepsAsTabled
  FailuresLeaveNothing
  ValueConserved
