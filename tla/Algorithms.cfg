SPECIFICATION AllSpec
CONSTANTS
  Priority = {1, 2, 3, 4, 5}
  MaxLen = 7
  NaN = NaN
INVARIANTS
  TrieSound
  TrieReadsAgree
  RlpCanonical
  WordsAgree
  PagesPartition
  TransactionsKeepMeaning
  RumorsCount
  AbiRoundTrips
  MerkleRootBinds
PROPERTIES
  MinQueueSpec
