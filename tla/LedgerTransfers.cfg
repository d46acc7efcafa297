SPECIFICATION Spec
CONSTANTS
  g = g  a = a  b = b  c = c  blank = blank
  t1 = t1  t2 = t2  t3 = t3  t4 = t4  t5 = t5  t6 = t6  t7 = t7
  Tx = {t1, t2, t3}
  Account = {g, a, b, c, blank}
  From <- MCFrom
  To <- MCTo
  Value <- MCValue
  Kind <- MCKind
  ContractOf <- MCContractOf
  GenesisAccount = g
  Supply = 3
  Worker = {w1, w2}
  StorageFaults = FALSE
  MaxEnqueue = 2
  MaxCrashes = 1
INVARIANTS
  ReceiptMatchesLedger
  SupplyConserved
PROPERTIES
  LSpec
CHECK_DEADLOCK FALSE
