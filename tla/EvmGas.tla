------------------------------ MODULE EvmGas ------------------------------
(***************************************************************************)
(* What an instruction costs: the memory it reaches (memory_table.go), the *)
(* price of growing the memory and of each instruction (gas_table.go), the *)
(* gas handed to a call (gas.go).  Stacks are sequences, top first.  The   *)
(* value Overflow stands for errGasUintOverflow.                           *)
(***************************************************************************)
EXTENDS EvmParams, EvmTable

Overflow == -1

\* Arithmetic of uint64: wrapping, and the checked forms of common/math.
Uint64(x) == x % (MaxUint64 + 1)
Checked(x) == IF x > MaxUint64 THEN Overflow ELSE x
SafeAdd(x, y) == IF Overflow \in {x, y} THEN Overflow ELSE Checked(x + y)
SafeMul(x, y) == IF Overflow \in {x, y} THEN Overflow ELSE Checked(x * y)

\* A word as a uint64.
bigUint64(v) == Checked(v)

toWordSize(size) ==
  IF size > MaxUint64 - (WordBytes - 1) THEN MaxUint64 \div WordBytes + 1
  ELSE (size + WordBytes - 1) \div WordBytes

-----------------------------------------------------------------------------
(* memory_table.go: the end of the memory an instruction touches.          *)

calcMemSize(off, l) == IF l = 0 THEN 0 ELSE off + l

Larger(x, y) == IF x < y THEN y ELSE x
memoryOne(stack, off, len) == calcMemSize(stack[off + 1], stack[len + 1])

\* Variant of memoryCall: the result may be longer than the arguments.
memoryCallInput(stack) == memoryOne(stack, 3, 4)

memoryCall(stack) == Larger(memoryOne(stack, 5, 6), memoryOne(stack, 3, 4))
memoryDelegateCall(stack) == Larger(memoryOne(stack, 4, 5), memoryOne(stack, 2, 3))

\* operation.memorySize(stack) for each instruction that has one, 0 otherwise.
memorySizeOf(op, stack) ==
  CASE op \in {"SHA3", "RETURN", "REVERT", "LOG"} -> memoryOne(stack, 0, 1)
    [] op \in {"CALLDATACOPY", "RETURNDATACOPY", "CODECOPY"} -> memoryOne(stack, 0, 2)
    [] op = "EXTCODECOPY" -> memoryOne(stack, 1, 3)
    [] op \in {"MLOAD", "MSTORE"} -> calcMemSize(stack[1], WordBytes)
    [] op = "MSTORE8" -> calcMemSize(stack[1], 1)
    [] op \in {"CREATE", "CREATE2"} -> memoryOne(stack, 1, 2)
    [] op \in {"CALL", "CALLCODE"} -> memoryCall(stack)
    [] op \in {"DELEGATECALL", "STATICCALL"} -> memoryDelegateCall(stack)
    [] OTHER -> 0

\* Run: the size of the memory as a uint64, in whole words.
memorySizeWords(op, stack) ==
  LET size == bigUint64(memorySizeOf(op, stack))
  IN  IF size = Overflow THEN Overflow ELSE SafeMul(toWordSize(size), WordBytes)

-----------------------------------------------------------------------------
(* gas_table.go.                                                           *)

\* The price of a memory of n words: the square wraps.
newTotalFee(words) ==
  Uint64(Uint64(words * params.MemoryGas) + Uint64(words * words) \div params.QuadCoeffDiv)

\* memoryGasCost: the fee for growing a memory of len bytes that cost last.
memoryGasCost(len, last, newMemSize) ==
  LET words == toWordSize(newMemSize)
  IN  CASE newMemSize = 0 -> 0
        [] newMemSize > MaxMemSize -> Overflow
        [] words * WordBytes > len -> Uint64(newTotalFee(words) - last)
        [] OTHER -> 0

\* Memory.lastGasCost after it.
lastGasCostAfter(len, last, newMemSize) ==
  IF newMemSize \in 1 .. MaxMemSize /\ toWordSize(newMemSize) * WordBytes > len
  THEN newTotalFee(toWordSize(newMemSize)) ELSE last

\* A price per word of the length at depth n of the stack.
perWord(stack, n, price) ==
  LET size == bigUint64(stack[n + 1])
  IN  IF size = Overflow THEN Overflow ELSE SafeMul(toWordSize(size), price)

gasCopy(mem, base, stack, n) == SafeAdd(SafeAdd(mem, base), perWord(stack, n, params.CopyGas))
gasSha3(mem, stack) == SafeAdd(SafeAdd(mem, params.Sha3Gas), perWord(stack, 1, params.Sha3WordGas))
makeGasLog(n, mem, stack) ==
  SafeAdd(SafeAdd(SafeAdd(mem, params.LogGas), n * params.LogTopicGas),
          SafeMul(bigUint64(stack[2]), params.LogDataGas))

gasExp(byteLen) == SafeAdd(byteLen * GasTable.ExpByte, GasSlowStep)

\* val is the value of the slot, y the value to store.
gasSStore(val, y) ==
  CASE val = 0 /\ y # 0 -> params.SstoreSetGas
    [] val # 0 /\ y = 0 -> params.SstoreClearGas
    [] OTHER -> params.SstoreResetGas

\* gas.go callGas, under a gas table with CreateBySuicide > 0: all but one
\* 64th of what is left after the base price.  The subtraction wraps.
callGas(availableGas, base, callCost) ==
  LET left == Uint64(availableGas - base)
      gas  == left - left \div 64
  IN  IF callCost > MaxUint64 \/ gas < callCost THEN gas ELSE callCost

\* What gasCall, gasCallCode, gasDelegateCall and gasStaticCall add up before
\* the gas for the callee: fee is the part that depends on the value.
callBase(fee, mem) == SafeAdd(fee, mem)
gasCallTotal(availableGas, base, callCost) ==
  IF base = Overflow THEN Overflow ELSE SafeAdd(base, callGas(availableGas, base, callCost))

gasCall(transfersValue, isEmpty) ==
  GasTable.Calls + (IF transfersValue /\ isEmpty THEN params.CallNewAccountGas ELSE 0)
                 + (IF transfersValue THEN params.CallValueTransferGas ELSE 0)
gasCallCode(transfersValue) ==
  GasTable.Calls + (IF transfersValue THEN params.CallValueTransferGas ELSE 0)
gasSuicide(isEmpty, balance) ==
  GasTable.Suicide + (IF isEmpty /\ balance # 0 THEN GasTable.CreateBySuicide ELSE 0)

-----------------------------------------------------------------------------
(* state_transition.go: what a transaction pays before it runs.            *)
IntrinsicGas(zeros, nonZeros, contractCreation) ==
  LET base == IF contractCreation THEN params.TxGasContractCreation ELSE params.TxGas
      some == base + nonZeros * params.TxDataNonZeroGas
  IN  IF \/ (MaxUint64 - base) \div params.TxDataNonZeroGas < nonZeros
         \/ (MaxUint64 - some) \div params.TxDataZeroGas < zeros
      THEN Overflow
      ELSE some + zeros * params.TxDataZeroGas

\* A call never pays with gas the caller does not have: what callGas passes on
\* fits next to the base price, and when the base price alone is too much the
\* subtraction wraps to a total that is refused.
CallGasFits(availableGas, base, callCost) ==
  LET total == gasCallTotal(availableGas, base, callCost)
  IN  IF base <= availableGas THEN total <= availableGas
      ELSE total = Overflow \/ total > availableGas
=============================================================================
