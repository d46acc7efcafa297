-------------------------------- MODULE Evm --------------------------------
(***************************************************************************)
(* The contract machine: DVMService.DeploySmartContract and                *)
(* ExecuteSmartContract (dvm/dvm_api.go, dvm_helpers.go), the state        *)
(* transition around a run (dvm/ethereum/state_transition.go), the calls   *)
(* (vm/evm.go) and the interpreter (vm/interpreter.go, instructions.go),   *)
(* one instruction per step.                                               *)
(*                                                                         *)
(* What this repository changed in the machine is modelled: every contract *)
(* has a world of its own, CALL loads the world of the callee from disk,   *)
(* runs in it and commits it (opCall), and TIMESTAMP is the wall clock.    *)
(* The tracer, the integer pools, Cancel (never called) and the debug      *)
(* output are left out.  Gas prices are all 0 in this repository, so the   *)
(* balances paid and returned for gas are 0.                               *)
(***************************************************************************)
EXTENDS EvmGas, EvmWord, EvmState, FiniteSets, FiniteSetsExt

CONSTANTS
  Worlds,   \* the disks to start from: contract address -> world
  Txs,      \* transactions that may be submitted
  Clock,    \* values the wall clock may show
  MaxTxs    \* bound: transactions executed one after the other

VARIABLES
  disk,        \* contract address -> committed world
  tx,          \* the transaction being executed, or NoTx
  db,          \* evm.StateDB
  frames,      \* the running calls, innermost first
  readOnly,    \* interpreter.readOnly
  returnData,  \* interpreter.returnData
  ending,      \* how the innermost call ended, NotEnded while it runs
  receipts     \* what DVMService answered, one entry per transaction

vars == <<disk, tx, db, frames, readOnly, returnData, ending, receipts>>

NoTx == [kind |-> "none"]
NotEnded == [err |-> "running", data |-> <<>>]
Ended(err, data) == [err |-> err, data |-> data]
NoDB == New(<<>>)

BigToAddress(x) == x % 2^(ByteBits * AddressBytes)

\* External: hashes, as functions that are injective on the values in use.
Keccak256(data) == U256(1 + 7 * Len(data) + SetBytes(SubSeq(data, 1, BigMin(Len(data), WordBytes - 1))))
CreateAddress(a, nonce) == 4096 + ((16 * a + nonce) % 4096)
CreateAddress2(a, salt, code) == 8192 + ((16 * a + salt + Len(code)) % 4096)

-----------------------------------------------------------------------------
(* Memory (vm/memory.go): a sequence of bytes.                             *)

Resize(mem, size) == IF Len(mem) < size THEN mem \o [i \in 1 .. size - Len(mem) |-> 0] ELSE mem
Within(mem, offset, size) == size = 0 \/ offset + size <= Len(mem)
MemGet(mem, offset, size) == IF size = 0 THEN <<>> ELSE SubSeq(mem, offset + 1, offset + size)

\* Memory.Set copies at most size bytes of data.
MemSet(mem, offset, size, data) ==
  [i \in DOMAIN mem |->
     IF size > 0 /\ i > offset /\ i <= offset + size /\ i - offset <= Len(data)
     THEN data[i - offset] ELSE mem[i]]

\* common.go: size bytes of data from start on, padded with zeros.
getDataBig(data, start, size) ==
  LET s == BigMin(start, Len(data))
  IN  [i \in 1 .. size |-> IF s + i <= Len(data) THEN data[s + i] ELSE 0]

-----------------------------------------------------------------------------
(* Jump analysis (vm/analysis.go): the bytes of code that are arguments of *)
(* a PUSH, and the destinations a jump may have.                           *)

codeBitmap(code) ==
  FoldLeftDomain(LAMBDA acc, i :
                   CASE acc.skip > 0 -> [skip |-> acc.skip - 1, data |-> acc.data \cup {i - 1}]
                     [] IsPush(code[i]) -> [acc EXCEPT !.skip = Arg(code[i])]
                     [] OTHER -> acc,
                 [skip |-> 0, data |-> {}], code).data

codeSegment(code, pos) == pos \notin codeBitmap(code)

JUMPDEST == 91

has(code, dest) == dest < Len(code) /\ code[dest + 1] = JUMPDEST /\ codeSegment(code, dest)

-----------------------------------------------------------------------------
(* Contract (vm/contract.go): the frame of a call.  "snap" is the state    *)
(* Snapshot() identifies, "prevDB" the StateDB opCall puts back.           *)

NewContract(kind, caller, self, value, gas, code, codeAddr, input, snap) ==
  [kind |-> kind, caller |-> caller, self |-> self, value |-> value, gas |-> gas, code |-> code,
   codeAddr |-> codeAddr, input |-> input, snap |-> snap, prevDB |-> NoDB, setsReadOnly |-> FALSE,
   retOffset |-> 0, retSize |-> 0, pc |-> 0, stack |-> <<>>, mem |-> <<>>, last |-> 0]

GetOp(f) == IF f.pc < Len(f.code) THEN f.code[f.pc + 1] ELSE 0
Name(f) == opCodeToString[GetOp(f)]

UseGas(f, gas) == [f EXCEPT !.gas = @ - gas]

Push(s, x) == <<x>> \o s
Drop(s, n) == SubSeq(s, n + 1, Len(s))

-----------------------------------------------------------------------------
(* Interpreter.Run up to execute: what makes an instruction fail, and what *)
(* it costs.  f is the frame, op the name of the instruction, e its entry  *)
(* in the jump table.                                                      *)

validateStack(f, e) == Len(f.stack) >= e.pop /\ Len(f.stack) + e.push - e.pop <= StackLimit

\* Variant of enforceRestrictions: SSTORE and the like only.
enforceWritesOnly(f, op, e) == ~ (readOnly /\ op = "SSTORE")

enforceRestrictions(f, op, e) == readOnly => ~ e.writes /\ ~ (op = "CALL" /\ f.stack[3] > 0)

\* The price of a call before the gas of the callee; mem is the fee for memory.
baseCost(f, op, mem) ==
  callBase(CASE op = "CALL" -> gasCall(f.stack[3] # 0, Empty(db, BigToAddress(f.stack[2])))
             [] op = "CALLCODE" -> gasCallCode(f.stack[3] # 0)
             [] OTHER -> GasTable.Calls,
           mem)

Calls == {"CALL", "CALLCODE", "DELEGATECALL", "STATICCALL"}

memFee(f, op) == memoryGasCost(Len(f.mem), f.last, memorySizeWords(op, f.stack))

gasCost(f, op, e, mem) ==
  LET s == f.stack
  IN  CASE op \in {"CALLDATACOPY", "CODECOPY", "RETURNDATACOPY"} -> gasCopy(mem, GasFastestStep, s, 2)
        [] op = "EXTCODECOPY" -> gasCopy(mem, GasTable.ExtcodeCopy, s, 3)
        [] op = "SHA3" -> gasSha3(mem, s)
        [] op = "LOG" -> makeGasLog(Arg(GetOp(f)), mem, s)
        [] op = "EXP" -> gasExp((BitLen(s[2]) + ByteBits - 1) \div ByteBits)
        [] op = "SSTORE" -> gasSStore(GetState(db, f.self, s[1]), s[2])
        [] op = "SLOAD" -> GasTable.SLoad
        [] op = "BALANCE" -> GasTable.Balance
        [] op = "EXTCODESIZE" -> GasTable.ExtcodeSize
        [] op = "EXTCODEHASH" -> GasTable.ExtcodeHash
        [] op \in {"MLOAD", "MSTORE", "MSTORE8"} -> SafeAdd(mem, GasFastestStep)
        [] op = "CREATE" -> SafeAdd(mem, params.CreateGas)
        [] op = "CREATE2" -> SafeAdd(mem, params.Create2Gas)
        [] op \in Calls -> gasCallTotal(f.gas, baseCost(f, op, mem), s[1])
        [] op \in {"RETURN", "REVERT"} -> mem
        [] op = "SELFDESTRUCT" -> gasSuicide(Empty(db, BigToAddress(s[1])), GetBalance(db, f.self))
        [] OTHER -> e.gas

\* The refunds that gasSStore and gasSuicide count while they compute a price.
Refunded(f, op) ==
  CASE op = "SSTORE" /\ GetState(db, f.self, f.stack[1]) # 0 /\ f.stack[2] = 0
         -> AddRefund(db, params.SstoreRefundGas)
    [] op = "SELFDESTRUCT" /\ ~ HasSuicided(db, f.self) -> AddRefund(db, params.SuicideRefundGas)
    [] OTHER -> db

Price(f, op, e) == gasCost(f, op, e, memFee(f, op))

\* size is the size of the memory and cost the price, as far as Run gets.
RunFault(f, op, e, size, cost) ==
  CASE op = "INVALID" -> "invalid opcode"
    [] ~ validateStack(f, e) -> "stack"
    [] ~ enforceRestrictions(f, op, e) -> "write protection"
    [] size = Overflow -> "gas overflow"
    [] cost = Overflow \/ f.gas < cost -> "out of gas"
    [] OTHER -> "none"
Fault(f, op, e) == RunFault(f, op, e, memorySizeWords(op, f.stack), Price(f, op, e))

\* The frame once the price is paid and the memory has grown to size.
Grown(f, size) == [f EXCEPT !.mem = Resize(@, size), !.last = lastGasCostAfter(Len(f.mem), @, size)]
Charged(f, op, e) == Grown(UseGas(f, Price(f, op, e)), memorySizeWords(op, f.stack))

-----------------------------------------------------------------------------
(* instructions.go: the instructions that stay in their frame.             *)

Alu1(op, x) == CASE op = "ISZERO" -> opIszero(x) [] op = "NOT" -> opNot(x)

Alu2(op, x, y) ==
  CASE op = "ADD" -> opAdd(x, y)   [] op = "SUB" -> opSub(x, y)   [] op = "MUL" -> opMul(x, y)
    [] op = "DIV" -> opDiv(x, y)   [] op = "SDIV" -> opSdiv(x, y) [] op = "MOD" -> opMod(x, y)
    [] op = "SMOD" -> opSmod(x, y) [] op = "EXP" -> opExp(x, y)   [] op = "LT" -> opLt(x, y)
    [] op = "GT" -> opGt(x, y)     [] op = "SLT" -> opSlt(x, y)   [] op = "SGT" -> opSgt(x, y)
    [] op = "EQ" -> opEq(x, y)     [] op = "AND" -> opAnd(x, y)   [] op = "OR" -> opOr(x, y)
    [] op = "XOR" -> opXor(x, y)   [] op = "BYTE" -> opByte(x, y) [] op = "SHL" -> opSHL(x, y)
    [] op = "SHR" -> opSHR(x, y)   [] op = "SAR" -> opSAR(x, y)
    [] op = "SIGNEXTEND" -> opSignExtend(x, y)

Alu3(op, x, y, z) == CASE op = "ADDMOD" -> opAddmod(x, y, z) [] op = "MULMOD" -> opMulmod(x, y, z)

UnaryOps == {"ISZERO", "NOT"}
BinaryOps == {"ADD", "SUB", "MUL", "DIV", "SDIV", "MOD", "SMOD", "EXP", "LT", "GT", "SLT", "SGT", "EQ",
              "AND", "OR", "XOR", "BYTE", "SHL", "SHR", "SAR", "SIGNEXTEND"}
TernaryOps == {"ADDMOD", "MULMOD"}

\* The block number is that of the Byzantium fork, beyond the reach of
\* BLOCKHASH for the words in use.
BlockNumber == 4370000
Context(f, now) ==
  "ADDRESS" :> f.self @@ "ORIGIN" :> tx.from @@ "CALLER" :> f.caller @@ "CALLVALUE" :> f.value
  @@ "CALLDATASIZE" :> Len(f.input) @@ "CODESIZE" :> Len(f.code) @@ "GASPRICE" :> 0
  @@ "RETURNDATASIZE" :> Len(returnData) @@ "COINBASE" :> tx.from @@ "TIMESTAMP" :> U256(now)
  @@ "NUMBER" :> U256(BlockNumber) @@ "GASLIMIT" :> U256(tx.gas) @@ "PC" :> f.pc
  @@ "MSIZE" :> Len(f.mem) @@ "GAS" :> f.gas

ContextOps == {"ADDRESS", "ORIGIN", "CALLER", "CALLVALUE", "CALLDATASIZE", "CODESIZE", "GASPRICE",
               "RETURNDATASIZE", "COINBASE", "TIMESTAMP", "NUMBER", "GASLIMIT", "PC", "MSIZE", "GAS"}

\* EXTCODESIZE looks in the world of the address when its own world has no
\* code there (the StateQueryHelper).
queryCodeSize(a) == IF a \in DOMAIN disk THEN GetCodeSize(New(disk[a]), a) ELSE 0
opExtCodeSize(a) == IF GetCodeSize(db, a) # 0 THEN GetCodeSize(db, a) ELSE queryCodeSize(a)

opBlockhash(num) == IF num > BlockNumber - 257 /\ num < BlockNumber THEN tx.hash ELSE 0
opExtCodeHash(a) == IF Exist(db, a) THEN Keccak256(GetCode(db, a)) ELSE 0

opBalance(a) == GetBalance(db, a)
opCallDataLoad(f, x) == SetBytes(getDataBig(f.input, x, WordBytes))
opMload(f, x) == SetBytes(MemGet(f.mem, x, WordBytes))
opSload(f, x) == GetState(db, f.self, x)

QueryOps == {"CALLDATALOAD", "BALANCE", "EXTCODESIZE", "EXTCODEHASH", "BLOCKHASH", "MLOAD", "SLOAD"}
Query(f, op, x) ==
  CASE op = "CALLDATALOAD" -> opCallDataLoad(f, x)
    [] op = "BALANCE" -> opBalance(BigToAddress(x))
    [] op = "EXTCODESIZE" -> opExtCodeSize(BigToAddress(x))
    [] op = "EXTCODEHASH" -> opExtCodeHash(BigToAddress(x))
    [] op = "BLOCKHASH" -> opBlockhash(x)
    [] op = "MLOAD" -> opMload(f, x)
    [] op = "SLOAD" -> opSload(f, x)

CopyOps == {"CALLDATACOPY", "CODECOPY", "EXTCODECOPY", "RETURNDATACOPY"}

\* EXTCODECOPY has the address on top of the operands of the others.
CopyArgs(f, op) == IF op = "EXTCODECOPY" THEN Drop(f.stack, 1) ELSE f.stack
opCallDataCopy(f, s) == getDataBig(f.input, s[2], s[3])
opCodeCopy(f, s) == getDataBig(f.code, s[2], s[3])
opExtCodeCopy(a, s) == getDataBig(GetCode(db, a), s[2], s[3])
opReturnDataCopy(s) == SubSeq(returnData, s[2] + 1, s[2] + s[3])

Copied(f, op, s) ==
  CASE op = "CALLDATACOPY" -> opCallDataCopy(f, s)
    [] op = "CODECOPY" -> opCodeCopy(f, s)
    [] op = "EXTCODECOPY" -> opExtCodeCopy(BigToAddress(f.stack[1]), s)
    [] op = "RETURNDATACOPY" -> opReturnDataCopy(s)

makePush(f) == SetBytes(getDataBig(f.code, f.pc + 1, Arg(GetOp(f))))
makeDup(s, n) == Push(s, s[n])
makeSwap(s, n) == [s EXCEPT ![1] = s[n + 1], ![n + 1] = s[1]]
makeLog(f, n) ==
  [address |-> f.self, topics |-> SubSeq(f.stack, 3, n + 2), data |-> MemGet(f.mem, f.stack[1], f.stack[2])]

\* opJump and opJumpi: where the next instruction is, -1 for a bad destination.
JumpTarget(f, op) ==
  IF op = "JUMPI" /\ f.stack[2] = 0 THEN f.pc + 1
  ELSE IF has(f.code, f.stack[1]) THEN f.stack[1] ELSE -1

\* An error of execute itself.
ExecFault(f, op) ==
  CASE op = "RETURNDATACOPY" /\ (f.stack[2] + f.stack[3] > MaxUint64 \/ Len(returnData) < f.stack[2] + f.stack[3])
         -> "return data out of bounds"
    [] op \in {"JUMP", "JUMPI"} /\ JumpTarget(f, op) = -1 -> "invalid jump destination"
    [] OTHER -> "none"

\* The memory an instruction uses must be there: memory.Set panics otherwise.
Accesses(f, op) ==
  LET s == f.stack
  IN  CASE op \in CopyOps -> {<<CopyArgs(f, op)[1], CopyArgs(f, op)[3]>>}
        [] op \in {"MLOAD", "MSTORE"} -> {<<s[1], WordBytes>>}
        [] op = "MSTORE8" -> {<<s[1], 1>>}
        [] op \in {"SHA3", "LOG", "RETURN", "REVERT"} -> {<<s[1], s[2]>>}
        [] op \in {"CREATE", "CREATE2"} -> {<<s[2], s[3]>>}
        [] op \in {"CALL", "CALLCODE"} -> {<<s[4], s[5]>>, <<s[6], s[7]>>}
        [] op \in {"DELEGATECALL", "STATICCALL"} -> {<<s[3], s[4]>>, <<s[5], s[6]>>}
        [] OTHER -> {}

\* The stack after an instruction that stays in its frame; g is the frame
\* once charged.
StackAfter(g, op, now) ==
  LET s == g.stack
      n == Arg(GetOp(g))
  IN  CASE op \in UnaryOps -> Push(Drop(s, 1), Alu1(op, s[1]))
        [] op \in BinaryOps -> Push(Drop(s, 2), Alu2(op, s[1], s[2]))
        [] op \in TernaryOps -> Push(Drop(s, 3), Alu3(op, s[1], s[2], s[3]))
        [] op \in ContextOps -> Push(s, Context(g, now)[op])
        [] op \in QueryOps -> Push(Drop(s, 1), Query(g, op, s[1]))
        [] op \in CopyOps -> Drop(s, IF op = "EXTCODECOPY" THEN 4 ELSE 3)
        [] op = "SHA3" -> Push(Drop(s, 2), Keccak256(MemGet(g.mem, s[1], s[2])))
        [] op = "PUSH" -> Push(s, makePush(g))
        [] op = "DUP" -> makeDup(s, n)
        [] op = "SWAP" -> makeSwap(s, n)
        [] op = "LOG" -> Drop(s, n + 2)
        [] op \in {"POP", "JUMP"} -> Drop(s, 1)
        [] op \in {"MSTORE", "MSTORE8", "SSTORE", "JUMPI"} -> Drop(s, 2)
        [] op = "JUMPDEST" -> s

MemAfter(g, op) ==
  LET s == g.stack
  IN  CASE op \in CopyOps -> MemSet(g.mem, CopyArgs(g, op)[1], CopyArgs(g, op)[3], Copied(g, op, CopyArgs(g, op)))
        [] op = "MSTORE" -> MemSet(g.mem, s[1], WordBytes, ReadBits(s[2], WordBytes))
        [] op = "MSTORE8" -> MemSet(g.mem, s[1], 1, <<s[2] % 2^ByteBits>>)
        [] OTHER -> g.mem

PcAfter(g, op) ==
  CASE op \in {"JUMP", "JUMPI"} -> JumpTarget(g, op)
    [] op = "PUSH" -> g.pc + Arg(GetOp(g)) + 1
    [] OTHER -> g.pc + 1

DbAfter(g, op) ==
  CASE op = "SSTORE" -> SetState(Refunded(g, op), g.self, g.stack[1], g.stack[2])
    [] op = "LOG" -> AddLog(db, makeLog(g, Arg(GetOp(g))))
    [] OTHER -> db

Halting == {"STOP", "RETURN", "REVERT", "SELFDESTRUCT"}
Creates == {"CREATE", "CREATE2"}

-----------------------------------------------------------------------------
(* Interpreter.Run.                                                        *)

Running == frames # <<>> /\ ending = NotEnded
f1 == frames[1]
Precompiled == 1 .. 8

\* A call of an account without code.
RunEmpty ==
  /\ Running /\ f1.codeAddr \notin Precompiled /\ f1.code = <<>>
  /\ ending' = Ended("none", <<>>)
  /\ returnData' = <<>>
  /\ UNCHANGED <<disk, tx, db, frames, readOnly, receipts>>

Interpreting == Running /\ f1.codeAddr \notin Precompiled /\ f1.code # <<>>

\* The instruction is refused, or its price is; or it fails when executed.
StepFault(op, fault) ==
  /\ \/ fault # "none" /\ ending' = Ended(fault, <<>>)
     \/ fault = "none" /\ ExecFault(f1, op) # "none" /\ ending' = Ended(ExecFault(f1, op), <<>>)
  /\ UNCHANGED <<disk, tx, db, frames, readOnly, returnData, receipts>>

\* g is the frame once the instruction is paid for.
StepPlain(op, fault, g) ==
  /\ op \notin Halting \cup Calls \cup Creates \cup {"DIFFICULTY"}
  /\ fault = "none" /\ ExecFault(f1, op) = "none"
  /\ \E now \in Clock :
       frames' = [frames EXCEPT ![1] = [g EXCEPT !.stack = StackAfter(g, op, now), !.mem = MemAfter(g, op),
                                                 !.pc = PcAfter(g, op)]]
  /\ db' = DbAfter(g, op)
  /\ UNCHANGED <<disk, tx, readOnly, returnData, ending, receipts>>

\* opStop, opReturn, opRevert, opSuicide.
StepHalt(op, fault, g, pop) ==
  /\ op \in Halting /\ fault = "none"
  /\ LET data == IF op \in {"RETURN", "REVERT"} THEN MemGet(g.mem, g.stack[1], g.stack[2]) ELSE <<>>
         heir == BigToAddress(g.stack[1])
     IN  /\ frames' = [frames EXCEPT ![1] = [g EXCEPT !.stack = Drop(@, pop)]]
         /\ db' = IF op = "SELFDESTRUCT"
                  THEN Suicide(AddBalance(Refunded(g, op), heir, GetBalance(db, g.self)), g.self)
                  ELSE db
         /\ ending' = Ended(IF op = "REVERT" THEN "reverted" ELSE "none", data)
         /\ returnData' = IF op = "REVERT" THEN data ELSE returnData
  /\ UNCHANGED <<disk, tx, readOnly, receipts>>

-----------------------------------------------------------------------------
(* Native contracts (vm/contracts.go).  The price of each one is kept; the *)
(* hash functions and the curve are external, data copy and modular        *)
(* exponentiation are computed.                                            *)

Words(len) == (len + WordBytes - 1) \div WordBytes
Field(input, i) == SetBytes(getDataBig(input, i * WordBytes, WordBytes))
Body(input) == Drop(input, BigMin(3 * WordBytes, Len(input)))

modExpComplexity(x) ==
  CASE x <= 64 -> x * x
    [] x <= 1024 -> (x * x) \div 4 + 96 * x - 3072
    [] OTHER -> (x * x) \div 16 + 480 * x - 199680

modExpGas(input) ==
  LET baseLen == Field(input, 0)
      expLen  == Field(input, 1)
      modLen  == Field(input, 2)
      expHead == IF Len(Body(input)) <= baseLen THEN 0
                 ELSE SetBytes(getDataBig(Body(input), baseLen, BigMin(expLen, WordBytes)))
      msb     == BigMax(BitLen(expHead) - 1, 0)
      adj     == (IF expLen > WordBytes THEN ByteBits * (expLen - WordBytes) ELSE 0) + msb
  IN  (modExpComplexity(BigMax(modLen, baseLen)) * BigMax(adj, 1)) \div params.ModExpQuadCoeffDiv

modExpRun(input) ==
  LET baseLen == Field(input, 0)
      expLen  == Field(input, 1)
      modLen  == Field(input, 2)
      base    == SetBytes(getDataBig(Body(input), 0, baseLen))
      exp     == SetBytes(getDataBig(Body(input), baseLen, expLen))
      mod     == SetBytes(getDataBig(Body(input), baseLen + expLen, modLen))
  IN  IF baseLen = 0 /\ modLen = 0 THEN <<>>
      ELSE ReadBits(IF mod = 0 THEN 0 ELSE (base^exp) % mod, modLen)

RequiredGas(p, input) ==
  CASE p = 1 -> params.EcrecoverGas
    [] p = 2 -> Words(Len(input)) * params.Sha256PerWordGas + params.Sha256BaseGas
    [] p = 3 -> Words(Len(input)) * params.Ripemd160PerWordGas + params.Ripemd160BaseGas
    [] p = 4 -> Words(Len(input)) * params.IdentityPerWordGas + params.IdentityBaseGas
    [] p = 5 -> modExpGas(input)
    [] p = 6 -> params.Bn256AddGas
    [] p = 7 -> params.Bn256ScalarMulGas
    [] p = 8 -> params.Bn256PairingBaseGas + (Len(input) \div (6 * WordBytes)) * params.Bn256PairingPerPointGas

PairingSizeBad(input) == Len(input) % (6 * WordBytes) > 0

RunPrecompiledContract ==
  /\ Running /\ f1.codeAddr \in Precompiled
  /\ LET p    == f1.codeAddr
         paid == RequiredGas(p, f1.input) <= f1.gas
     IN  /\ frames' = IF paid THEN [frames EXCEPT ![1] = UseGas(f1, RequiredGas(p, f1.input))] ELSE frames
         /\ ending' = CASE ~ paid -> Ended("out of gas", <<>>)
                        [] p = 8 /\ PairingSizeBad(f1.input) -> Ended("bad pairing size", <<>>)
                        [] p = 4 -> Ended("none", f1.input)
                        [] p = 5 -> Ended("none", modExpRun(f1.input))
                        [] OTHER -> Ended("none", ReadBits(Keccak256(f1.input), WordBytes))
  /\ UNCHANGED <<disk, tx, db, readOnly, returnData, receipts>>

-----------------------------------------------------------------------------
(* The end of a call in its caller: opCall, opCallCode, opDelegateCall,    *)
(* opStaticCall, opCreate and opCreate2 after the call returns.            *)

\* Variant of Unwound: the changes of a failed call stay.
UnwoundKeeping(g, d, err) ==
  [gas |-> IF err \in {"none", "reverted"} THEN g.gas ELSE 0, db |-> d]

\* evm.go: the state and the gas when the call g ended with err in state d.
Unwound(g, d, err) ==
  [gas |-> IF err \in {"none", "reverted"} THEN g.gas ELSE 0,
   db  |-> IF err = "none" THEN d ELSE g.snap]

AfterCall(c, g, err, data, gasBack) ==
  [c EXCEPT !.stack = Push(@, Bool(err = "none")),
            !.mem = IF err \in {"none", "reverted"} THEN MemSet(@, g.retOffset, g.retSize, data) ELSE @,
            !.gas = @ + gasBack,
            !.pc = @ + 1]

AfterCreate(c, addr, err, gasBack) ==
  [c EXCEPT !.stack = Push(@, IF err = "none" THEN addr ELSE 0), !.gas = @ + gasBack, !.pc = @ + 1]

World(a) == IF a \in DOMAIN disk THEN disk[a] ELSE <<>>

\* VMStateHelper.Commit: AccountState-<address> names the root of the trie that
\* d was opened on, with d's changes, and no longer what the address had before.
CommitTo(a, d) == disk' = Put(disk, a, Commit(d))

\* A call made by a contract returns.  opCall commits the callee's StateDB
\* whatever the error is.
ReturnFromCall ==
  /\ Len(frames) > 1 /\ ending # NotEnded /\ f1.kind \in Calls
  /\ LET u == Unwound(f1, db, ending.err)
     IN  /\ frames' = <<AfterCall(frames[2], f1, ending.err, ending.data, u.gas)>> \o Drop(frames, 2)
         /\ IF f1.kind = "CALL"
            THEN /\ CommitTo(f1.self, u.db)
                 /\ db' = f1.prevDB
            ELSE db' = u.db /\ UNCHANGED disk
         /\ readOnly' = (readOnly /\ ~ f1.setsReadOnly)
         /\ returnData' = ending.data
         /\ ending' = NotEnded
  /\ UNCHANGED <<tx, receipts>>

\* evm.create after run: the code is paid for and stored.
Created(g, d, err, data) ==
  LET tooLong == Len(data) > MaxCodeSize
      price   == Len(data) * params.CreateDataGas
      short   == g.gas < price
  IN  CASE err = "none" /\ ~ tooLong /\ ~ short ->
             [err |-> "none", gas |-> g.gas - price, db |-> SetCode(d, g.self, data)]
        [] err = "none" /\ tooLong -> [err |-> "max code size exceeded", gas |-> 0, db |-> g.snap]
        [] err = "none" /\ short -> [err |-> "code store out of gas", gas |-> 0, db |-> g.snap]
        [] OTHER -> [err |-> err, gas |-> Unwound(g, d, err).gas, db |-> g.snap]

ReturnFromCreate ==
  /\ Len(frames) > 1 /\ ending # NotEnded /\ f1.kind \in Creates
  /\ LET u == Created(f1, db, ending.err, ending.data)
     IN  /\ frames' = <<AfterCreate(frames[2], f1.self, u.err, u.gas)>> \o Drop(frames, 2)
         /\ db' = u.db
         /\ returnData' = IF u.err = "reverted" THEN ending.data ELSE <<>>
         /\ ending' = NotEnded
  /\ UNCHANGED <<disk, tx, readOnly, receipts>>

-----------------------------------------------------------------------------
(* The start of a call: opCall and its relatives with evm.Call, CallCode,  *)
(* DelegateCall and StaticCall; opCreate, opCreate2 with evm.create.       *)

\* The depth of the interpreter is the number of running calls.
TooDeep(depth) == depth > CallCreateDepth

\* evm.Call's decision on state d: an early return, or the callee's frame.
Call(kind, d, caller, addr, input, gas, value, depth) ==
  LET known == IF Exist(d, addr) THEN d ELSE CreateAccount(d, addr)
  IN  CASE TooDeep(depth) -> [enter |-> FALSE, err |-> "depth"]
        [] ~ CanTransfer(d, caller, value) -> [enter |-> FALSE, err |-> "insufficient balance"]
        [] ~ Exist(d, addr) /\ addr \notin Precompiled /\ value = 0 -> [enter |-> FALSE, err |-> "none"]
        [] OTHER ->
             [enter |-> TRUE, db |-> Transfer(known, caller, addr, value),
              frame |-> NewContract(kind, caller, addr, value, gas, GetCode(d, addr), addr, input, d)]

\* opCall: the callee's world is loaded, the caller's StateDB put aside.
opCall(g, gas) ==
  LET s     == g.stack
      to    == BigToAddress(s[2])
      d     == New(World(to))
      input == MemGet(g.mem, s[4], s[5])
      c     == Call("CALL", d, g.self, to, input, gas + (IF s[3] # 0 THEN params.CallStipend ELSE 0),
                    s[3], Len(frames))
  IN  IF c.enter THEN [c EXCEPT !.frame.prevDB = db, !.frame.retOffset = s[6], !.frame.retSize = s[7]]
      ELSE c

\* CallCode, DelegateCall and StaticCall stay in the caller's StateDB.
opCallInPlace(g, kind, gas) ==
  LET s      == g.stack
      to     == BigToAddress(s[2])
      value  == IF kind = "CALLCODE" THEN s[3] ELSE 0
      rest   == Drop(s, IF kind = "CALLCODE" THEN 3 ELSE 2)
      frame  == NewContract(kind, IF kind = "DELEGATECALL" THEN g.caller ELSE g.self,
                            IF kind = "STATICCALL" THEN to ELSE g.self,
                            IF kind = "DELEGATECALL" THEN g.value ELSE value,
                            gas + (IF value # 0 THEN params.CallStipend ELSE 0),
                            GetCode(db, to), to, MemGet(g.mem, rest[1], rest[2]), db)
  IN  CASE TooDeep(Len(frames)) -> [enter |-> FALSE, err |-> "depth"]
        [] ~ CanTransfer(db, g.self, value) -> [enter |-> FALSE, err |-> "insufficient balance"]
        [] OTHER -> [enter |-> TRUE, db |-> db,
                     frame |-> [frame EXCEPT !.retOffset = rest[3], !.retSize = rest[4],
                                             !.setsReadOnly = (kind = "STATICCALL" /\ ~ readOnly)]]

\* The gas the callee gets: evm.callGasTemp.
callGasTemp(f, op) == callGas(f.gas, baseCost(f, op, memFee(f, op)), f.stack[1])

\* A call that is not entered: CALL commits the StateDB it has opened all the same.
StepCallTo(g, op, pop, gas, c) ==
  LET back == gas + (IF op \in {"CALL", "CALLCODE"} /\ g.stack[3] # 0 THEN params.CallStipend ELSE 0)
      rest == [g EXCEPT !.stack = Drop(@, pop)]
  IN  \/ /\ c.enter
         /\ frames' = <<c.frame, rest>> \o Drop(frames, 1)
         /\ db' = c.db
         /\ readOnly' = (readOnly \/ op = "STATICCALL")
         /\ UNCHANGED disk
      \/ /\ ~ c.enter
         /\ frames' = <<AfterCall(rest, [retOffset |-> 0, retSize |-> 0], c.err, <<>>, back)>> \o Drop(frames, 1)
         /\ IF op = "CALL" THEN CommitTo(BigToAddress(g.stack[2]), New(World(BigToAddress(g.stack[2]))))
            ELSE UNCHANGED disk
         /\ UNCHANGED <<db, readOnly>>

StepCall(op, fault, g, pop) ==
  /\ op \in Calls /\ fault = "none"
  /\ \E gas \in {callGasTemp(f1, op)} :
       StepCallTo(g, op, pop, gas, IF op = "CALL" THEN opCall(g, gas) ELSE opCallInPlace(g, op, gas))
  /\ returnData' = <<>>
  /\ UNCHANGED <<tx, ending, receipts>>

\* evm.create on state d, for the address addr; init is the code to run.
create(kind, d, caller, addr, init, gas, value, depth) ==
  LET bumped == SetNonce(d, caller, GetNonce(d, caller) + 1)
      taken  == GetNonce(bumped, addr) # 0 \/ GetCode(bumped, addr) # <<>>
      fresh  == SetNonce(CreateAccount(bumped, addr), addr, 1)
  IN  CASE TooDeep(depth) -> [enter |-> FALSE, err |-> "depth", db |-> d, gas |-> gas]
        [] ~ CanTransfer(d, caller, value) ->
             [enter |-> FALSE, err |-> "insufficient balance", db |-> d, gas |-> gas]
        [] taken -> [enter |-> FALSE, err |-> "address collision", db |-> bumped, gas |-> 0]
        [] OTHER -> [enter |-> TRUE, db |-> Transfer(fresh, caller, addr, value),
                     frame |-> NewContract(kind, caller, addr, value, gas, init, addr, <<>>, bumped)]

StepCreate(op, fault, g, pop) ==
  /\ op \in Creates /\ fault = "none"
  /\ LET s    == g.stack
         gas  == g.gas - g.gas \div 64
         init == MemGet(g.mem, s[2], s[3])
         addr == IF op = "CREATE" THEN CreateAddress(g.self, GetNonce(db, g.self))
                 ELSE CreateAddress2(g.self, s[4], init)
         rest == [UseGas(g, gas) EXCEPT !.stack = Drop(@, pop)]
     IN  \E c \in {create(op, db, g.self, addr, init, gas, s[1], Len(frames))} :
           /\ frames' = (IF c.enter THEN <<c.frame, rest>> ELSE <<AfterCreate(rest, addr, c.err, c.gas)>>)
                         \o Drop(frames, 1)
           /\ db' = c.db
           /\ returnData' = <<>>
  /\ UNCHANGED <<disk, tx, readOnly, ending, receipts>>

\* One round of the loop of Run.
StepOf(op, pop, fault, g) ==
  \/ StepFault(op, fault)
  \/ StepPlain(op, fault, g)
  \/ StepHalt(op, fault, g, pop)
  \/ StepCall(op, fault, g, pop)
  \/ StepCreate(op, fault, g, pop)
StepWith(op, e) == StepOf(op, e.pop, Fault(f1, op, e), Charged(f1, op, e))
Entry1 == IF Name(f1) = "INVALID" THEN Entry(0, 0, 0) ELSE JumpTable(GetOp(f1))
Run == Interpreting /\ StepWith(Name(f1), Entry1)

-----------------------------------------------------------------------------
(* DVMService and TransitionDb around the run.                             *)

Failed(err) == [status |-> "failed", err |-> err, gasUsed |-> 0, address |-> 0]
NonZeros(data) == Cardinality({i \in DOMAIN data : data[i] # 0})
Intrinsic(t) == IntrinsicGas(Len(t.data) - NonZeros(t.data), NonZeros(t.data), t.kind = "deploy")

ZeroAddress == 0

Submit(t) ==
  /\ tx = NoTx /\ Len(receipts) < MaxTxs

\* preCheck and buyGas touch the sender; what a transaction pays at once.
Bought(d, t) == SubBalance(d, t.from, 0)

\* The transaction ends before it runs.
Refuse(t, err) ==
  /\ receipts' = Append(receipts, Failed(err))
  /\ UNCHANGED <<disk, tx, db, frames, readOnly, returnData, ending>>

Enter(t, c) ==
  /\ tx' = t
  /\ db' = c.db
  /\ frames' = <<c.frame>>
  /\ UNCHANGED <<disk, readOnly, returnData, ending, receipts>>

\* A deployment runs in the world of the empty address; the nonce of the
\* sender is the time of the transaction.
DeploySmartContract(t) ==
  /\ Submit(t) /\ t.kind = "deploy"
  /\ LET d    == Bought(SetNonce(New(World(ZeroAddress)), t.from, t.time), t)
         gas  == t.gas - Intrinsic(t)
         addr == CreateAddress(t.from, GetNonce(d, t.from))
         c    == create("deploy", d, t.from, addr, t.data, gas, t.value, 0)
     IN  IF Intrinsic(t) = Overflow \/ t.gas < Intrinsic(t) THEN Refuse(t, "out of gas")
         ELSE IF c.enter THEN Enter(t, c) ELSE Refuse(t, c.err)

ExecuteSmartContract(t) ==
  /\ Submit(t) /\ t.kind = "execute"
  /\ LET b   == Bought(New(World(t.to)), t)
         d   == SetNonce(b, t.from, GetNonce(b, t.from) + 1)
         c   == Call("execute", d, t.from, t.to, t.data, t.gas - Intrinsic(t), 0, 0)
     IN  IF Intrinsic(t) = Overflow \/ t.gas < Intrinsic(t) THEN Refuse(t, "out of gas")
         ELSE IF c.enter THEN Enter(t, c)
         ELSE /\ CommitTo(t.to, d)
              /\ receipts' = Append(receipts, [status |-> "ok", err |-> "none", gasUsed |-> Intrinsic(t),
                                               address |-> t.to])
              /\ UNCHANGED <<tx, db, frames, readOnly, returnData, ending>>

\* refundGas, then the receipt and the commit, which overwrites what calls back
\* into the contract have committed; a transaction that failed commits nothing,
\* its StateDB is dropped, and what its calls have committed stays.
Finish ==
  /\ Len(frames) = 1 /\ ending # NotEnded
  /\ LET u == IF f1.kind = "deploy" THEN Created(f1, db, ending.err, ending.data)
              ELSE [err |-> ending.err] @@ Unwound(f1, db, ending.err)
         d == IF f1.kind = "deploy" THEN SetNonce(u.db, tx.from, GetNonce(u.db, tx.from) + 1) ELSE u.db
         used == tx.gas - u.gas
         refund == BigMin(used \div 2, d.refund)
     IN  IF u.err = "none"
         THEN /\ CommitTo(f1.self, d)
              /\ receipts' = Append(receipts, [status |-> "ok", err |-> "none", gasUsed |-> used - refund,
                                               address |-> f1.self])
         ELSE /\ UNCHANGED disk
              /\ receipts' = Append(receipts, Failed(u.err))
  /\ frames' = <<>> /\ tx' = NoTx /\ db' = NoDB /\ ending' = NotEnded /\ returnData' = <<>>
  /\ UNCHANGED <<readOnly>>

Init ==
  /\ disk \in Worlds
  /\ tx = NoTx
  /\ db = NoDB
  /\ frames = <<>>
  /\ readOnly = FALSE
  /\ returnData = <<>>
  /\ ending = NotEnded
  /\ receipts = <<>>

Step == RunEmpty \/ RunPrecompiledContract \/ Run
Return == ReturnFromCall \/ ReturnFromCreate \/ Finish

Done == tx = NoTx /\ Len(receipts) = MaxTxs /\ UNCHANGED vars

Next ==
  \/ \E t \in Txs : DeploySmartContract(t) \/ ExecuteSmartContract(t)
  \/ Step
  \/ Return
  \/ Done

Spec == Init /\ [][Next]_vars

-----------------------------------------------------------------------------
(* Properties.                                                             *)

AccountType(o) ==
  /\ o.bal \in Nat /\ o.nonce \in Nat /\ o.suicided \in BOOLEAN
  /\ \A k \in DOMAIN o.store : o.store[k] \in Word /\ o.store[k] # 0

\* Type invariant: worlds hold accounts with non-negative balances and no
\* zero slot, frames hold words and a gas that fits a uint64.
TypeOK ==
  /\ \A c \in DOMAIN disk : \A a \in DOMAIN disk[c] : AccountType(disk[c][a])
  /\ \A a \in DOMAIN db.acct : AccountType(db.acct[a])
  /\ db.dirty \subseteq DOMAIN db.acct
  /\ \A i \in DOMAIN frames : /\ frames[i].gas \in 0 .. MaxUint64
                              /\ \A x \in Range(frames[i].stack) : x \in Word
                              /\ Len(frames[i].mem) % WordBytes = 0
  /\ readOnly \in BOOLEAN
  /\ Len(receipts) <= MaxTxs

\* Where instructions start, read off the code from its first byte.
Boundary(code) ==
  FoldLeftDomain(LAMBDA starts, i :
                   IF i - 1 \in starts THEN starts \cup {IF IsPush(code[i]) THEN i + Arg(code[i]) ELSE i}
                   ELSE starts,
                 {0}, code)

\* The program counter of every call is at the start of an instruction, never
\* inside the argument of a PUSH: the analysis behind opJump and opJumpi.
PcOnInstruction ==
  \A i \in DOMAIN frames : frames[i].pc < Len(frames[i].code) => frames[i].pc \in Boundary(frames[i].code)

\* A step of the innermost call that neither ends it nor starts another one.
StaysInFrame ==
  /\ Interpreting /\ ending' = NotEnded /\ Len(frames') = Len(frames)
  /\ Name(f1) \notin Calls \cup Creates

\* An instruction that runs changes the stack by what jump_table.go says it
\* pops and pushes (the stack check relies on the table, not on the code of
\* the instruction), counting the results of calls when they return.
StackFollowsTable ==
  [][StaysInFrame =>
       Len(frames'[1].stack) = Len(f1.stack) - Entry1.pop + Entry1.push]_vars

TotalGas(fs) == FoldLeft(LAMBDA acc, f : acc + f.gas, 0, fs)

\* What is left of the transaction: the gas of all running calls, the calls,
\* the bytes of the running program.
Left(fs, e) ==
  <<TotalGas(fs), 2 * Len(fs) - (IF e = NotEnded THEN 0 ELSE 1),
    IF fs = <<>> THEN 0 ELSE Len(fs[1].code) - fs[1].pc>>
Less(x, y) == \E i \in 1 .. 3 : x[i] < y[i] /\ \A j \in 1 .. i - 1 : x[j] = y[j]

\* No instruction, call, stipend or refund of a failed call makes gas, and
\* every step uses some of it, ends a call or moves on in the program (the
\* free EXTCODEHASH and STOP): so every transaction ends.
EveryStepProgresses == [][tx # NoTx => Less(Left(frames', ending'), Left(frames, ending))]_vars

\* memory.Set and memory.Get find the memory they use: what memory_table.go
\* makes Run allocate covers what the instruction touches.
MemoryCovered ==
  Interpreting =>
    LET op == Name(f1)
    IN  Fault(f1, op, Entry1) = "none" /\ ExecFault(f1, op) = "none" =>
          \A r \in Accesses(f1, op) : Within(Charged(f1, op, Entry1).mem, r[1], r[2])

StoresOf(world) == [a \in DOMAIN world |-> [code |-> world[a].code, store |-> world[a].store]]

\* Nothing stored changes while a STATICCALL is running, whatever it calls:
\* slots, codes, logs and balances of existing accounts in the StateDB in use,
\* slots and codes on disk.
StaticCallWritesNothing ==
  [][readOnly /\ readOnly' /\ frames' # <<>> =>
       /\ \A a \in DOMAIN disk : \A x \in DOMAIN disk[a] : StoresOf(disk'[a])[x] = StoresOf(disk[a])[x]
       /\ Len(frames') = Len(frames) => db' = db]_vars

\* Nothing that a failed call did reaches the disk, although opCall commits
\* after a failed call too: codes and slots of a world change there only by a
\* call into it, or a transaction, that ends without an error, or back to what
\* they were when the failed call was started (a call back into the contract
\* has committed in between, and that commit is undone).
FailuresLeaveNothing ==
  [][\A a \in DOMAIN disk : StoresOf(disk'[a]) # StoresOf(disk[a]) =>
       \/ tx = NoTx
       \/ f1.self = a /\ (ending.err = "none" \/ StoresOf(disk'[a]) = StoresOf(f1.snap.root))]_vars

SumBal(d) == FoldFunction(+, 0, [a \in DOMAIN d.acct |-> d.acct[a].bal])

\* The StateDB a step starts from: a CALL opens the world of its callee.
Opened == IF Len(frames') > Len(frames) /\ frames'[1].kind = "CALL" THEN New(World(frames'[1].self)) ELSE db

\* Within a StateDB no coins appear: instructions, calls and creations move
\* them, and only an account taken over from the ledger adds its balance.
ValueConserved ==
  [][Interpreting =>
       SumBal(db') <= SumBal(Opened) + FoldFunction(+, 0, [a \in DOMAIN db'.acct \ DOMAIN Opened.acct |->
                                                             newStateObject(a).bal])]_vars

\* What a call works on is sound: its data are of their types, it is at an
\* instruction, and the memory it is about to use is there (Run).
FrameSound == TypeOK /\ PcOnInstruction /\ MemoryCovered

\* Every instruction does what its entry in jump_table.go says: to the stack, to
\* the gas, and, in a static call, to the state.
StepsAsTabled == StackFollowsTable /\ EveryStepProgresses /\ StaticCallWritesNothing
=============================================================================
