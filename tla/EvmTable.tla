------------------------------ MODULE EvmTable ------------------------------
(***************************************************************************)
(* The instruction set of the EVM: the byte of every instruction           *)
(* (opcodes.go), and for each one its constant price, what it pops and     *)
(* pushes and its flags (jump_table.go, the Constantinople set that        *)
(* DVMService gives to the interpreter), with the prices of gas.go and     *)
(* params/.  PUSHn, DUPn, SWAPn and LOGn are one entry each; Arg gives n.  *)
(***************************************************************************)
EXTENDS Naturals, Sequences, TLC

Block(first, names) == [b \in first .. first + Len(names) - 1 |-> names[b - first + 1]]

\* opcodes.go, one block of constants each.
arithmeticOps == Block(0, <<"STOP", "ADD", "MUL", "SUB", "DIV", "SDIV", "MOD", "SMOD", "ADDMOD",
                            "MULMOD", "EXP", "SIGNEXTEND">>)
comparisonOps == Block(16, <<"LT", "GT", "SLT", "SGT", "EQ", "ISZERO", "AND", "OR", "XOR", "NOT",
                             "BYTE", "SHL", "SHR", "SAR">>) @@ (32 :> "SHA3")
closureStateOps == Block(48, <<"ADDRESS", "BALANCE", "ORIGIN", "CALLER", "CALLVALUE", "CALLDATALOAD",
                               "CALLDATASIZE", "CALLDATACOPY", "CODESIZE", "CODECOPY", "GASPRICE",
                               "EXTCODESIZE", "EXTCODECOPY", "RETURNDATASIZE", "RETURNDATACOPY",
                               "EXTCODEHASH">>)
blockOps == Block(64, <<"BLOCKHASH", "COINBASE", "TIMESTAMP", "NUMBER", "DIFFICULTY", "GASLIMIT">>)
storageOps == Block(80, <<"POP", "MLOAD", "MSTORE", "MSTORE8", "SLOAD", "SSTORE", "JUMP", "JUMPI",
                          "PC", "MSIZE", "GAS", "JUMPDEST">>)
pushOps == [b \in 96 .. 127 |-> "PUSH"] @@ [b \in 128 .. 143 |-> "DUP"] @@ [b \in 144 .. 159 |-> "SWAP"]
loggingOps == [b \in 160 .. 164 |-> "LOG"]
closureOps == Block(240, <<"CREATE", "CALL", "CALLCODE", "RETURN", "DELEGATECALL", "CREATE2">>)
                @@ (250 :> "STATICCALL" @@ 253 :> "REVERT" @@ 255 :> "SELFDESTRUCT")

\* The name of a byte; a byte that is no instruction is "INVALID".
opCodeToString ==
  LET ops == arithmeticOps @@ comparisonOps @@ closureStateOps @@ blockOps @@ storageOps
               @@ pushOps @@ loggingOps @@ closureOps
  IN  ops @@ [b \in (0 .. 255) \ DOMAIN ops |-> "INVALID"]

\* PUSH1 is 96, DUP1 128, SWAP1 144, LOG0 160.
IsPush(b) == b \in 96 .. 127
Arg(b) == CASE IsPush(b) -> b - 95
            [] b \in 128 .. 143 -> b - 127
            [] b \in 144 .. 159 -> b - 143
            [] b \in 160 .. 164 -> b - 160
            [] OTHER -> 0

-----------------------------------------------------------------------------
(* Prices: gas.go and params/protocol_params.go.                           *)

GasQuickStep == 2
GasFastestStep == 3
GasFastStep == 5
GasMidStep == 8
GasSlowStep == 10
GasExtStep == 20

params == [CallValueTransferGas |-> 9000, CallNewAccountGas |-> 25000, TxGas |-> 21000,
  TxGasContractCreation |-> 53000, TxDataZeroGas |-> 4, TxDataNonZeroGas |-> 68, QuadCoeffDiv |-> 512,
  SstoreSetGas |-> 20000, SstoreResetGas |-> 5000, SstoreClearGas |-> 5000, SstoreRefundGas |-> 15000,
  LogDataGas |-> 8, LogGas |-> 375, LogTopicGas |-> 375, CallStipend |-> 2300, Sha3Gas |-> 30,
  Sha3WordGas |-> 6, JumpdestGas |-> 1, CreateDataGas |-> 200, CopyGas |-> 3, CreateGas |-> 32000,
  Create2Gas |-> 32000, SuicideRefundGas |-> 24000, MemoryGas |-> 3, EcrecoverGas |-> 3000,
  Sha256BaseGas |-> 60, Sha256PerWordGas |-> 12, Ripemd160BaseGas |-> 600, Ripemd160PerWordGas |-> 120,
  IdentityBaseGas |-> 15, IdentityPerWordGas |-> 3, ModExpQuadCoeffDiv |-> 20, Bn256AddGas |-> 500,
  Bn256ScalarMulGas |-> 40000, Bn256PairingBaseGas |-> 100000, Bn256PairingPerPointGas |-> 80000]

\* params/gas_table.go.
GasTableHomestead == [ExtcodeSize |-> 20, ExtcodeCopy |-> 20, ExtcodeHash |-> 0, Balance |-> 20,
  SLoad |-> 50, Calls |-> 40, Suicide |-> 0, ExpByte |-> 10, CreateBySuicide |-> 0]
GasTableEIP150 == [ExtcodeSize |-> 700, ExtcodeCopy |-> 700, ExtcodeHash |-> 0, Balance |-> 400,
  SLoad |-> 200, Calls |-> 700, Suicide |-> 5000, ExpByte |-> 10, CreateBySuicide |-> 25000]
GasTableEIP158 == [GasTableEIP150 EXCEPT !.ExpByte = 50]
GasTableConstantinople == [GasTableEIP158 EXCEPT !.ExtcodeHash = 400]

\* ChainConfig.GasTable: DVMService runs the main net's rules at the block of
\* the Byzantium fork, where Constantinople has no block yet: EXTCODEHASH is
\* in the instruction set and costs nothing.
IsConstantinople == FALSE
IsEIP158 == TRUE
IsEIP150 == TRUE
GasTable ==
  CASE IsConstantinople -> GasTableConstantinople
    [] IsEIP158 -> GasTableEIP158
    [] IsEIP150 -> GasTableEIP150
    [] OTHER -> GasTableHomestead

-----------------------------------------------------------------------------
(* jump_table.go.  "gas" is the argument of constGasFunc, and 0 where a     *)
(* function of gas_table.go computes the price.                            *)

Entry(pop, push, gas) == [pop |-> pop, push |-> push, gas |-> gas, halts |-> FALSE, jumps |-> FALSE,
                          writes |-> FALSE, reverts |-> FALSE, returns |-> FALSE]
Entries(names, pop, push, gas) == [n \in names |-> Entry(pop, push, gas)]

frontierArithmetic ==
  "STOP" :> [Entry(0, 0, 0) EXCEPT !.halts = TRUE]
  @@ Entries({"ADD", "SUB", "LT", "GT", "SLT", "SGT"}, 2, 1, GasFastestStep)
  @@ Entries({"MUL", "DIV", "SDIV", "MOD", "SMOD", "SIGNEXTEND"}, 2, 1, GasFastStep)
  @@ Entries({"ADDMOD", "MULMOD"}, 3, 1, GasMidStep)
  @@ Entries({"EXP"}, 2, 1, 0)

frontierBits ==
  Entries({"EQ", "AND", "XOR", "OR", "BYTE"}, 2, 1, GasFastestStep)
  @@ Entries({"ISZERO", "NOT"}, 1, 1, GasFastestStep)
  @@ Entries({"SHA3"}, 2, 1, 0)

frontierClosureState ==
  Entries({"ADDRESS", "ORIGIN", "CALLER", "CALLVALUE", "CALLDATASIZE", "CODESIZE", "GASPRICE"},
          0, 1, GasQuickStep)
  @@ Entries({"CALLDATALOAD"}, 1, 1, GasFastestStep)
  @@ Entries({"BALANCE", "EXTCODESIZE"}, 1, 1, 0)
  @@ Entries({"CALLDATACOPY", "CODECOPY"}, 3, 0, 0)
  @@ Entries({"EXTCODECOPY"}, 4, 0, 0)

frontierBlock ==
  Entries({"BLOCKHASH"}, 1, 1, GasExtStep)
  @@ Entries({"COINBASE", "TIMESTAMP", "NUMBER", "DIFFICULTY", "GASLIMIT"}, 0, 1, GasQuickStep)
  @@ Entries({"POP"}, 1, 0, GasQuickStep)

frontierStorage ==
  Entries({"MLOAD", "SLOAD"}, 1, 1, 0)
  @@ Entries({"MSTORE", "MSTORE8"}, 2, 0, 0)
  @@ ("SSTORE" :> [Entry(2, 0, 0) EXCEPT !.writes = TRUE])
  @@ ("JUMP" :> [Entry(1, 0, GasMidStep) EXCEPT !.jumps = TRUE])
  @@ ("JUMPI" :> [Entry(2, 0, GasSlowStep) EXCEPT !.jumps = TRUE])
  @@ Entries({"PC", "MSIZE", "GAS"}, 0, 1, GasQuickStep)
  @@ Entries({"JUMPDEST"}, 0, 0, params.JumpdestGas)

\* The entries of DUPn and SWAPn depend on n: makeDupStackFunc(n) and
\* makeSwapStackFunc(n + 1).
frontierPush(n) == Entry(0, 1, GasFastestStep)

frontierDup(n) == Entry(n, n + 1, GasFastestStep)
frontierSwap(n) == Entry(n + 1, n + 1, GasFastestStep)
frontierLog(n) == [Entry(n + 2, 0, 0) EXCEPT !.writes = TRUE]

frontierClosures ==
  "CREATE" :> [Entry(3, 1, 0) EXCEPT !.writes = TRUE, !.returns = TRUE]
  @@ [n \in {"CALL", "CALLCODE"} |-> [Entry(7, 1, 0) EXCEPT !.returns = TRUE]]
  @@ "RETURN" :> [Entry(2, 0, 0) EXCEPT !.halts = TRUE]
  @@ "SELFDESTRUCT" :> [Entry(1, 0, 0) EXCEPT !.halts = TRUE, !.writes = TRUE]

newHomesteadInstructionSet == "DELEGATECALL" :> [Entry(6, 1, 0) EXCEPT !.returns = TRUE]

newByzantiumInstructionSet ==
  "STATICCALL" :> [Entry(6, 1, 0) EXCEPT !.returns = TRUE]
  @@ Entries({"RETURNDATASIZE"}, 0, 1, GasQuickStep)
  @@ Entries({"RETURNDATACOPY"}, 3, 0, 0)
  @@ "REVERT" :> [Entry(2, 0, 0) EXCEPT !.reverts = TRUE, !.returns = TRUE]

newConstantinopleInstructionSet ==
  Entries({"SHL", "SHR", "SAR"}, 2, 1, GasFastestStep)
  @@ Entries({"EXTCODEHASH"}, 1, 1, 0)
  @@ "CREATE2" :> [Entry(4, 1, 0) EXCEPT !.writes = TRUE, !.returns = TRUE]

plainEntries ==
  frontierArithmetic @@ frontierBits @@ frontierClosureState @@ frontierBlock @@ frontierStorage @@ frontierClosures
  @@ newHomesteadInstructionSet @@ newByzantiumInstructionSet @@ newConstantinopleInstructionSet

\* JumpTable[op], for an op that is valid.
JumpTable(b) ==
  LET name == opCodeToString[b]
  IN  CASE name = "PUSH" -> frontierPush(Arg(b))
        [] name = "DUP" -> frontierDup(Arg(b))
        [] name = "SWAP" -> frontierSwap(Arg(b))
        [] name = "LOG" -> frontierLog(Arg(b))
        [] OTHER -> plainEntries[name]
=============================================================================
