----------------------------- MODULE EvmParams -----------------------------
(***************************************************************************)
(* The sizes of the EVM as parameters: in the code a word has 32 bytes of  *)
(* 8 bits, an address 20, gas is a uint64, and the limits are those of     *)
(* params/protocol_params.go and of memoryGasCost.                         *)
(***************************************************************************)
EXTENDS Integers

CONSTANTS
  WordBytes,        \* bytes of a word, and of a word of memory (32)
  ByteBits,         \* bits of a byte (8)
  AddressBytes,     \* bytes of an address (20)
  MaxUint64,        \* largest uint64 (2^64 - 1)
  MaxMemSize,       \* bound of memoryGasCost (0xffffffffe0)
  StackLimit,       \* items of a stack (1024)
  CallCreateDepth,  \* nested calls (1024)
  MaxCodeSize       \* bytes of a contract's code (24576)

ASSUME EvmAssumption ==
  /\ WordBytes \in Nat \ {0, 1}
  /\ ByteBits \in Nat \ {0}
  /\ AddressBytes \in 1 .. WordBytes - 1
  /\ MaxUint64 \in Nat
  /\ MaxMemSize \in 0 .. MaxUint64
  /\ {StackLimit, CallCreateDepth, MaxCodeSize} \subseteq Nat
=============================================================================
