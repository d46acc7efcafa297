------------------------------ MODULE EvmWord ------------------------------
(***************************************************************************)
(* The arithmetic of the EVM: what each arithmetic, comparison and bit     *)
(* instruction leaves on the stack (dvm/ethereum/vm/instructions.go), over *)
(* words of WordBytes bytes of ByteBits bits (32 and 8 in the code), and   *)
(* the conversions of dvm/ethereum/common/math/big.go.                     *)
(***************************************************************************)
EXTENDS EvmParams, Sequences, SequencesExt, Bitwise

WordBits == WordBytes * ByteBits
tt256 == 2^WordBits
tt255 == 2^(WordBits - 1)
Word == 0 .. tt256 - 1
Bytes(n) == [1 .. n -> 0 .. 2^ByteBits - 1]

\* Two's complement: math.U256 encodes an integer, math.S256 reads a word.
U256(x) == x % tt256
S256(x) == IF x < tt255 THEN x ELSE x - tt256

Abs(x) == IF x < 0 THEN -x ELSE x
Bool(b) == IF b THEN 1 ELSE 0

\* The number of bits of x, and bit i of x.
BitLen(x) == CHOOSE n \in 0 .. 31 : x < 2^n /\ (n > 0 => 2^(n - 1) <= x)
Bit(x, i) == (x \div 2^i) % 2

\* math.Exp: square and multiply over the bits of the exponent.
Exp(base, exponent) ==
  LET square(b) == U256(b * b)
      step(acc, i) == [r |-> IF Bit(exponent, i) = 1 THEN U256(acc.r * acc.b) ELSE acc.r,
                       b |-> square(acc.b)]
  IN  FoldLeftDomain(LAMBDA acc, i : step(acc, i - 1), [r |-> 1, b |-> base],
                     [i \in 1 .. BitLen(exponent) |-> i]).r

\* math.Byte and bigEndianByteAt: byte n of the word, counted from the most
\* significant one; ReadBits: the word as big-endian bytes.
bigEndianByteAt(x, n) == (x \div 2^(ByteBits * n)) % 2^ByteBits
Byte(x, padlength, n) == IF n >= padlength THEN 0 ELSE bigEndianByteAt(x, padlength - 1 - n)
ReadBits(x, len) == [i \in 1 .. len |-> bigEndianByteAt(x, len - i)]
PaddedBigBytes(x, n) ==
  LET bytes == (BitLen(x) + ByteBits - 1) \div ByteBits
  IN  ReadBits(x, IF BitLen(x) \div ByteBits >= n THEN bytes ELSE n)
SetBytes(s) == FoldLeft(LAMBDA acc, b : acc * 2^ByteBits + b, 0, s)

BigMax(x, y) == IF x < y THEN y ELSE x
BigMin(x, y) == IF x > y THEN y ELSE x
FirstBitSet(x) ==
  IF x = 0 THEN 0 ELSE CHOOSE i \in 0 .. BitLen(x) - 1 : Bit(x, i) = 1 /\ \A j \in 0 .. i - 1 : Bit(x, j) = 0

-----------------------------------------------------------------------------
(* One operator per instruction: x is the top of the stack, y and z the     *)
(* items below it.                                                         *)

opAdd(x, y) == U256(x + y)
opSub(x, y) == U256(x - y)
opMul(x, y) == U256(x * y)
opDiv(x, y) == IF y # 0 THEN U256(x \div y) ELSE 0

opSdiv(x, y) ==
  LET sx == S256(x)
      sy == S256(y)
      q  == Abs(sx) \div Abs(sy)
  IN  IF sy = 0 \/ sx = 0 THEN 0
      ELSE U256(IF (sx < 0) # (sy < 0) THEN -q ELSE q)

opMod(x, y) == IF y = 0 THEN 0 ELSE U256(x % y)

opSmod(x, y) ==
  LET sx == S256(x)
      sy == S256(y)
      r  == Abs(sx) % Abs(sy)
  IN  IF sy = 0 THEN 0 ELSE U256(IF sx < 0 THEN -r ELSE r)

opExp(base, exponent) == Exp(base, exponent)

\* SIGNEXTEND with a byte index of 31 or more pops the index only.
opSignExtend(back, num) ==
  IF back >= WordBytes - 1 THEN num
  ELSE LET bit  == back * ByteBits + ByteBits - 1
           mask == 2^bit - 1
       IN  IF Bit(num, bit) > 0 THEN num | (tt256 - 1 - mask) ELSE num & mask

opNot(x) == tt256 - 1 - x
opLt(x, y) == Bool(x < y)
opGt(x, y) == Bool(x > y)

opSlt(x, y) ==
  CASE x >= tt255 /\ y < tt255 -> 1
    [] x < tt255 /\ y >= tt255 -> 0
    [] OTHER -> Bool(x < y)

opSgt(x, y) ==
  CASE x >= tt255 /\ y < tt255 -> 0
    [] x < tt255 /\ y >= tt255 -> 1
    [] OTHER -> Bool(x > y)

opEq(x, y) == Bool(x = y)
opIszero(x) == Bool(x = 0)
opAnd(x, y) == x & y
opOr(x, y) == x | y
opXor(x, y) == x ^^ y
opByte(th, val) == IF th < WordBytes THEN Byte(val, WordBytes, th) ELSE 0
opAddmod(x, y, z) == IF z > 0 THEN U256((x + y) % z) ELSE 0
opMulmod(x, y, z) == IF z > 0 THEN U256((x * y) % z) ELSE 0
opSHL(shift, value) == IF shift >= WordBits THEN 0 ELSE U256(value * 2^shift)
opSHR(shift, value) == IF shift >= WordBits THEN 0 ELSE value \div 2^shift

\* Variant of opSAR: a logical shift.
opSARLogical(shift, value) == opSHR(shift, value)

\* big.Int.Rsh of a negative number rounds towards minus infinity.
opSAR(shift, value) ==
  LET s == S256(value)
  IN  IF shift >= WordBits THEN U256(IF s >= 0 THEN 0 ELSE -1)
      ELSE U256(s \div 2^shift)

-----------------------------------------------------------------------------
(* What the instructions owe each other, for all words x and y.            *)

\* Signed division truncates towards zero and its remainder has the sign of
\* the dividend: together they give the dividend back, for every sign and for
\* the one quotient that does not fit, -2^255 / -1.
SignedDivision(x, y) ==
  LET q == S256(opSdiv(x, y))
      r == S256(opSmod(x, y))
  IN  IF y = 0 THEN q = 0 /\ r = 0
      ELSE /\ U256(q * S256(y) + r) = x
           /\ Abs(r) < Abs(S256(y)) /\ (r # 0 => (r < 0) = (S256(x) < 0))
           /\ U256(opDiv(x, y) * y + opMod(x, y)) = x

\* Shifts are multiplication and division by powers of two, an arithmetic shift
\* rounds down, and opExp reaches each power.
ShiftsAgree(shift, x) ==
  LET p == opExp(2, shift)
  IN  /\ opSHL(shift, x) = opMul(x, p)
      /\ opSHR(shift, x) = (IF shift < WordBits THEN opDiv(x, p) ELSE 0)
      /\ shift < WordBits => /\ S256(opSAR(shift, x)) * 2^shift <= S256(x)
                             /\ S256(x) < (S256(opSAR(shift, x)) + 1) * 2^shift
      /\ shift >= WordBits => opSAR(shift, x) = (IF opSlt(x, 0) = 1 THEN opNot(0) ELSE 0)

\* Extending the sign of the low bytes is moving them to the top and back with
\* an arithmetic shift; the bytes of a word, joined, are the word.
SignExtends(back, x) ==
  /\ opSignExtend(back, x) =
       (IF back >= WordBytes THEN x
        ELSE LET up == WordBits - (back + 1) * ByteBits IN opSAR(up, opSHL(up, x)))
  /\ x = SetBytes([i \in 1 .. WordBytes |-> opByte(i - 1, x)])
=============================================================================
