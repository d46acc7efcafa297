---------------------------- MODULE TrieEncoding ----------------------------
(***************************************************************************)
(* The three encodings of trie keys (dvm/ethereum/trie/encoding.go): key    *)
(* bytes, hex (one nibble per element, 16 as terminator) and compact.      *)
(***************************************************************************)
EXTENDS Naturals, Sequences, SequencesExt

Terminator == 16

hasTerm(s) == s # <<>> /\ Last(s) = Terminator

\* The length of the common prefix of a and b.
prefixLen(a, b) == Len(LongestCommonPrefix({a, b}))

keybytesToHex(str) ==
  Append([i \in 1 .. 2 * Len(str) |->
            IF i % 2 = 1 THEN str[(i + 1) \div 2] \div 16 ELSE str[i \div 2] % 16], Terminator)

decodeNibbles(nibbles) ==
  [i \in 1 .. Len(nibbles) \div 2 |-> 16 * nibbles[2 * i - 1] + nibbles[2 * i]]

\* The key of an odd number of nibbles makes the program panic.
hexToKeybytes(hex) == decodeNibbles(IF hasTerm(hex) THEN Front(hex) ELSE hex)

hexToCompact(hex) ==
  LET flag == IF hasTerm(hex) THEN 32 ELSE 0
      h    == IF hasTerm(hex) THEN Front(hex) ELSE hex
  IN  IF Len(h) % 2 = 1
      THEN <<flag + 16 + h[1]>> \o decodeNibbles(Tail(h))
      ELSE <<flag>> \o decodeNibbles(h)

compactToHex(compact) ==
  LET base == keybytesToHex(compact)
      cut  == IF base[1] < 2 THEN Front(base) ELSE base
  IN  SubSeq(cut, 3 - (base[1] % 2), Len(cut))
=============================================================================
