------------------------------ MODULE RlpCheck ------------------------------
(***************************************************************************)
(* What RLP promises, over all short inputs and some long ones.            *)
(***************************************************************************)
EXTENDS Rlp, FiniteSets, TLC

U8 == [k |-> "uint", bits |-> 8]
U16 == [k |-> "uint", bits |-> 16]
Big == [k |-> "big"]
ByteString == [k |-> "bytes"]
AnyType == [k |-> "any"]
ArrayOf(n) == [k |-> "array", len |-> n]
SliceOf(t) == [k |-> "slice", elem |-> t]
Struct(fs) == [k |-> "struct", fields |-> fs]

Types == {U8, U16, Big, [k |-> "bool"], ByteString, AnyType, [k |-> "raw"], ArrayOf(1), ArrayOf(2), SliceOf(U8),
          SliceOf(SliceOf(ByteString)), [k |-> "vector", elem |-> U8, len |-> 2],
          Struct(<<U16, ByteString>>), Struct(<<U8, [k |-> "tail", elem |-> ByteString]>>),
          [k |-> "ptr", elem |-> SliceOf(U8)]}

Tags == {0, 1, 127, 128, 129, 130, 131, 184, 192, 193, 194, 195, 248}
Filler(n) == [i \in 1 .. n |-> 5]
LongInputs == {<<184, 56>> \o Filler(56), <<184, 55>> \o Filler(55), <<185, 0, 56>> \o Filler(56),
               <<248, 56>> \o Filler(56), <<248, 55>> \o Filler(55), <<248, 57>> \o Filler(56),
               <<248, 58, 184, 56>> \o Filler(56), <<249, 1, 3, 185, 1, 0>> \o Filler(256), <<248, 57, 184, 56>> \o Filler(56)}
ByteStrings == LongInputs \cup UNION {[1 .. n -> Tags] : n \in 0 .. 3}
                \cup {<<195>> \o b : b \in [1 .. 3 -> Tags]}

Leaves == {<<>>, <<0>>, <<127>>, <<128>>, <<1, 0>>, Filler(55), Filler(56), Filler(256)}
Values ==
  {<<U16, n>> : n \in {0, 1, 127, 128, 255, 256, 65535}} \cup {<<Big, n>> : n \in {0, 128, 65536, 16777216}}
  \cup {<<ByteString, b>> : b \in Leaves}
  \cup {<<SliceOf(SliceOf(ByteString)), <<<<a, b>>, <<>>, <<c>>>>>> : a \in Leaves, b \in Leaves, c \in Leaves}
  \cup {<<Struct(<<U16, SliceOf(ByteString), ByteString>>), <<n, <<a>>, b>>>> : n \in {0, 300}, a \in Leaves, b \in Leaves}
  \cup {<<[k |-> "ptr", elem |-> SliceOf(ByteString)], <<<<a>>>>>> : a \in Leaves}

\* The encoding as the yellow paper defines it.
RefString(b) == IF Len(b) = 1 /\ b[1] < 128 THEN b ELSE puthead(128, 183, Len(b)) \o b
RefList(items) == puthead(192, 247, Len(FlattenSeq(items))) \o FlattenSeq(items)
RECURSIVE Reference(_, _)
Reference(typ, v) ==
  CASE typ.k \in {"uint", "big"} -> IF v = 0 THEN <<128>> ELSE RefString(putint(v))
    [] typ.k = "bytes" -> RefString(v)
    [] typ.k = "slice" -> RefList([i \in DOMAIN v |-> Reference(typ.elem, v[i])])
    [] typ.k = "struct" -> RefList([i \in DOMAIN v |-> Reference(typ.fields[i], v[i])])
    [] typ.k = "ptr" -> Reference(typ.elem, v[1])

\* The buffer of strings and list headers gives the reference encoding, from
\* toBytes and from a reader asked for some number of bytes at a time, and the
\* decoder gives the value back.
EncodedRight(typ, v) ==
  \A enc \in {EncodeToBytes(typ, v)}, s \in {DecodeBytes(typ, Reference(typ, v))} :
    /\ enc = Reference(typ, v)
    /\ \A n \in {20, 56, 57} : encReader(writer(typ, v, EmptyBuf), n) = enc
    /\ s.err = "" /\ s.ret = v

\* Numbers of more than three bytes are out of TLC's reach.
TypesFor(b) == IF Len(b) > 4 THEN Types \ {Big} ELSE Types

\* A value has one encoding: what the decoder accepts is what the encoder makes
\* of the result.
DecodedCanonical(b) ==
  \A typ \in TypesFor(b) : \A s \in {DecodeBytes(typ, b)} : s.err = "" => EncodeToBytes(typ, s.ret) = b

\* The two parsers agree: Split accepts the front of an input exactly when the
\* stream does, and they see the same content; CountValues counts the elements.
ItemAt(s) == IF s.kind = "list" THEN rawNext(s) ELSE bytesAt(s)
ParsersAgree(b) ==
  \A p \in {Split(b)}, s \in {ItemAt(Kind(NewStream(b)))}, whole \in {DecodeBytes(AnyType, b)} :
    /\ (p.err = "") <=> (s.err = "")
    /\ p.err = "" => p.rest = s.in /\ s.ret = (IF p.kind = "list" THEN puthead(192, 247, Len(p.content)) ELSE <<>>) \o p.content
    /\ whole.err = "" /\ p.kind = "list" => CountValues(p.content) = Len(whole.ret[2])
=============================================================================
