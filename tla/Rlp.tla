--------------------------------- MODULE Rlp ---------------------------------
(***************************************************************************)
(* RLP (dvm/ethereum/rlp): the encoder with its buffer of list headers, the *)
(* streaming decoder, and the functions of raw.go that the trie uses.      *)
(*                                                                         *)
(* A type is a record; its "k" is                                          *)
(*   uint (bits), big, bool, bytes, array (len), raw, any,                  *)
(*   slice (elem), vector (elem, len), struct (fields, tail), ptr (elem),   *)
(*   optional (elem): a pointer with the tag "nil".                        *)
(* Reflection finds the functions of a type; here "writer" and "decoder"    *)
(* do.  A pointer is <<>> or <<value>>.  Numbers stay below 2^31.          *)
(***************************************************************************)
EXTENDS Integers, Sequences, SequencesExt

-----------------------------------------------------------------------------
(* Numbers and headers.                                                    *)

RECURSIVE intsize(_)
intsize(i) == IF i < 256 THEN 1 ELSE 1 + intsize(i \div 256)

\* The big-endian bytes of i, without leading zeros.
putint(i) == [j \in 1 .. intsize(i) |-> (i \div 256 ^ (intsize(i) - j)) % 256]

Number(bytes) == FoldLeft(LAMBDA n, b : 256 * n + b, 0, bytes)

headsize(size) == IF size < 56 THEN 1 ELSE 1 + intsize(size)

puthead(smalltag, largetag, size) ==
  IF size < 56 THEN <<smalltag + size>> ELSE <<largetag + intsize(size)>> \o putint(size)

-----------------------------------------------------------------------------
(* encbuf: the strings in one buffer, the list headers beside it.          *)

EmptyBuf == [str |-> <<>>, lheads |-> <<>>, lhsize |-> 0]

write(w, b) == [w EXCEPT !.str = @ \o b]

encodeStringHeader(w, size) == write(w, puthead(128, 183, size))

encodeString(w, b) ==
  IF Len(b) = 1 /\ b[1] <= 127 THEN write(w, b) ELSE write(encodeStringHeader(w, Len(b)), b)

bufSize(w) == Len(w.str) + w.lhsize

\* The size of a new header holds the headers before it until listEnd.
list(w) == [w EXCEPT !.lheads = Append(@, [offset |-> Len(w.str), size |-> w.lhsize])]

\* The list whose header is number h is complete.
listEnd(w, h) ==
  LET size == bufSize(w) - w.lheads[h].offset - w.lheads[h].size
  IN  [w EXCEPT !.lheads[h].size = size, !.lhsize = @ + headsize(size)]

\* The strings and headers from header number i on, strpos bytes being out.
RECURSIVE pieces(_, _, _)
pieces(w, i, strpos) ==
  IF i > Len(w.lheads) THEN <<SubSeq(w.str, strpos + 1, Len(w.str))>>
  ELSE <<SubSeq(w.str, strpos + 1, w.lheads[i].offset), puthead(192, 247, w.lheads[i].size)>>
         \o pieces(w, i + 1, w.lheads[i].offset)

toBytes(w) == FlattenSeq(pieces(w, 1, 0))

\* encReader: the pieces that are not empty, and what Read(n) takes of them; the
\* reads of a caller that always asks for n bytes.
RECURSIVE fill(_, _, _)
fill(ps, n, out) ==
  IF ps = <<>> THEN [out |-> out, rest |-> <<>>]
  ELSE IF Len(ps[1]) > n - Len(out)
  THEN [out |-> out \o SubSeq(ps[1], 1, n - Len(out)),
        rest |-> <<SubSeq(ps[1], n - Len(out) + 1, Len(ps[1]))>> \o Tail(ps)]
  ELSE fill(Tail(ps), n, out \o ps[1])

RECURSIVE readAll(_, _)
readAll(r, n) == IF r.rest = <<>> THEN r.out ELSE r.out \o readAll(fill(r.rest, n, <<>>), n)
encReader(w, n) == readAll(fill(SelectSeq(pieces(w, 1, 0), LAMBDA p : p # <<>>), n, <<>>), n)

-----------------------------------------------------------------------------
(* The writers.                                                            *)

writeUint(w, i) ==
  IF i = 0 THEN write(w, <<128>>)
  ELSE IF i < 128 THEN write(w, <<i>>)
  ELSE write(w, <<128 + intsize(i)>> \o putint(i))
writeBool(w, b) == write(w, IF b THEN <<1>> ELSE <<128>>)
writeBigInt(w, i) == IF i = 0 THEN write(w, <<128>>) ELSE encodeString(w, putint(i))

RECURSIVE writer(_, _, _)
writer(typ, v, w) ==
  LET inList(body(_)) == listEnd(body(list(w)), Len(w.lheads) + 1)
      elems(elem, b) == FoldLeft(LAMBDA x, e : writer(elem, e, x), b, v)
      fields(b) == FoldLeft(LAMBDA x, i : writer(typ.fields[i], v[i], x), b, [i \in DOMAIN v |-> i])
  IN
  CASE typ.k = "uint"  -> writeUint(w, v)
    [] typ.k = "big"   -> writeBigInt(w, v)
    [] typ.k = "bool"  -> writeBool(w, v)
    [] typ.k \in {"bytes", "array"} -> encodeString(w, v)
    [] typ.k = "raw"   -> write(w, v)
    [] typ.k = "any"   -> IF v[1] = "bytes" THEN encodeString(w, v[2]) ELSE writer([k |-> "slice", elem |-> typ], v[2], w)
    [] typ.k = "tail"  -> elems(typ.elem, w)
    [] typ.k \in {"slice", "vector"} -> inList(LAMBDA b : elems(typ.elem, b))
    [] typ.k = "struct" -> inList(fields)
    [] typ.k \in {"ptr", "optional"} ->
         IF v # <<>> THEN writer(typ.elem, v[1], w)
         ELSE IF typ.elem.k \in {"struct", "vector", "slice"} THEN inList(LAMBDA b : b)
         ELSE write(w, <<128>>)

EncodeToBytes(typ, v) == toBytes(writer(typ, v, EmptyBuf))

-----------------------------------------------------------------------------
(* Stream.  Each method returns the stream with its result in ret and err; *)
(* "kind" is "none" until the value ahead has been looked at.              *)

NewStream(b) ==
  [in |-> b, stack |-> <<>>, kind |-> "none", size |-> 0, byteval |-> 0, ret |-> <<>>, err |-> ""]

Fails(s, e) == [s EXCEPT !.err = e]
Top(s) == Last(s.stack)
Left(s) == Top(s).size - Top(s).pos

\* The limit of the stream is the length of its input.
willRead(s, n) ==
  LET t == [s EXCEPT !.kind = "none"]
      moved == IF s.stack = <<>> THEN t ELSE [t EXCEPT !.stack[Len(s.stack)].pos = @ + n]
  IN  IF s.stack # <<>> /\ n > Left(s) THEN Fails(t, "ElemTooLarge")
      ELSE IF n > Len(s.in) THEN Fails(moved, "ValueTooLarge")
      ELSE moved

take(s, n) == IF s.err # "" THEN s
              ELSE [s EXCEPT !.ret = SubSeq(s.in, 1, n), !.in = SubSeq(@, n + 1, Len(@))]
readFull(s, n) == take(willRead(s, n), n)
readByte(s) == readFull(s, 1)

\* Variant of readUint: leading zeros pass.
readUintLenient(s, size) ==
  IF size = 0 THEN [s EXCEPT !.kind = "none", !.ret = 0]
  ELSE LET t == readFull(s, size) IN IF t.err # "" THEN t ELSE [t EXCEPT !.ret = Number(@)]

readUint(s, size) ==
  IF size = 0 THEN [s EXCEPT !.kind = "none", !.ret = 0]
  ELSE LET t == readFull(s, size)
       IN  IF t.err # "" THEN t
           ELSE IF size > 1 /\ t.ret[1] = 0 THEN Fails(t, "CanonSize")
           ELSE [t EXCEPT !.ret = Number(@)]

\* The kind and, in ret, the size that a tag announces.
longKind(s, kind) == IF s.err # "" THEN s ELSE [(IF s.ret < 56 THEN Fails(s, "CanonSize") ELSE s) EXCEPT !.kind = kind]
streamReadKind(s) ==
  LET b == s.ret[1]
  IN  IF s.err # "" THEN s
      ELSE CASE b < 128 -> [s EXCEPT !.kind = "byte", !.ret = 0, !.byteval = b]
             [] b \in 128 .. 183 -> [s EXCEPT !.kind = "string", !.ret = b - 128]
             [] b \in 184 .. 191 -> longKind(readUint(s, b - 183), "string")
             [] b \in 192 .. 247 -> [s EXCEPT !.kind = "list", !.ret = b - 192]
             [] b > 247 -> longKind(readUint(s, b - 247), "list")

\* The value against the input, or against what is left of its list.
tooLarge(s) == IF s.stack = <<>> THEN s.ret > Len(s.in) ELSE s.ret > Left(s)
sized(s) == IF s.err # "" THEN s ELSE IF tooLarge(s) THEN Fails(s, "TooLarge") ELSE [s EXCEPT !.size = s.ret]

Kind(s) ==
  IF s.kind # "none" THEN s
  ELSE IF s.stack # <<>> /\ Left(s) = 0 THEN Fails(s, "EOL")
  ELSE sized(streamReadKind(readByte(s)))

Armed(s, v) == [s EXCEPT !.kind = "none", !.ret = v]

\* A single byte that a longer form hides.
canonByte(s, n) == IF s.err = "" /\ n = 1 /\ s.ret[1] < 128 THEN Fails(s, "CanonSize") ELSE s

bytesAt(s) ==
  CASE s.err # "" -> s
    [] s.err = "" /\ s.kind = "byte" -> Armed(s, <<s.byteval>>)
    [] s.err = "" /\ s.kind = "string" -> canonByte(readFull(s, s.size), s.size)
    [] OTHER -> Fails(s, "ExpectedString")
Bytes(s) == bytesAt(Kind(s))

rawAt(s, kind, size) ==
  IF s.err # "" THEN s
  ELSE IF kind = "byte" THEN Armed(s, <<s.byteval>>)
  ELSE LET t == readFull(s, size) IN IF t.err # "" THEN t
       ELSE [t EXCEPT !.ret = (IF kind = "string" THEN puthead(128, 183, size) ELSE puthead(192, 247, size)) \o @]
rawNext(s) == rawAt(s, s.kind, s.size)
Raw(s) == rawNext(Kind(s))

shortUint(s, size) ==
  IF s.err = "CanonSize" THEN Fails(s, "CanonInt")
  ELSE IF s.err # "" THEN s
  ELSE IF size > 0 /\ s.ret < 128 THEN Fails(s, "CanonSize") ELSE s
uintAt(s, bits) ==
  CASE s.err # "" -> s
    [] s.err = "" /\ s.kind = "byte" -> IF s.byteval = 0 THEN Fails(s, "CanonInt") ELSE Armed(s, s.byteval)
    [] s.err = "" /\ s.kind = "string" ->
         IF s.size > bits \div 8 THEN Fails(s, "Overflow") ELSE shortUint(readUint(s, s.size), s.size)
    [] OTHER -> Fails(s, "ExpectedString")
uint(s, bits) == uintAt(Kind(s), bits)

boolAt(s) == IF s.err # "" THEN s ELSE IF s.ret > 1 THEN Fails(s, "NotBool") ELSE [s EXCEPT !.ret = @ = 1]
Bool(s) == boolAt(uint(s, 8))

listAt(s) ==
  IF s.err # "" THEN s
  ELSE IF s.kind # "list" THEN Fails(s, "ExpectedList")
  ELSE [s EXCEPT !.stack = Append(@, [pos |-> 0, size |-> s.size]), !.kind = "none", !.size = 0, !.ret = <<>>]
List(s) == listAt(Kind(s))

\* The list counts as read in the list around it.
ListEnd(s) ==
  IF s.err # "" THEN s
  ELSE IF Left(s) # 0 THEN Fails(s, "NotAtEOL")
  ELSE LET up == Front(s.stack)
       IN  [s EXCEPT !.kind = "none", !.size = 0,
                     !.stack = IF up = <<>> THEN up ELSE [up EXCEPT ![Len(up)].pos = @ + Top(s).size]]

-----------------------------------------------------------------------------
(* The decoders.                                                           *)

noLeadingZero(s) ==
  IF s.err # "" THEN s
  ELSE IF s.ret # <<>> /\ s.ret[1] = 0 THEN Fails(s, "CanonInt") ELSE [s EXCEPT !.ret = Number(@)]

byteArrayAt(s, len) ==
  CASE s.err # "" -> s
    [] s.err = "" /\ s.kind = "byte" -> IF len # 1 THEN Fails(s, "WrongLength") ELSE Armed(s, <<s.byteval>>)
    [] s.err = "" /\ s.kind = "string" ->
         IF s.size # len THEN Fails(s, "WrongLength") ELSE canonByte(readFull(s, len), len)
    [] OTHER -> Fails(s, "ExpectedString")

\* A pointer is set when its element was decoded.
pointed(s) == IF s.err # "" THEN s ELSE [s EXCEPT !.ret = <<@>>]
Pair(s, tag) == IF s.err # "" THEN s ELSE [s EXCEPT !.ret = <<tag, @>>]

RECURSIVE decoder(_, _), elemsOn(_, _, _), fieldsOn(_, _, _), vectorOn(_, _, _, _), optionalAt(_, _), anyAt(_, _)

\* decodeSliceElems: until the end of the list.
elemsOn(s, elem, got) ==
  IF s.err = "EOL" THEN [s EXCEPT !.err = "", !.ret = got]
  ELSE IF s.err # "" THEN s
  ELSE elemsOn(decoder(elem, s), elem, Append(got, s.ret))
sliceElems(s, elem) == IF s.err # "" THEN s ELSE elemsOn(decoder(elem, s), elem, <<>>)

\* s holds the result of field number Len(got) + 1.
fieldsOn(s, fields, got) ==
  IF s.err = "EOL" THEN Fails(s, "TooFewElements")
  ELSE IF s.err # "" THEN s
  ELSE IF Len(got) + 1 = Len(fields) THEN [s EXCEPT !.ret = Append(got, s.ret)]
  ELSE fieldsOn(decoder(fields[Len(got) + 2], s), fields, Append(got, s.ret))
structFields(s, fields) == IF s.err # "" THEN s ELSE fieldsOn(decoder(fields[1], s), fields, <<>>)

vectorOn(s, elem, len, got) ==
  IF s.err = "EOL" THEN Fails(s, "TooFewElements")
  ELSE IF s.err # "" THEN s
  ELSE IF Len(got) + 1 = len THEN [s EXCEPT !.ret = Append(got, s.ret)]
  ELSE vectorOn(decoder(elem, s), elem, len, Append(got, s.ret))
vectorElems(s, elem, len) == IF s.err # "" THEN s ELSE vectorOn(decoder(elem, s), elem, len, <<>>)

optionalAt(s, elem) ==
  IF s.err # "" THEN s
  ELSE IF s.size = 0 /\ s.kind # "byte" THEN Armed(s, <<>>)
  ELSE pointed(decoder(elem, s))

anyAt(s, typ) ==
  IF s.err # "" THEN s
  ELSE IF s.kind = "list" THEN Pair(decoder([k |-> "slice", elem |-> typ], s), "list")
  ELSE Pair(bytesAt(s), "bytes")

decoder(typ, s) ==
  CASE typ.k = "uint"  -> uint(s, typ.bits)
    [] typ.k = "big"   -> noLeadingZero(Bytes(s))
    [] typ.k = "bool"  -> Bool(s)
    [] typ.k = "bytes" -> Bytes(s)
    [] typ.k = "array" -> byteArrayAt(Kind(s), typ.len)
    [] typ.k = "raw"   -> Raw(s)
    [] typ.k = "any"   -> anyAt(Kind(s), typ)
    [] typ.k = "tail"  -> elemsOn(decoder(typ.elem, s), typ.elem, <<>>)
    [] typ.k = "slice" -> ListEnd(sliceElems(List(s), typ.elem))
    [] typ.k = "vector" -> ListEnd(vectorElems(List(s), typ.elem, typ.len))
    [] typ.k = "struct" -> ListEnd(structFields(List(s), typ.fields))
    [] typ.k = "ptr"   -> pointed(decoder(typ.elem, s))
    [] typ.k = "optional" -> optionalAt(Kind(s), typ.elem)

atInputEnd(s) == IF s.err = "" /\ s.in # <<>> THEN Fails(s, "MoreThanOneValue") ELSE s
DecodeBytes(typ, b) == atInputEnd(decoder(typ, NewStream(b)))

-----------------------------------------------------------------------------
(* raw.go.                                                                 *)

NoKind(e) == [kind |-> "none", tagsize |-> 0, size |-> 0, err |-> e]
readSize(b, slen) ==
  IF slen > Len(b) THEN NoKind("EOF")
  ELSE IF b[1] = 0 \/ Number(SubSeq(b, 1, slen)) < 56 THEN NoKind("CanonSize")
  ELSE [NoKind("") EXCEPT !.size = Number(SubSeq(b, 1, slen))]
fits(r, kind, tagsize, b) ==
  IF r.err # "" THEN r
  ELSE IF r.size > Len(b) - tagsize THEN NoKind("ValueTooLarge")
  ELSE [r EXCEPT !.kind = kind, !.tagsize = tagsize]

readKind(buf) ==
  LET b == buf[1]
      of(size) == [NoKind("") EXCEPT !.size = size]
  IN  IF buf = <<>> THEN NoKind("EOF")
      ELSE CASE b < 128 -> fits(of(1), "byte", 0, buf)
             [] b \in 128 .. 183 ->
                  IF b = 129 /\ Len(buf) > 1 /\ buf[2] < 128 THEN NoKind("CanonSize")
                  ELSE fits(of(b - 128), "string", 1, buf)
             [] b \in 184 .. 191 -> fits(readSize(Tail(buf), b - 183), "string", b - 182, buf)
             [] b \in 192 .. 247 -> fits(of(b - 192), "list", 1, buf)
             [] b > 247 -> fits(readSize(Tail(buf), b - 247), "list", b - 246, buf)

splitAt(b, r) ==
  [kind |-> r.kind, err |-> r.err, content |-> SubSeq(b, r.tagsize + 1, r.tagsize + r.size),
   rest |-> SubSeq(b, r.tagsize + r.size + 1, Len(b))]
Split(b) == splitAt(b, readKind(b))

\* -1: an error.
RECURSIVE countOn(_, _, _)
countOn(b, r, i) ==
  IF r.err # "" THEN -1
  ELSE IF r.tagsize + r.size = Len(b) THEN i + 1
  ELSE countOn(SubSeq(b, r.tagsize + r.size + 1, Len(b)), readKind(SubSeq(b, r.tagsize + r.size + 1, Len(b))), i + 1)
CountValues(b) == IF b = <<>> THEN 0 ELSE countOn(b, readKind(b), 0)
=============================================================================
