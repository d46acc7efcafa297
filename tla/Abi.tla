-------------------------------- MODULE Abi --------------------------------
(***************************************************************************)
(* The parameters of a contract call: their conversion from JSON            *)
(* (commons/helper/abi_helper.go), which happens at the delegate that takes   *)
(* the transaction and again where it is executed, and the ABI encoding of   *)
(* dvm/ethereum/abi, packing and unpacking.                                 *)
(*                                                                         *)
(* A Go value is its reflect.Kind k and its content v; a slice or array      *)
(* also names the kind of its elements, of.  Integers with a kind of their   *)
(* own have 8 or 16 bits, the others are *big.Int; a word has WordLen bytes. *)
(* A type is T, the size of an integer, array or fixed bytes, and elem.     *)
(***************************************************************************)
EXTENDS Integers, Sequences, SequencesExt, FiniteSets

CONSTANTS WordLen,        \* 32 in the code
          AddrLen         \* 20 in the code

WordMod == 256^WordLen
Wrap(n, bits, signed) ==
  LET u == n % 2^bits IN IF signed /\ u >= 2^(bits - 1) THEN u - 2^bits ELSE u

\* reflectIntKindAndType, and the kinds NewType gives the other types.
KindOf(t) ==
  CASE t.T = "int" -> IF t.size = 8 THEN "int8" ELSE IF t.size = 16 THEN "int16" ELSE "ptr"
    [] t.T = "uint" -> IF t.size = 8 THEN "uint8" ELSE IF t.size = 16 THEN "uint16" ELSE "ptr"
    [] t.T \in {"bool", "string"} -> t.T
    [] t.T \in {"bytes", "slice"} -> "slice"
    [] t.T \in {"address", "fixedbytes", "array"} -> "array"

Kinds == {"int8", "int16", "uint8", "uint16", "ptr"}
Bytes(bs) == [k |-> "slice", of |-> "uint8", v |-> bs]
ByteArray(bs) == [k |-> "array", of |-> "uint8", v |-> bs]

-----------------------------------------------------------------------------
(* JSON values, and what encoding/json makes of Go values                   *)

Number(n) == [k |-> "float64", v |-> n]
\* A string by its form: white space, plain text, or the "hex" or "base64" form
\* of bytes, which "torn" goes on with what is neither.
Text(form, bs) == [k |-> "string", v |-> <<form, bs>>]
List(vs) == [k |-> "slice", of |-> "interface", v |-> vs]

\* A slice of uint8 becomes a base64 string, an array of uint8 a list.
RECURSIVE Json(_)
Json(x) ==
  CASE x.k \in Kinds \cup {"float64"} -> Number(x.v)
    [] x.k \in {"bool", "string"} -> x
    [] x.k = "slice" /\ x.of = "uint8" -> Text("base64", x.v)
    [] x.k = "array" -> List([i \in DOMAIN x.v |-> Number(x.v[i])])
    [] OTHER -> List([i \in DOMAIN x.v |-> IF x.of = "interface" THEN Json(x.v[i]) ELSE Number(x.v[i])])

-----------------------------------------------------------------------------
(* GetConvertedParams                                                      *)

Err == [k |-> "error"]
Panic == [k |-> "panic"]
Failed(x) == x.k \in {"error", "panic"}

\* A float64 as an integer of the kind.
AsKind(kind, n) ==
  CASE kind = "int8" -> Wrap(n, 8, TRUE) [] kind = "uint8" -> Wrap(n, 8, FALSE)
    [] kind = "int16" -> Wrap(n, 16, TRUE) [] kind = "uint16" -> Wrap(n, 16, FALSE)
    [] OTHER -> n

\* Of the *big.Int types only those of 256 bits are converted.
Converts(t) == t.T \in {"int", "uint"} /\ t.size \in {8, 16, 256}

getValue(t, x) ==
  CASE Converts(t) -> IF x.k = "float64" THEN [k |-> KindOf(t), v |-> AsKind(KindOf(t), x.v)] ELSE Err
    [] KindOf(t) = "bool" -> IF x.k = "bool" THEN x ELSE Err
    [] OTHER -> x

\* getValues: the name of the type loses its last two characters, which is its
\* element's for a slice and no type's for an array, so only slices of
\* integers become slices of their kind.
RECURSIVE OfIntegers(_)
OfIntegers(t) == IF t.T \in {"slice", "array"} THEN OfIntegers(t.elem) ELSE t.T \in {"int", "uint"}

getValues(t, xs) ==
  CASE OfIntegers(t) /\ \E i \in DOMAIN xs : xs[i].k # "float64" -> Err
    [] t.T = "slice" /\ Converts(t.elem) ->
         [k |-> "slice", of |-> KindOf(t.elem), v |-> [i \in DOMAIN xs |-> AsKind(KindOf(t.elem), xs[i].v)]]
    [] OTHER -> List(xs)

\* The decoders return what comes before an error.  The digits of a hex string are
\* also base64 and stand for other bytes.
HexDecoded(x) == IF x.v[1] \in {"hex", "torn hex"} THEN x.v[2] ELSE <<>>
Base64Decoded(x) ==
  CASE x.v[1] \in {"base64", "torn base64"} -> x.v[2]
    [] x.v[1] \in {"hex", "torn hex"} -> [i \in 1 .. 3 * (Len(x.v[2]) \div 2) |-> 255]
    [] OTHER -> <<>>

\* The last bytes.  The slice expression panics when they are too few.
GetAddressBytes(x) ==
  LET bs == HexDecoded(x)
  IN  CASE x.v[1] = "blank" -> ByteArray([i \in 1 .. AddrLen |-> 0])
        [] Len(bs) < AddrLen -> Panic
        [] OTHER -> ByteArray(SubSeq(bs, Len(bs) - AddrLen + 1, Len(bs)))

\* One parameter.  The type assertions .([]interface{}) and .(string) panic on
\* anything else; no decoder's error is looked at.
convert(t, x) ==
  CASE t.T \in {"slice", "array"} ->
         IF x.k = "slice" /\ x.of = "interface" THEN getValues(t, x.v) ELSE Panic
    [] t.T = "address" -> IF x.k = "string" THEN GetAddressBytes(x) ELSE Panic
    [] t.T = "bytes" -> IF x.k = "string" THEN Bytes(Base64Decoded(x)) ELSE Panic
    [] OTHER -> getValue(t, x)

\* No parameters at all are passed on uncounted.  The first that fails ends it.
GetConvertedParams(inputs, params) ==
  LET converted == [i \in DOMAIN params |-> convert(inputs[i], params[i])]
  IN  CASE params = <<>> -> <<>>
        [] Len(params) # Len(inputs) -> <<Err>>
        [] OTHER -> LET failures == SelectSeq(converted, Failed)
                    IN  IF failures = <<>> THEN converted ELSE <<Head(failures)>>

\* What a delegate that executes the call calls it with: what the submitting one
\* converted, after some trips of the gossip through JSON, none of them at the
\* submitting delegate itself, is converted again.
Reconverted(inputs, params, trips) ==
  LET RECURSIVE received(_)
      received(n) == IF n = 0 THEN GetConvertedParams(inputs, params)
                     ELSE LET before == received(n - 1) IN [i \in DOMAIN before |-> Json(before[i])]
  IN  GetConvertedParams(inputs, received(trips))

-----------------------------------------------------------------------------
(* Packing                                                                 *)

U256(n) == [i \in 1 .. WordLen |-> ((n % WordMod) \div 256^(WordLen - i)) % 256]
Zeros(n) == [i \in 1 .. n |-> 0]
LeftPad(bs) == Zeros(WordLen - Len(bs)) \o bs
RightPad(bs, n) == IF Len(bs) >= n THEN bs ELSE bs \o Zeros(n - Len(bs))
packBytesSlice(bs, l) == U256(l) \o RightPad(bs, ((l + WordLen - 1) \div WordLen) * WordLen)

\* The i-th element of a slice or array.
Index(x, i) == IF x.of = "interface" THEN [k |-> "interface", v |-> x.v[i]]
               ELSE IF x.of \in Kinds THEN [k |-> x.of, v |-> x.v[i]] ELSE x.v[i]

\* sliceTypeCheck looks at the first element of the nested level, and panics
\* when there is none to look at in a list of arrays.
RECURSIVE sliceTypeCheck(_, _)
sliceTypeCheck(t, x) ==
  CASE x.k \notin {"slice", "array"} -> "error"
    [] t.T = "array" /\ Len(x.v) # t.size -> "error"
    [] t.elem.T = "slice" /\ x.v # <<>> -> sliceTypeCheck(t.elem, Index(x, 1))
    [] t.elem.T = "array" -> IF x.v = <<>> THEN "panic" ELSE sliceTypeCheck(t.elem, Index(x, 1))
    [] OTHER -> IF x.of = KindOf(t.elem) THEN "" ELSE "error"

typeCheck(t, x) ==
  CASE t.T \in {"slice", "array"} -> sliceTypeCheck(t, x)
    [] KindOf(t) # x.k -> "error"
    [] t.T = "fixedbytes" /\ t.size # Len(x.v) -> "error"
    [] OTHER -> ""

packElement(t, x) ==
  CASE t.T \in {"int", "uint"} -> U256(x.v)
    [] t.T = "string" -> packBytesSlice(x.v[2], Len(x.v[2]))
    [] t.T = "address" -> LeftPad(x.v)
    [] t.T = "bool" -> U256(IF x.v THEN 1 ELSE 0)
    [] t.T = "bytes" -> packBytesSlice(x.v, Len(x.v))
    [] t.T = "fixedbytes" -> RightPad(x.v, WordLen)

\* Type.pack: [err, b].
RECURSIVE pack(_, _)
pack(t, x) ==
  \* The packed elements ps, one of which may have failed.
  LET joined(ps) == IF \E i \in DOMAIN ps : ps[i].err # ""
                    THEN ps[CHOOSE i \in DOMAIN ps : ps[i].err # "" /\ \A j \in 1 .. i - 1 : ps[j].err = ""]
                    ELSE [err |-> "", b |-> IF t.T = "slice" THEN packBytesSlice(FlattenSeq([i \in DOMAIN ps |-> ps[i].b]), Len(ps))
                                            ELSE FlattenSeq([i \in DOMAIN ps |-> ps[i].b])]
  IN  CASE typeCheck(t, x) # "" -> [err |-> typeCheck(t, x), b |-> <<>>]
        [] t.T \in {"slice", "array"} -> joined([i \in DOMAIN x.v |-> pack(t.elem, Index(x, i))])
        [] OTHER -> [err |-> "", b |-> packElement(t, x)]

requiresLengthPrefix(t) == t.T \in {"string", "bytes", "slice"}

\* The first level of an array is counted, the levels below it are not.
headSize(inputs) ==
  FoldLeft(LAMBDA n, t : n + (IF t.T = "array" THEN WordLen * t.size ELSE WordLen), 0, inputs)

\* Arguments.Pack: the offsets of what goes to the end, then what goes there.
Pack(inputs, args) ==
  LET step(s, i) ==
        \* One argument, packed as p.
        LET put(p) ==
              CASE s.err # "" -> s
                [] p.err # "" -> [s EXCEPT !.err = p.err]
                [] requiresLengthPrefix(inputs[i]) ->
                     [s EXCEPT !.ret = @ \o U256(headSize(inputs) + Len(s.tail)), !.tail = @ \o p.b]
                [] OTHER -> [s EXCEPT !.ret = @ \o p.b]
        IN  put(pack(inputs[i], args[i]))
      end(s) == IF s.err # "" THEN [err |-> s.err, b |-> <<>>] ELSE [err |-> "", b |-> s.ret \o s.tail]
  IN  IF Len(args) # Len(inputs) THEN [err |-> "error", b |-> <<>>]
      ELSE end(FoldLeft(step, [err |-> "", ret |-> <<>>, tail |-> <<>>], [i \in DOMAIN args |-> i]))

-----------------------------------------------------------------------------
(* Unpacking                                                               *)

RECURSIVE ToNum(_)
ToNum(bs) == IF bs = <<>> THEN 0 ELSE 256 * ToNum(Front(bs)) + Last(bs)

\* b[i:j]: out of range, Go panics.
Slice(b, i, j) == IF 0 <= i /\ i <= j /\ j <= Len(b) THEN SubSeq(b, i + 1, j) ELSE Zeros(WordLen)
InRange(b, i, j) == 0 <= i /\ i <= j /\ j <= Len(b)

readInteger(t, word) ==
  LET n == ToNum(word)
  IN  [k |-> KindOf(t),
       v |-> IF KindOf(t) # "ptr" THEN AsKind(KindOf(t), n)
             ELSE IF t.T = "uint" THEN n ELSE Wrap(n, 8 * WordLen, TRUE)]

readBool(word) ==
  IF ToNum(word) \in {0, 1} THEN [k |-> "bool", v |-> ToNum(word) = 1] ELSE Err

\* Variant of lengthPrefixPointsTo: the length is not compared with the output.
lengthPrefixPointsToAny(index, output) ==
  LET end == ToNum(Slice(output, index, index + WordLen)) + WordLen
  IN  IF end > Len(output) THEN [err |-> "error", start |-> 0, len |-> 0]
      ELSE [err |-> "", start |-> end, len |-> ToNum(Slice(output, end - WordLen, end))]

lengthPrefixPointsTo(index, output) ==
  LET end == ToNum(Slice(output, index, index + WordLen)) + WordLen
      length == ToNum(Slice(output, end - WordLen, end))
  IN  IF end > Len(output) \/ end + length > Len(output)
      THEN [err |-> "error", start |-> 0, len |-> 0]
      ELSE [err |-> "", start |-> end, len |-> length]

RECURSIVE getFullElemSize(_)
getFullElemSize(t) == IF t.T = "array" THEN t.size * getFullElemSize(t.elem) ELSE WordLen

RECURSIVE toGoType(_, _, _)
forEachUnpack(t, output, start, size) ==
  LET elemSize == IF t.T = "array" THEN getFullElemSize(t.elem) ELSE WordLen
      \* The element values vs.
      made(vs) ==
        IF \E i \in DOMAIN vs : Failed(vs[i]) THEN vs[CHOOSE i \in DOMAIN vs : Failed(vs[i])]
        ELSE [k |-> KindOf(t), of |-> KindOf(t.elem),
              v |-> IF KindOf(t.elem) \in Kinds THEN [i \in DOMAIN vs |-> vs[i].v] ELSE vs]
  IN  IF start + WordLen * size > Len(output) THEN Err
      ELSE made([j \in 1 .. size |-> toGoType(start + (j - 1) * elemSize, t.elem, output)])

toGoType(index, t, output) ==
  LET word == Slice(output, index, index + WordLen)
      \* What the offset in the head points to: p.
      pointed(p) ==
        CASE p.err # "" -> Err
          [] t.T = "slice" -> forEachUnpack(t, output, p.start, p.len)
          [] ~ InRange(output, p.start, p.start + p.len) -> Panic
          [] t.T = "string" -> Text("plain", Slice(output, p.start, p.start + p.len))
          [] OTHER -> Bytes(Slice(output, p.start, p.start + p.len))
  IN  CASE index + WordLen > Len(output) -> Err
        [] requiresLengthPrefix(t) -> pointed(lengthPrefixPointsTo(index, output))
        [] t.T = "array" -> forEachUnpack(t, output, index, t.size)
        [] t.T \in {"int", "uint"} -> readInteger(t, word)
        [] t.T = "bool" -> readBool(word)
        [] t.T = "address" -> ByteArray(SubSeq(word, WordLen - AddrLen + 1, WordLen))
        [] t.T = "fixedbytes" -> ByteArray(SubSeq(word, 1, t.size))

\* getArraySize
RECURSIVE getArraySize(_)
getArraySize(t) == IF t.T = "array" THEN t.size * getArraySize(t.elem) ELSE 1

\* UnpackValues: a static array takes as many words as it has elements.
UnpackValues(types, data) ==
  LET at(i) == FoldLeft(LAMBDA n, t : n + getArraySize(t), 0, SubSeq(types, 1, i - 1))
  IN  [i \in DOMAIN types |-> toGoType(at(i) * WordLen, types[i], data)]

-----------------------------------------------------------------------------
(* Properties                                                              *)

\* Nested arrays and elements with a length of their own are not packed the way
\* UnpackValues reads them.
Flat(t) == t.T \in {"slice", "array"} => t.elem.T \notin {"slice", "array", "string", "bytes"}

\* UnpackValues is the opposite of Pack: the values packed, offsets and padding
\* included, are the values read back.
PackedComesBack(types, args) ==
  \A p \in {Pack(types, args)} :
    (\A i \in DOMAIN types : Flat(types[i])) => p.err = "" /\ UnpackValues(types, p.b) = args

\* Whatever a contract returns, unpacking it ends in values or an error: no
\* offset or length read from it leads outside of it.
UnpackNeverPanics(types, data) ==
  \A i \in DOMAIN types : UnpackValues(types, data)[i] # Panic

\* How a second conversion ends for a value of type t.  JSON makes a list of an
\* address and a string of a slice of uint8, which cannot be converted; at the
\* submitting delegate the values are still Go's, and only those that conversion
\* left alone can be converted again.
Repeated(t, trips) ==
  CASE t.T = "address" \/ (t.T = "slice" /\ Converts(t.elem) /\ (trips = 0 \/ KindOf(t.elem) = "uint8")) -> "panic"
    [] trips = 0 /\ t.T = "bytes" -> "panic"
    [] trips = 0 /\ Converts(t) -> "error"
    [] OTHER -> "same"

\* The second conversion of parameters that were accepted packs to the bytes of
\* the first, or to the same refusal, exactly when no type forbids it; otherwise
\* the first type that does makes the delegate refuse the call or panic.  All the
\* delegates that have the gossip through JSON do the same.
ReconvertedAsTyped(inputs, params) ==
  \A once \in {GetConvertedParams(inputs, params)}, trips \in 0 .. 2 :
    (params # <<>> /\ \A i \in DOMAIN once : ~ Failed(once[i])) =>
      LET again == Reconverted(inputs, params, trips)
          ends == SelectSeq([i \in DOMAIN inputs |-> Repeated(inputs[i], trips)], LAMBDA e : e # "same")
      IN  IF ends = <<>> THEN (\A i \in DOMAIN again : ~ Failed(again[i])) /\ Pack(inputs, again) = Pack(inputs, once)
          ELSE again = <<[k |-> Head(ends)]>>
=============================================================================
