----------------------------- MODULE Validation -----------------------------
(***************************************************************************)
(* A transaction of commons/types/transaction.go from its construction to   *)
(* its acceptance: hash and signature, the checks of Verify, and the JSON    *)
(* it crosses on every hop of the gossip and on its way into Badger; the     *)
(* rumors the delegates sign for it (rumor.go, gossip.go); the accounts and  *)
(* receipts that are JSON in Badger (account.go, receipt.go); and how a node *)
(* identifies itself to others (authentication.go, the account file).       *)
(*                                                                         *)
(* A hexadecimal string is its bytes and its form: lower or upper case, or   *)
(* not hexadecimal at all.  Numbers of fixed width in the hashed bytes are   *)
(* one symbol; an address has AddressLength symbols.  Keccak and the         *)
(* elliptic curve are ideal: a hash is the hashed bytes, a signature names   *)
(* the address of its key and what was signed.  An ABI is a text, <<>> when *)
(* it is empty, and "hex" stands before a text in hexadecimal.             *)
(***************************************************************************)
EXTENDS Integers, Sequences, SequencesExt, FiniteSets

CONSTANTS AddressLength,  \* 20 in the code
          Mantissa,       \* bits of a float64's mantissa, 53 in the code
          FutureLimit,    \* TxFutureLimit, 3 minutes in the code
          HashLength,     \* 32 in the code
          GossipTimeout,  \* 1 second in the code
          AuthenticationLimit  \* 5 seconds in the code

TypeTransferTokens == 0
TypeDeploySmartContract == 1
TypeExecuteSmartContract == 2

Hex(bytes) == [b |-> bytes, form |-> "lower"]
Blank == Hex(<<>>)
Short == <<-1>>                     \* a hash of the wrong length
NoSignature == [by |-> Short, over |-> Short]

-----------------------------------------------------------------------------
(* Hash and signature                                                      *)

Decodes(t) == \A f \in {"from", "to", "code"} : t[f].form # "garbled"

\* The fields one after the other, without lengths.  Abi, Params and Hertz
\* are not among them.
NewHash(t) == <<t.type>> \o t.from.b \o t.to.b \o <<t.value>> \o t.code.b \o t.method \o <<t.time>>

\* A signature recovers to the address of its key over the hash it was made
\* for, and to nobody over another.
ToPublicKey(hash, signature) == IF signature.over = hash THEN signature.by ELSE Short

\* The switch of Verify.  A transaction of another type passes it.
typeOk(t) ==
  CASE t.type = TypeTransferTokens -> Len(t.to.b) = AddressLength /\ t.value > 0
    [] t.type = TypeDeploySmartContract -> t.to.b = <<>> /\ t.code.b # <<>> /\ t.abi # <<>>
    [] t.type = TypeExecuteSmartContract -> Len(t.to.b) = AddressLength
    [] OTHER -> TRUE

Verify(t) ==
  /\ t.hash # Short
  /\ Len(t.from.b) = AddressLength
  /\ t.signature # NoSignature
  /\ t.from # t.to
  /\ typeOk(t)
  /\ Decodes(t)
  /\ t.hash = NewHash(t)
  /\ t.from = Hex(ToPublicKey(t.hash, t.signature))

-----------------------------------------------------------------------------
(* Construction                                                            *)

checkTime(time, now) == time <= now + FutureLimit /\ time >= 0

Zero == [type |-> 0, from |-> Blank, to |-> Blank, value |-> 0, code |-> Blank, abi |-> <<>>, method |-> <<>>,
         params |-> <<>>, time |-> 0, hash |-> Short, signature |-> NoSignature, hertz |-> 0]

\* The end of every constructor: time, hash, signature with the key given.
Signed(t, key, time) ==
  LET timed == [t EXCEPT !.time = time]
      hash == NewHash(timed)
  IN  [timed EXCEPT !.hash = hash, !.signature = [by |-> key, over |-> hash]]

\* The sets hold what a constructor returns, nothing when it fails.
Constructed(t, key, time, now) ==
  IF checkTime(time, now) /\ Decodes(t) THEN {Signed(t, key, time)} ELSE {}

NewTransferTokensTransaction(key, from, to, value, time, now) ==
  Constructed([Zero EXCEPT !.from = from, !.to = to, !.value = value], key, time, now)

NewDeployContractTransaction(key, from, code, abi, time, now) ==
  IF abi = <<>> \/ code = Blank THEN {}
  ELSE Constructed([Zero EXCEPT !.type = TypeDeploySmartContract, !.from = from, !.code = code, !.abi = abi],
                   key, time, now)

NewExecuteContractTransaction(key, from, to, method, params, time, now) ==
  IF method = <<>> THEN {}
  ELSE Constructed([Zero EXCEPT !.type = TypeExecuteSmartContract, !.from = from, !.to = to, !.method = method,
                                !.params = params], key, time, now)

-----------------------------------------------------------------------------
(* JSON: a function from the fields that are present to their values        *)

Optional == {"to", "value", "code", "abi", "method", "params"}

\* Variant of MarshalJSON: an empty abi is written.
MarshalJSONAbi(t) == [f \in {f \in DOMAIN t : f \in Optional \ {"abi"} => t[f] # Zero[f]} |-> t[f]]

\* omitempty
MarshalJSON(t) == [f \in {f \in DOMAIN t : f \in Optional => t[f] # Zero[f]} |-> t[f]]

\* A JSON number becomes a float64: the nearest with Mantissa bits, an even
\* mantissa when there are two.
Float64(n) ==
  LET big == {e \in 0 .. 12 : n >= 2^(Mantissa + e)}
      unit == 2^Cardinality(big)
      low == n \div unit
      up == 2 * (n % unit) > unit \/ (2 * (n % unit) = unit /\ low % 2 = 1)
  IN  IF big = {} THEN n ELSE unit * (IF up THEN low + 1 ELSE low)

\* The result of UnmarshalJSON is empty when it fails: a time too far ahead, an
\* empty abi next to a receiver and a method, a hertz without a type.  Hertz
\* takes the value of the type.
UnmarshalJSON(json, now) ==
  LET has(f) == f \in DOMAIN json
      field(f) == CASE ~ has(f) -> Zero[f]
                    [] f \in {"value", "time"} -> Float64(json[f])
                    [] f = "hertz" -> json.type
                    [] OTHER -> json[f]
  IN  IF \/ has("time") /\ ~ checkTime(field("time"), now)
         \/ has("abi") /\ json.abi = <<>> /\ field("to").b # <<>> /\ field("method") # <<>>
         \/ has("hertz") /\ ~ has("type")
      THEN {} ELSE {[f \in DOMAIN Zero |-> field(f)]}

-----------------------------------------------------------------------------
(* Execution, and the transaction in Badger                                *)

EncodeAbi(abi) == IF abi = <<>> THEN <<>> ELSE <<"hex">> \o abi
DecodeAbi(abi) == IF abi # <<>> /\ abi[1] = "hex" THEN Tail(abi) ELSE abi

\* What executeTransaction persists: a deployment with its abi in hexadecimal; a
\* call with the abi of the contract, which is a deployment's as it is in Badger,
\* and with the parameters as they were converted.
Executed(t, abi, params) ==
  CASE t.type = TypeDeploySmartContract -> [t EXCEPT !.abi = EncodeAbi(@)]
    [] t.type = TypeExecuteSmartContract -> [t EXCEPT !.abi = abi, !.params = params]
    [] OTHER -> t

\* Of a persisted transaction.  setTransients decodes any abi it can.
ToTransactionByHash(persisted, now) ==
  {[t EXCEPT !.abi = DecodeAbi(@)] : t \in UnmarshalJSON(MarshalJSON(persisted), now)}

-----------------------------------------------------------------------------
(* Accounts, which are JSON in Badger                                      *)

NoAccount == [address |-> <<>>, privateKey |-> <<>>, name |-> "", balance |-> 0, transactionHash |-> "", nonce |-> 0, root |-> "", codeHash |-> ""]

\* Root and code hash are commented out of both directions.
MarshalAccount(a) ==
  LET omitempty == {"privateKey", "transactionHash"}
      written == DOMAIN NoAccount \ {"root", "codeHash"}
  IN  [f \in {f \in written : f \in omitempty => a[f] # NoAccount[f]} |-> a[f]]

UnmarshalAccount(json) ==
  [f \in DOMAIN NoAccount |->
     CASE f \notin DOMAIN json -> NoAccount[f]
       [] f \in {"balance", "nonce"} -> Float64(json[f])
       [] OTHER -> json[f]]

\* Persist, and ToAccountByAddress afterwards.
ReadBack(a) == UnmarshalAccount(MarshalAccount(a))

\* The file with the node's account.  It is written when there is none, with
\* a key pair just generated: the set is empty when there is none.
accountFile(file, key) ==
  IF file # {} THEN file ELSE {MarshalAccount([NoAccount EXCEPT !.address = key, !.privateKey = key])}

readAccountFile(file, key) == UnmarshalAccount(CHOOSE json \in accountFile(file, key) : TRUE)

-----------------------------------------------------------------------------
(* Receipts, which are JSON in Badger                                      *)

NewReceipt(hash, created) ==
  [transactionHash |-> hash, status |-> "Pending", humanReadableStatus |-> "", contractAddress |-> <<>>,
   contractResult |-> <<>>, created |-> created]

MarshalReceipt(r) ==
  LET omitempty == {"humanReadableStatus", "contractAddress", "contractResult"}
  IN  [f \in {f \in DOMAIN r : f \in omitempty => r[f] # NewReceipt(<<>>, 0)[f]} |-> r[f]]

\* Into an empty receipt.  The results are numbers here.
UnmarshalReceipt(json) ==
  LET numbers == [json EXCEPT !.contractResult = [i \in DOMAIN @ |-> Float64(@[i])]]
  IN  (IF "contractResult" \in DOMAIN json THEN numbers ELSE json) @@ NewReceipt(<<>>, 0)

-----------------------------------------------------------------------------
(* Authentications                                                         *)

\* The hash covers the time and nothing else.  Its length is not an address's.
AuthenticationHash(time) == [i \in 1 .. HashLength |-> time]

\* Nothing when the key and the address of the account do not belong together.
NewAuthentication(account, time) ==
  LET hash == AuthenticationHash(time)
      a == [hash |-> hash, time |-> time, signature |-> [by |-> account.privateKey, over |-> hash]]
  IN  IF ToPublicKey(a.hash, a.signature) = account.address THEN {a} ELSE {}

\* cached holds the hashes of those verified before.
VerifyAuthentication(a, address, cached, now) ==
  /\ address \notin cached
  /\ now - a.time <= AuthenticationLimit
  /\ a.hash = AuthenticationHash(a.time)
  /\ ToPublicKey(a.hash, a.signature) = address

-----------------------------------------------------------------------------
(* Rumors                                                                  *)

RumorHash(r) == r.address \o r.transactionHash \o <<r.time>>

NewRumor(key, address, transactionHash, time) ==
  LET r == [address |-> address, transactionHash |-> transactionHash, time |-> time]
  IN  [hash |-> RumorHash(r), signature |-> [by |-> key, over |-> RumorHash(r)]] @@ r

\* Variant of VerifyRumor: the signature is verified, not who made it.
VerifyRumorAnybody(r) ==
  /\ r.hash # Short /\ Len(r.address) = AddressLength /\ Len(r.transactionHash) = HashLength
  /\ r.hash = RumorHash(r)
  /\ ToPublicKey(r.hash, r.signature) # Short

VerifyRumor(r) ==
  /\ r.hash # Short /\ Len(r.address) = AddressLength /\ Len(r.transactionHash) = HashLength
  /\ r.hash = RumorHash(r)
  /\ r.address = ToPublicKey(r.hash, r.signature)

\* MarshalJSON and UnmarshalJSON of a rumor.
ReadRumor(r) == [r EXCEPT !.time = Float64(@)]

NewGossip(t) == [transaction |-> t, rumors |-> <<>>]

\* A gossip whose transaction cannot be read is lost as a whole.
ToGossipFromJson(g, now) ==
  {[transaction |-> t, rumors |-> [i \in DOMAIN g.rumors |-> ReadRumor(g.rumors[i])]]
     : t \in UnmarshalJSON(MarshalJSON(g.transaction), now)}

ValidRumors(g) == Len(SelectSeq(g.rumors, VerifyRumor))

ContainsRumor(rumors, address) == \E i \in DOMAIN rumors : rumors[i].address = address

\* The loop of synchronizeGossip over the received rumors.
synchronized(rumors, received) ==
  FoldLeft(LAMBDA s, r : IF ~ ContainsRumor(s, r.address) /\ VerifyRumor(r) THEN Append(s, r) ELSE s,
           rumors, received)

\* The list is sorted in place.
ValidateTimeDelta(times, now) ==
  LET sorted == SortSeq(times, <)
  IN  /\ now - Last(sorted) <= GossipTimeout
      /\ \A i \in 2 .. Len(sorted) : sorted[i] - sorted[i - 1] <= GossipTimeout

-----------------------------------------------------------------------------
(* Properties                                                              *)

Signs(t, key) == [t EXCEPT !.hash = NewHash(t), !.signature = [by |-> key, over |-> NewHash(t)]]

\* What a signature binds, and all it binds: two transactions of the three types
\* that Verify accepts have one hash exactly when they agree on type, sender,
\* value and time, on the bytes of the receiver, and on the bytes of code and
\* method together.  Where the code ends, the case of the receiver's digits, the
\* abi and the parameters may differ under one hash and one signature.
HashBinds(t, u) ==
  Verify(t) /\ Verify(u) =>
    (t.hash = u.hash <=>
       /\ \A f \in {"type", "from", "value", "time"} : t[f] = u[f]
       /\ t.to.b = u.to.b
       /\ t.code.b \o t.method = u.code.b \o u.method)

\* A transaction a delegate accepted from JSON reaches the next delegate as the
\* same valid transaction: another trip through JSON at the same or a later time
\* changes nothing but hertz.
AcceptedStaysValid(json, now, later) ==
  \A t \in UnmarshalJSON(json, now) : Verify(t) =>
    \E u \in UnmarshalJSON(MarshalJSON(t), later) : Verify(u) /\ u = [t EXCEPT !.hertz = t.type]

\* What was executed is read from Badger as a valid transaction under the same
\* hash, in which only what the hash does not bind has changed: a deployment has
\* the abi it was sent with, and a call the abi its contract's deployer sent, with
\* the parameters of the execution.
ExecutedIsRead(json, deployed, params, now, later) ==
  \A t \in UnmarshalJSON(json, now) : Verify(t) =>
    \E u \in ToTransactionByHash(Executed(t, EncodeAbi(deployed), params), later) :
      /\ Verify(u)
      /\ \A f \in DOMAIN t \ {"abi", "params", "hertz"} : u[f] = t[f]
      /\ t.type = TypeDeploySmartContract => u.abi = t.abi /\ u.params = t.params
      /\ t.type = TypeExecuteSmartContract => u.abi = deployed /\ u.params = params

\* What the constructors return for a key and its address is accepted, unless
\* the receiver or the value is not, and read from JSON it still is when the
\* value is a float64.
ConstructedVerifies(key, to, value, code, method, time, now) ==
  LET from == Hex(key)
      receiver == Len(to.b) = AddressLength /\ to # from
  IN  /\ \A t \in NewTransferTokensTransaction(key, from, to, value, time, now) :
           /\ Verify(t) <=> (receiver /\ value > 0)
           /\ Verify(t) /\ Float64(value) = value => \E u \in UnmarshalJSON(MarshalJSON(t), now) : Verify(u)
      /\ \A t \in NewDeployContractTransaction(key, from, code, <<"abi">>, time, now) : Verify(t)
      /\ \A t \in NewExecuteContractTransaction(key, from, to, method, <<>>, time, now) : Verify(t) <=> receiver

\* A transfer between two stored accounts that are read again keeps the sum of
\* the balances, and everything else but root and code hash, though balances
\* and nonces are float64 on the way, as long as the sum has Mantissa bits.
TransferIsKept(a, b, value) ==
  LET from == ReadBack([a EXCEPT !.balance = @ - value])
      to == ReadBack([b EXCEPT !.balance = @ + value])
  IN  value <= a.balance /\ a.balance + b.balance <= 2^Mantissa =>
        /\ from.balance + to.balance = a.balance + b.balance
        /\ \A f \in {"name", "transactionHash", "nonce"} : from[f] = a[f] /\ to[f] = b[f]
        /\ from.root = "" /\ from.codeHash = ""

\* A receipt answers from Badger as it did from the cache, but for results of
\* more than Mantissa bits, and stays the same however often it is copied.
ReceiptIsKept(r) ==
  LET stored == UnmarshalReceipt(MarshalReceipt(r))
  IN  /\ \A f \in DOMAIN r \ {"contractResult"} : stored[f] = r[f]
      /\ Len(stored.contractResult) = Len(r.contractResult)
      /\ \A i \in DOMAIN r.contractResult :
           r.contractResult[i] <= 2^Mantissa => stored.contractResult[i] = r.contractResult[i]
      /\ UnmarshalReceipt(MarshalReceipt(stored)) = stored

\* A node is the same one after every restart, and others take it for nobody
\* else: what it signs verifies for its address, for no other, and until the
\* limit has passed.  That it was seen before makes no difference: authentications
\* are cached by hash and looked up by address.
NodeKeepsIdentity(key, other, time, now) ==
  LET first == accountFile({}, key)
      account == readAccountFile(first, other)
  IN  /\ account = readAccountFile({}, key) /\ account.address = key
      /\ NewAuthentication(account, time) # {}
      /\ \A a \in NewAuthentication(account, time) : \A address \in {key, other}, cached \in {{}, {a.hash}} :
           VerifyAuthentication(a, address, cached, now) <=> (address = key /\ now - time <= AuthenticationLimit)

\* A gossip about a transaction that its sender accepted from JSON arrives, with
\* a valid transaction, and loses exactly the rumors whose time is no float64.
GossipArrives(json, rumors, now, later) ==
  \A t \in UnmarshalJSON(json, now) : Verify(t) =>
    \E g \in ToGossipFromJson([NewGossip(t) EXCEPT !.rumors = rumors], later) :
      /\ Verify(g.transaction)
      /\ ValidRumors(g) = Len(SelectSeq(rumors, LAMBDA r : VerifyRumor(r) /\ Float64(r.time) = r.time))

\* A delegate that merges a received list into its own counts every author once
\* and, of the received, only those that signed; which ones does not depend on
\* the order they are listed in.
MergedAreSigned(received) ==
  LET result == synchronized(<<>>, received)
      authors(list) == {list[i].address : i \in DOMAIN list}
  IN  /\ Cardinality(authors(result)) = Len(result)
      /\ authors(result) =
           {r.address : r \in {r \in ToSet(received) : r = NewRumor(r.address, r.address, r.transactionHash, r.time)
                                                   /\ Len(r.address) = AddressLength
                                                   /\ Len(r.transactionHash) = HashLength}}
      /\ authors(synchronized(<<>>, Reverse(received))) = authors(result)

\* A gossip is in time when there was no silence longer than GossipTimeout from
\* its oldest rumor to now, or to the newest rumor when a clock is ahead, in
\* whatever order the rumors were merged.
NoSilence(times, now) ==
  LET oldest == CHOOSE t \in ToSet(times) : \A u \in ToSet(times) : t <= u
      latest == CHOOSE t \in ToSet(times) \cup {now} : \A u \in ToSet(times) \cup {now} : u <= t
  IN  ValidateTimeDelta(times, now) <=>
        \A moment \in oldest .. latest - 1 : \E t \in ToSet(times) : moment - t \in 0 .. GossipTimeout - 1
=============================================================================
