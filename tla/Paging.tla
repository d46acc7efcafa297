------------------------------- MODULE Paging -------------------------------
(***************************************************************************)
(* The pages of transactions, accounts and gossips a delegate answers       *)
(* queries with: the index keys of commons/types/transaction.go in Badger,   *)
(* read in key order, and the handlers of dapos_api.go and                  *)
(* dapos_transport_http.go above them.                                      *)
(*                                                                         *)
(* A transaction is its hash, time, from and to.  Hashes, times and         *)
(* addresses are numbers in the order of their strings; times have the      *)
(* same number of digits, as they do until the year 2286.  0 is the empty    *)
(* string.  The database is the sequence of persisted transactions.         *)
(***************************************************************************)
EXTENDS Integers, Sequences, SequencesExt, FiniteSets

CONSTANTS MaxPageSize,     \* 100 in the code
          NaN              \* what strconv.Atoi refuses

Failed(why) == [err |-> why, items |-> <<>>, count |-> 0]
Answer(items, n) == [err |-> "", items |-> items, count |-> n]

Hashes(txs) == [i \in DOMAIN txs |-> txs[i].hash]
ByHash(txs, h) == CHOOSE t \in ToSet(txs) : t.hash = h

\* Persist: the keys of the time index carry the hash ...
TimeKeys(txs) == {[time |-> t.time, hash |-> t.hash] : t \in ToSet(txs)}

\* ... the keys of the from and the to index do not, so a later transaction of
\* the same address and time takes the entry over.
AddressKeys(txs, field) ==
  {[addr |-> txs[i][field], time |-> txs[i].time, hash |-> txs[i].hash] : i \in
     {i \in DOMAIN txs : \A j \in i + 1 .. Len(txs) :
                            ~ (txs[j][field] = txs[i][field] /\ txs[j].time = txs[i].time)}}

KeyLess(a, b) == a.addr < b.addr \/ (a.addr = b.addr /\ a.time < b.time)
InKeyOrder(keys) == SetToSortSeq(keys, KeyLess)

\* The keys "key-transaction-time-...", sorted in reverse.
Newest(txs) ==
  SetToSortSeq(TimeKeys(txs), LAMBDA a, b : a.time > b.time \/ (a.time = b.time /\ a.hash > b.hash))

-----------------------------------------------------------------------------
(* TransactionPaging                                                       *)

ValidPage(page, pageSize, ok) ==
  CASE pageSize <= 0 \/ pageSize > MaxPageSize -> Failed("ErrInvalidRequestPageSize")
    [] page <= 0 -> Failed("ErrInvalidRequestPage")
    [] OTHER -> ok

\* Variant of pageItems: counts pages from one without taking the first off.
pageItemsOneOff(keys, idx, total, page, pageSize) ==
  SubSeq(keys, idx + page * pageSize + 1, IF total < idx + (page + 1) * pageSize THEN total ELSE idx + (page + 1) * pageSize)

\* total was reduced by the starting index; the loop still compares it with
\* the absolute one.
pageItems(keys, idx, total, page, pageSize) ==
  LET first == idx + (page - 1) * pageSize
      last == IF total < first + pageSize THEN total ELSE first + pageSize
  IN  SubSeq(keys, first + 1, last)

\* start is 0 or a hash; the index of the first key is 0.
TransactionPaging(txs, start, page, pageSize) ==
  LET keys == Newest(txs)
      at == IF start = 0 THEN 0 ELSE CHOOSE i \in 0 .. Len(keys) - 1 : keys[i + 1].hash = start
  IN  ValidPage(page, pageSize,
        CASE txs = <<>> -> Answer(<<>>, 0)
          [] start # 0 /\ start \notin {k.hash : k \in ToSet(keys)} -> Failed("ErrInvalidRequestStartingHash")
          [] OTHER -> Answer(Hashes(pageItems(keys, at, Len(keys) - at, page, pageSize)), Len(keys) - at))

-----------------------------------------------------------------------------
(* Pages by an iterator: ToTransactionsByFromAddress, ...ToAddress,         *)
(* AccountPaging and GossipPaging count the entries the iterator passes.     *)

window(keys, page, pageSize) ==
  LET firstItem == page * pageSize - (pageSize - 1)
      last == firstItem + pageSize - 1
  IN  SubSeq(keys, firstItem, IF Len(keys) < last THEN Len(keys) ELSE last)

\* The prefix is "key-transaction-from-<address>": with no address, all of them.
InPrefix(k, address) == address \in {0, k.addr}

\* Seek(key), then Next as long as the prefix is there: a key outside the
\* prefix ends the loop at once.
Seek(keys, key, address) ==
  SelectSeq(keys, LAMBDA k : ~ KeyLess(k, key) /\ InPrefix(k, address) /\
              \A j \in DOMAIN keys : ~ KeyLess(keys[j], key) /\ KeyLess(keys[j], k) => InPrefix(keys[j], address))

\* SortByTime(transactions, false).  Entries of one address differ in time.
SortByTime(entries) == SortSeq(entries, LAMBDA a, b : a.time > b.time)

\* ToTransactionsByFromAddress and ToTransactionsByToAddress.
ToTransactionsByAddress(txs, field, address, start, page, pageSize) ==
  LET t == ByHash(txs, start)
      from == IF start = 0 THEN [addr |-> address, time |-> 0] ELSE [addr |-> t[field], time |-> t.time]
      entries == Seek(InKeyOrder(AddressKeys(txs, field)), from, address)
  IN  ValidPage(page, pageSize,
        IF start # 0 /\ start \notin ToSet(Hashes(txs)) THEN Failed("ErrInvalidRequestHash")
        ELSE Answer(Hashes(SortByTime(window(entries, page, pageSize))), 0))

\* Accounts under their addresses.  Persist writes them under "table-account-".
AccountPaging(accounts, start, page, pageSize) ==
  LET keys == SetToSortSeq(accounts, <)
  IN  ValidPage(page, pageSize,
        IF start # 0 /\ start \notin accounts THEN Failed("ErrInvalidRequestHash")
        ELSE Answer(window(SelectSeq(keys, LAMBDA a : a >= start), page, pageSize), 0))

\* Ten gossips a page: firstItem .. firstItem + 9.
GossipPaging(gossips, page, ten) ==
  IF page <= 0 THEN Failed("ErrInvalidRequest")
  ELSE Answer(window(SetToSortSeq(gossips, <), page, ten), 0)

-----------------------------------------------------------------------------
(* The handlers: strconv.Atoi of page and size, the node's type, the        *)
(* status of the answer.                                                   *)

Respond(delegate, result) ==
  CASE ~ delegate -> [status |-> "StatusNotDelegate", items |-> <<>>]
    [] result.err # "" -> [status |-> "InternalError", items |-> <<>>]
    [] OTHER -> [status |-> "Ok", items |-> result.items]

Parsed(numbers, response) ==
  IF NaN \in numbers THEN [status |-> "InternalError", items |-> <<>>] ELSE response

GetTransactions(delegate, txs, page, size, start) ==
  Parsed({page, size}, Respond(delegate, TransactionPaging(txs, start, page, size)))

GetTransactionsByAddress(delegate, txs, field, address, page, size, start) ==
  Parsed({page, size}, Respond(delegate, ToTransactionsByAddress(txs, field, address, start, page, size)))

\* getTransactionsHandler
getTransactions(delegate, txs, q) ==
  CASE q.from # 0 /\ q.to # 0 -> [status |-> "Bad Request", items |-> <<>>]
    [] q.from # 0 -> GetTransactionsByAddress(delegate, txs, "from", q.from, q.page, q.size, q.start)
    [] q.to # 0 -> GetTransactionsByAddress(delegate, txs, "to", q.to, q.page, q.size, q.start)
    [] OTHER -> GetTransactions(delegate, txs, q.page, q.size, q.start)

-----------------------------------------------------------------------------
(* What the pages promise.  A database is read with every page size.        *)

Pages(txs, q, size) ==
  FlattenSeq([p \in 1 .. Len(txs) + 1 |-> getTransactions(TRUE, txs, [q EXCEPT !.page = p, !.size = size]).items])

Everything == [from |-> 0, to |-> 0, start |-> 0, page |-> 1, size |-> 1]

\* Read from the front, the pages hold every transaction once, newest first.
\* Read from a start, while later transactions have moved it down, they never
\* repeat or skip one, and reach the end when the start is still the newest.
PagesOfAll(txs) ==
  \A size \in 1 .. MaxPageSize :
    \A all \in {Pages(txs, Everything, size)} :
      /\ all = Hashes(Newest(txs))
      /\ \A at \in DOMAIN all :
           \A rest \in {Pages(txs, [Everything EXCEPT !.start = all[at]], size)} :
             /\ IsPrefix(rest, SubSeq(all, at, Len(all)))
             /\ at = 1 => rest = all

\* The transactions of an address: each page newest first, none on two pages,
\* and one that is on no page was overwritten in the index by another
\* transaction of the address with the same time.
PagesOfAddress(txs) ==
  \A field \in {"from", "to"}, size \in 1 .. MaxPageSize : \A a \in {t[field] : t \in ToSet(txs)} \ {0} :
    \A q \in {[Everything EXCEPT ![field] = a]} :
      \A shown \in {Pages(txs, q, size)} :
        /\ IsInjective(shown)
        /\ \A t \in ToSet(txs) : t[field] = a =>
             \/ t.hash \in ToSet(shown)
             \/ \E u \in ToSet(txs) : u.hash \in ToSet(shown) /\ u[field] = a /\ u.time = t.time
        /\ \A h \in ToSet(shown) : ByHash(txs, h)[field] = a
        /\ \A h \in ToSet(shown) : h \in ToSet(Pages(txs, [q EXCEPT !.start = h], size))
        /\ \A p \in DOMAIN txs : \A it \in {getTransactions(TRUE, txs, [q EXCEPT !.page = p, !.size = size]).items} :
             \A i \in 1 .. Len(it) - 1 : ByHash(txs, it[i]).time > ByHash(txs, it[i + 1]).time

\* Accounts and gossips: the pages hold all of them once, in key order, from
\* the start on.
PagesOfKeys(set) ==
  \A size \in 1 .. MaxPageSize :
    /\ \A start \in set \cup {0} :
         FlattenSeq([p \in 1 .. Cardinality(set) + 1 |-> AccountPaging(set, start, p, size).items])
           = SetToSortSeq({a \in set : a >= start}, <)
    /\ FlattenSeq([p \in 1 .. Cardinality(set) + 1 |-> GossipPaging(set, p, size).items]) = SetToSortSeq(set, <)
=============================================================================
