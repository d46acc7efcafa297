------------------------------ MODULE StateDB ------------------------------
(***************************************************************************)
(* The state of a contract's world while it is executed                    *)
(* (dvm/ethereum/state): objects loaded from a trie on first use, changes  *)
(* recorded in a journal so that RevertToSnapshot can undo them, storage   *)
(* cached per object and flushed to the object's own trie, and the writing *)
(* back by Finalise and Commit.  A trie is what it maps; module Trie       *)
(* models how.  Hashes stand for what they are the hash of.                *)
(***************************************************************************)
EXTENDS Integers, Sequences, FiniteSets, SequencesExt, Functions

CONSTANTS
  Addr,         \* addresses in use
  Ripemd,       \* the address of the precompiled contract touch() singles out
  Key,          \* storage keys
  Val,          \* storage values other than Zero
  Code,         \* codes other than NoCode
  Known,        \* address -> balance of the accounts in Badger
  Amount,       \* amounts and nonces the setters are given
  MaxBalance,   \* bound: balances
  Tries,        \* worlds to start from
  MaxWork,      \* bound: calls of the setters and GetState
  MaxSnapshots, \* bound: snapshots taken
  MaxRounds     \* bound: calls of IntermediateRoot, Commit, New, Reset and Copy

VARIABLES
  sdb,     \* the StateDB
  phase,   \* "open", "final" after IntermediateRoot, "committed"
  work,    \* counts the setters
  rounds   \* counts IntermediateRoot, Commit, New, Reset and Copy

vars == <<sdb, phase, work, rounds>>

Zero == 0
NoCode == 0
Nobody == "nobody"

\* An account as the trie holds it.
Account ==
  [bal : 0 .. MaxBalance, nonce : Nat, code : Code \cup {NoCode}, root : [Key -> Val \cup {Zero}]]

ASSUME StateAssumption ==
  /\ Ripemd \in Addr /\ Nobody \notin Addr
  /\ MaxBalance \in Nat /\ Amount \subseteq Nat
  /\ \A a \in DOMAIN Known : Known[a] \in 0 .. MaxBalance
  /\ \A t \in Tries : DOMAIN t \subseteq Addr /\ t \in [DOMAIN t -> Account]

NoStorage == [k \in Key |-> Zero]
Put(f, k, v) == [x \in DOMAIN f \cup {k} |-> IF x = k THEN v ELSE f[x]]
Without(f, k) == Restrict(f, DOMAIN f \ {k})

-----------------------------------------------------------------------------
(* stateObject.  "root" is the content of its storage trie.                *)

newStateObject(data) ==
  [bal |-> data.bal, nonce |-> 0, code |-> data.code, root |-> data.root, cached |-> <<>>, dirty |-> <<>>,
   suicided |-> FALSE, deleted |-> FALSE]

NewAccount(bal) == [bal |-> bal, nonce |-> 0, code |-> NoCode, root |-> NoStorage]

empty(o) == o.nonce = 0 /\ o.bal = 0 /\ o.code = NoCode

\* GetState reads the cache first, and fills it with what is not zero.
ObjGetState(o, k) == IF k \in DOMAIN o.cached THEN o.cached[k] ELSE o.root[k]
Cache(o, k) ==
  IF k \notin DOMAIN o.cached /\ o.root[k] # Zero THEN [o EXCEPT !.cached = Put(@, k, o.root[k])] ELSE o

setState(o, k, v) == [o EXCEPT !.cached = Put(@, k, v), !.dirty = Put(@, k, v)]

\* Variant of updateTrie: a slot set to zero is skipped, not deleted.
updateTrieKeepingZeros(o) ==
  [o EXCEPT !.root = [k \in Key |-> IF k \in DOMAIN o.dirty /\ o.dirty[k] # Zero THEN o.dirty[k] ELSE o.root[k]],
            !.dirty = <<>>]

\* updateTrie, updateRoot and CommitTrie flush the dirty slots.
updateTrie(o) ==
  [o EXCEPT !.root = [k \in Key |-> IF k \in DOMAIN o.dirty THEN o.dirty[k] ELSE o.root[k]], !.dirty = <<>>]

AccountOf(o) == [bal |-> o.bal, nonce |-> o.nonce, code |-> o.code, root |-> o.root]

\* deepCopy: the cache of the copy holds the dirty slots only.
deepCopy(o) ==
  [newStateObject(AccountOf(o)) EXCEPT !.dirty = o.dirty, !.cached = o.dirty, !.suicided = o.suicided,
                                       !.deleted = o.deleted]

-----------------------------------------------------------------------------
(* Looking up: getStateObject answers a live object, or loads it.          *)

InTrie(d, a) == a \notin DOMAIN d.objs /\ a \in DOMAIN d.trie
Has(d, a) == (a \in DOMAIN d.objs /\ ~ d.objs[a].deleted) \/ InTrie(d, a)
Object(d, a) == IF a \in DOMAIN d.objs THEN d.objs[a] ELSE newStateObject(d.trie[a])
getStateObject(d, a) == IF InTrie(d, a) THEN [d EXCEPT !.objs = Put(@, a, Object(d, a))] ELSE d
setStateObject(d, a, o) == [d EXCEPT !.objs = Put(@, a, o)]

-----------------------------------------------------------------------------
(* The journal.  An entry says what it is about and what was there before. *)

Change(what, a, key, prev) == [what |-> what, addr |-> a, key |-> key, prev |-> prev]

dirtied(e) == IF e.what \in {"reset", "refund", "log", "preimage"} THEN Nobody ELSE e.addr

Count(d, e, n) ==
  [d EXCEPT !.dirties = [a \in Addr |-> IF a = dirtied(e) THEN d.dirties[a] + n ELSE d.dirties[a]]]
append(d, e) == Count([d EXCEPT !.entries = Append(d.entries, e)], e, 1)
Dirties(d) == {a \in Addr : d.dirties[a] > 0}

\* Variant of undo: the previous value of a slot goes to the cache only.
undoCached(d, e) ==
  LET o == Object(d, e.addr)
  IN  IF e.what = "storage"
      THEN setStateObject(d, e.addr, [o EXCEPT !.cached = Put(@, e.key, e.prev)]) ELSE d

\* journalEntry.revert.
undo(d, e) ==
  LET o == Object(d, e.addr)
  IN  CASE e.what = "create"   -> [d EXCEPT !.objs = Without(@, e.addr), !.dirtyObjs = @ \ {e.addr}]
        [] e.what = "reset"    -> setStateObject(d, e.addr, e.prev)
        [] e.what = "suicide"  -> IF Has(d, e.addr)
                                  THEN setStateObject(d, e.addr, [o EXCEPT !.suicided = e.prev.suicided,
                                                                           !.bal = e.prev.bal])
                                  ELSE d
        [] e.what = "balance"  -> setStateObject(d, e.addr, [o EXCEPT !.bal = e.prev])
        [] e.what = "nonce"    -> setStateObject(d, e.addr, [o EXCEPT !.nonce = e.prev])
        [] e.what = "code"     -> setStateObject(d, e.addr, [o EXCEPT !.code = e.prev])
        [] e.what = "storage"  -> setStateObject(d, e.addr, setState(o, e.key, e.prev))
        [] e.what = "refund"   -> [d EXCEPT !.refund = e.prev]
        [] e.what = "log"      -> [d EXCEPT !.logs = Front(@)]
        [] e.what = "preimage" -> [d EXCEPT !.preimages = @ \ {e.key}]
        [] e.what = "touch"    -> d

\* journal.revert: from the last entry down to the one after n.  back[j] holds
\* the state in which the last j entries are undone.
revertLast(d) ==
  LET e == Last(d.entries) IN [Count(undo(d, e), e, -1) EXCEPT !.entries = Front(d.entries)]
revert(d, n) ==
  LET back[j \in 0 .. Len(d.entries)] == IF j = 0 THEN {d} ELSE {revertLast(x) : x \in back[j - 1]}
  IN  CHOOSE x \in back[Len(d.entries) - n] : TRUE

newJournal(d) == [d EXCEPT !.entries = <<>>, !.dirties = [a \in Addr |-> 0]]
clearJournalAndRefund(d) == [newJournal(d) EXCEPT !.revisions = <<>>, !.refund = 0]

-----------------------------------------------------------------------------
(* The setters of StateDB.                                                 *)

\* Object o takes the place of what account a was, and entry e says how to undo it.
Write(d, e, a, o) == setStateObject(append(d, e), a, o)

\* createObject takes an account it does not have from Badger.
createObject(d, a) ==
  IF Has(d, a)
  THEN Write(getStateObject(d, a), Change("reset", a, Zero, Object(d, a)), a, newStateObject(NewAccount(0)))
  ELSE Write(d, Change("create", a, Zero, Zero), a,
             newStateObject(NewAccount(IF a \in DOMAIN Known THEN Known[a] ELSE 0)))
GetOrNewStateObject(d, a) == IF Has(d, a) THEN getStateObject(d, a) ELSE createObject(d, a)

CreateAccount(d, a) ==
  LET x == createObject(d, a)
  IN  IF Has(d, a) THEN setStateObject(x, a, [x.objs[a] EXCEPT !.bal = Object(d, a).bal]) ELSE x

SetBalance(d, a, n) ==
  LET x == GetOrNewStateObject(d, a)
  IN  Write(x, Change("balance", a, Zero, x.objs[a].bal), a, [x.objs[a] EXCEPT !.bal = n])

\* touch: the touch of Ripemd outlives its revert.
touch(d, a) ==
  LET e == Change("touch", a, Zero, Zero)
      x == append(d, e)
  IN  IF a = Ripemd THEN Count(x, e, 1) ELSE x

AddBalance(d, a, n) ==
  LET x == GetOrNewStateObject(d, a)
  IN  IF n # 0 THEN SetBalance(x, a, x.objs[a].bal + n) ELSE IF empty(x.objs[a]) THEN touch(x, a) ELSE x
SubBalance(d, a, n) ==
  LET x == GetOrNewStateObject(d, a)
  IN  IF n # 0 THEN SetBalance(x, a, x.objs[a].bal - n) ELSE x

SetNonce(d, a, n) ==
  LET x == GetOrNewStateObject(d, a)
  IN  Write(x, Change("nonce", a, Zero, x.objs[a].nonce), a, [x.objs[a] EXCEPT !.nonce = n])
SetCode(d, a, c) ==
  LET x == GetOrNewStateObject(d, a)
  IN  Write(x, Change("code", a, Zero, x.objs[a].code), a, [x.objs[a] EXCEPT !.code = c])
SetState(d, a, k, v) ==
  LET x == GetOrNewStateObject(d, a)
      o == Cache(x.objs[a], k)
  IN  Write(x, Change("storage", a, k, ObjGetState(o, k)), a, setState(o, k, v))
GetState(d, a, k) ==
  IF Has(d, a) THEN setStateObject(d, a, Cache(Object(d, a), k)) ELSE d
Suicide(d, a) ==
  LET o == Object(d, a)
  IN  Write(d, Change("suicide", a, Zero, [suicided |-> o.suicided, bal |-> o.bal]), a,
            [o EXCEPT !.suicided = TRUE, !.bal = 0])
AddRefund(d, gas) == [append(d, Change("refund", Nobody, Zero, d.refund)) EXCEPT !.refund = @ + gas]
AddLog(d, log) == [append(d, Change("log", Nobody, Zero, Zero)) EXCEPT !.logs = Append(@, log)]
AddPreimage(d, h) ==
  IF h \in d.preimages THEN d
  ELSE [append(d, Change("preimage", Nobody, h, Zero)) EXCEPT !.preimages = @ \cup {h}]

-----------------------------------------------------------------------------
(* Snapshots, and the end of a transaction.                                *)

Snapshot(d) ==
  [d EXCEPT !.revisions = Append(@, [id |-> d.nextId, index |-> Len(d.entries)]), !.nextId = @ + 1]
RevertToSnapshot(d, i) == [revert(d, d.revisions[i].index) EXCEPT !.revisions = SubSeq(@, 1, i - 1)]

updateStateObject(o) == AccountOf(updateTrie(o))
deleteStateObject(o) == [o EXCEPT !.deleted = TRUE]

\* The loops of Finalise and Commit: the accounts "gone" are deleted, the other
\* dirty ones written.
WriteBack(d, dirty, gone) ==
  [d EXCEPT
    !.objs = [a \in DOMAIN d.objs |-> IF a \in gone THEN deleteStateObject(d.objs[a])
                                      ELSE IF a \in dirty THEN updateTrie(d.objs[a]) ELSE d.objs[a]],
    !.trie = [a \in (DOMAIN d.trie \cup dirty) \ gone |->
                IF a \in dirty THEN updateStateObject(d.objs[a]) ELSE d.trie[a]]]

\* Finalise and IntermediateRoot.
Finalise(d, deleteEmptyObjects) ==
  LET S == Dirties(d) \cap DOMAIN d.objs
      gone == {a \in S : d.objs[a].suicided \/ (deleteEmptyObjects /\ empty(d.objs[a]))}
  IN  clearJournalAndRefund([WriteBack(d, S, gone) EXCEPT !.dirtyObjs = d.dirtyObjs \cup S])

\* Commit goes through every object, and writes the dirty ones.
Commit(d, deleteEmptyObjects) ==
  LET isDirty == d.dirtyObjs \cup Dirties(d)
      S == isDirty \cap DOMAIN d.objs
      gone == {a \in DOMAIN d.objs :
                 d.objs[a].suicided \/ (a \in isDirty /\ deleteEmptyObjects /\ empty(d.objs[a]))}
  IN  clearJournalAndRefund([WriteBack(d, S, gone) EXCEPT !.dirtyObjs = isDirty \ DOMAIN d.objs])

New(trie) ==
  [trie |-> trie, objs |-> <<>>, dirtyObjs |-> {}, refund |-> 0, logs |-> <<>>, preimages |-> {}, entries |-> <<>>,
   dirties |-> [a \in Addr |-> 0], revisions |-> <<>>, nextId |-> 0]

\* Reset on the root of the trie: the ids of snapshots go on.
Reset(d) == [New(d.trie) EXCEPT !.nextId = d.nextId]

\* Copy takes the dirty objects and the trie; the journal is new.
Copy(d) ==
  LET S == Dirties(d) \cup d.dirtyObjs
  IN  [New(d.trie) EXCEPT !.objs = [a \in S |-> deepCopy(d.objs[a])], !.dirtyObjs = S, !.refund = d.refund,
                          !.logs = d.logs, !.preimages = d.preimages]

-----------------------------------------------------------------------------
(* How DVMService uses it: a StateDB is opened on the root of a world, the  *)
(* EVM works on it, the transaction's one is finalised for the receipt,     *)
(* both it and those of nested calls are committed and dropped.             *)

Room == phase = "open" /\ work < MaxWork
Bal(a) == IF Has(sdb, a) THEN Object(sdb, a).bal ELSE IF a \in DOMAIN Known THEN Known[a] ELSE 0

Setter(d) == sdb' = d /\ work' = work + 1 /\ UNCHANGED <<phase, rounds>>

\* evm.Call creates accounts that are not there; evm.create replaces whatever
\* is there, and sets the nonce.
DoCreateAccount(a) == Room /\ ~ Has(sdb, a) /\ Setter(CreateAccount(sdb, a))
DoCreateContract(a) == Room /\ Setter(SetNonce(CreateAccount(sdb, a), a, 1))
DoAddBalance(a, n) == Room /\ Bal(a) + n <= MaxBalance /\ Setter(AddBalance(sdb, a, n))
DoSubBalance(a, n) == Room /\ Bal(a) >= n /\ Setter(SubBalance(sdb, a, n))
DoSetNonce(a, n) == Room /\ Setter(SetNonce(sdb, a, n))
DoSetCode(a, c) == Room /\ Setter(SetCode(sdb, a, c))
DoSetState(a, k, v) == Room /\ Setter(SetState(sdb, a, k, v))
DoGetState(a, k) == Room /\ Setter(GetState(sdb, a, k))
DoSuicide(a) == Room /\ Has(sdb, a) /\ Setter(Suicide(sdb, a))
DoAddRefund == Room /\ sdb.refund = 0 /\ Setter(AddRefund(sdb, 1))
DoAddLog == Room /\ sdb.logs = <<>> /\ Setter(AddLog(sdb, Len(sdb.logs)))
DoAddPreimage == Room /\ sdb.preimages = {} /\ Setter(AddPreimage(sdb, Zero))

\* Two snapshots of the same moment differ in nothing but their ids.
DoSnapshot ==
  /\ phase = "open" /\ sdb.nextId < MaxSnapshots
  /\ Len(sdb.entries) \notin {sdb.revisions[i].index : i \in DOMAIN sdb.revisions}
  /\ sdb' = Snapshot(sdb) /\ UNCHANGED <<phase, work, rounds>>
DoRevert(i) == phase = "open" /\ sdb' = RevertToSnapshot(sdb, i) /\ UNCHANGED <<phase, work, rounds>>

Round == rounds < MaxRounds /\ rounds' = rounds + 1 /\ UNCHANGED work
DoIntermediateRoot == Round /\ phase = "open" /\ phase' = "final" /\ sdb' = Finalise(sdb, TRUE)
DoCommit == Round /\ phase # "committed" /\ phase' = "committed" /\ sdb' = Commit(sdb, FALSE)
DoNew == Round /\ phase = "committed" /\ phase' = "open" /\ sdb' = New(sdb.trie)
DoReset == Round /\ phase = "open" /\ rounds = 0 /\ sdb.revisions # <<>> /\ sdb' = Reset(sdb) /\ UNCHANGED phase
DoCopy == Round /\ phase = "open" /\ rounds = 0 /\ Dirties(sdb) \subseteq DOMAIN sdb.objs /\ sdb' = Copy(sdb) /\ UNCHANGED phase

Init == (\E t \in Tries : sdb = New(t)) /\ phase = "open" /\ work = 0 /\ rounds = 0

OnAccount(a) ==
  \/ DoCreateAccount(a) \/ DoCreateContract(a)
  \/ \E n \in Amount \cup {0} : DoAddBalance(a, n)
  \/ \E n \in Amount : DoSubBalance(a, n) \/ DoSetNonce(a, n)
  \/ \E c \in Code : DoSetCode(a, c)
  \/ \E k \in Key : DoGetState(a, k) \/ \E v \in Val \cup {Zero} : DoSetState(a, k, v)
  \/ DoSuicide(a)

Next ==
  \/ \E a \in Addr \ {Ripemd} : OnAccount(a)
  \/ \E n \in Amount \cup {0} : DoAddBalance(Ripemd, n)  \* a call of the precompiled contract
  \/ DoAddRefund \/ DoAddLog \/ DoAddPreimage
  \/ DoSnapshot
  \/ \E i \in DOMAIN sdb.revisions : DoRevert(i)
  \/ DoIntermediateRoot
  \/ DoCommit
  \/ DoNew
  \/ DoReset
  \/ DoCopy

Spec == Init /\ [][Next]_vars

-----------------------------------------------------------------------------
(* Properties.                                                             *)

\* What the getters answer about an account: nothing, or one record.
Answers(o) ==
  [bal |-> o.bal, nonce |-> o.nonce, code |-> o.code, suicided |-> o.suicided,
   store |-> [k \in Key |-> ObjGetState(o, k)]]
Visible(d, a) == IF Has(d, a) THEN {Answers(Object(d, a))} ELSE {}
View(d) ==
  [accounts |-> [a \in Addr |-> Visible(d, a)], refund |-> d.refund, logs |-> d.logs, preimages |-> d.preimages]

\* Type invariant.
TypeOK ==
  /\ DOMAIN sdb.trie \subseteq Addr /\ DOMAIN sdb.objs \subseteq Addr
  /\ \A a \in DOMAIN sdb.objs :
       sdb.objs[a].bal \in 0 .. MaxBalance /\ DOMAIN sdb.objs[a].dirty \subseteq DOMAIN sdb.objs[a].cached
  /\ sdb.dirties \in [Addr -> Nat] /\ sdb.dirtyObjs \subseteq Addr
  /\ \A i \in DOMAIN sdb.revisions : sdb.revisions[i].index <= Len(sdb.entries)

\* The journal implements a stack of copies: reverting brings back every
\* answer the StateDB gave when the snapshot was taken, whatever happened in
\* between (loads from the trie, resets, suicides, slots written twice).
Copies ==
  INSTANCE StateSpec WITH
    now <- View(sdb),
    snapshots <- [i \in DOMAIN sdb.revisions |->
                    [id |-> sdb.revisions[i].id, copy |-> View(revert(sdb, sdb.revisions[i].index))]],
    nextId <- sdb.nextId,
    ended <- rounds
RevertRestoresCopies == Copies!Abstract

\* A slot in the cache is the one to be flushed or the one in the trie, so
\* GetState never answers a value that a revert or a flush made stale.
CacheCoherent ==
  \A a \in DOMAIN sdb.objs : LET o == sdb.objs[a] IN
    \A k \in DOMAIN o.cached : o.cached[k] = (IF k \in DOMAIN o.dirty THEN o.dirty[k] ELSE o.root[k])

\* The counters of dirty accounts are those of the journal; only a touch of
\* Ripemd leaves a count behind.
DirtiesMatchJournal ==
  \A a \in Addr \ {Ripemd} :
    sdb.dirties[a] = Cardinality({i \in DOMAIN sdb.entries : dirtied(sdb.entries[i]) = a})

\* Commit loses nothing: an account it would not write has the answers of the
\* trie, its nonce aside, which loading sets to 0.  (The journal does not
\* count the reset of an account, only what follows it.)
CleanIsUnchanged ==
  \A a \in DOMAIN sdb.objs \ (Dirties(sdb) \cup sdb.dirtyObjs) :
    LET o == sdb.objs[a]
    IN  \/ o.deleted /\ a \notin DOMAIN sdb.trie
        \/ /\ a \in DOMAIN sdb.trie /\ o.bal = sdb.trie[a].bal /\ o.code = sdb.trie[a].code
           /\ \A k \in Key : ObjGetState(o, k) = sdb.trie[a].root[k]

\* Commit writes what the getters answer: afterwards the trie holds every
\* account that is not suicided, slot by slot.  Commit(false) also brings back
\* accounts that IntermediateRoot(true) deleted because they were empty.
TrieOf(d, a) == IF a \in DOMAIN d.trie THEN {[d.trie[a] EXCEPT !.nonce = 0]} ELSE {}
Kept(d, a) ==
  {[bal |-> v.bal, nonce |-> 0, code |-> v.code, root |-> v.store] : v \in {w \in Visible(d, a) : ~ w.suicided}}
CommitWritesAnswers ==
  [][phase # "committed" /\ phase' = "committed" =>
       \A a \in Addr : \/ TrieOf(sdb', a) = Kept(sdb, a)
                       \/ a \in DOMAIN sdb.objs /\ sdb.objs[a].deleted /\ empty(sdb.objs[a])]_vars

\* The parts of a StateDB that speak of the same account agree: cached and dirty
\* slots, journal and counters, objects and trie.
StateCoherent == TypeOK /\ CacheCoherent /\ DirtiesMatchJournal /\ CleanIsUnchanged

\* What the getters answer survives snapshots that are reverted, and is what
\* Commit writes (RevertToSnapshot, Commit).
AnswersKept == RevertRestoresCopies /\ CommitWritesAnswers
=============================================================================
