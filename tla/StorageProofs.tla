--------------------------- MODULE StorageProofs ---------------------------
(***************************************************************************)
(* Contract storage, for any values of the constants.                      *)
(*                                                                         *)
(* The first half is about StateDB: its journal brings back every answer,  *)
(* for any accounts, keys, values and any number of setters, snapshots and *)
(* rounds.                                                                 *)
(* Undoing an entry changes the answers (View) in a way that depends on    *)
(* the answers and the entry only (ViewUndo), whatever is cached, loaded   *)
(* or dirty.  So a StateDB has a history h: h[n] is what it answers once   *)
(* all entries after the first n are undone, and h[Len(entries)] what it   *)
(* answers now (Journal).  A setter makes the history longer and a revert  *)
(* makes it shorter; neither changes what it says.                         *)
(*                                                                         *)
(* The second half is about TrieDatabase: a node reaches Badger after all  *)
(* it needs, and nothing that is needed is lost.  A Database is Intact     *)
(* when a cached node has what it needs, on the disk or cached and older   *)
(* (Whole), when a node that is not on the disk has a parent for each use  *)
(* and for each reference of the meta root (Counted), and when the         *)
(* flush-list runs through the cached nodes by rank (Ranked).  The ranks   *)
(* stay as nodes leave, so that the oldest need nothing that Cap leaves    *)
(* behind.  While dereference runs, what is still to be given up is        *)
(* counted too.                                                            *)
(***************************************************************************)
EXTENDS StateDB, TrieDatabase, FiniteSetTheorems, SequenceTheorems, NaturalsInduction, WellFoundedInduction, TLAPS

-----------------------------------------------------------------------------
(* Types                                                                   *)

Value == Val \cup {Zero}

Slots == UNION {[S -> Value] : S \in SUBSET Key}

Obj ==
  [bal : 0 .. MaxBalance, nonce : Nat, code : Code \cup {NoCode}, root : [Key -> Value],
   cached : Slots, dirty : Slots, suicided : BOOLEAN, deleted : BOOLEAN]

World == UNION {[S -> Account] : S \in SUBSET Addr}

Objs == UNION {[S -> Obj] : S \in SUBSET Addr}

What ==
  {"create", "reset", "suicide", "balance", "nonce", "code", "storage", "refund", "log", "preimage", "touch"}

Prev ==
  Int \cup Value \cup Code \cup {NoCode} \cup Obj \cup [suicided : BOOLEAN, bal : 0 .. MaxBalance]

Entry == [what : What, addr : Addr \cup {Nobody}, key : Key \cup {Zero}, prev : Prev]

DB ==
  [trie : World, objs : Objs, dirtyObjs : SUBSET Addr, refund : Nat, logs : Seq(Nat),
   preimages : SUBSET Nat, entries : Seq(Entry), dirties : [Addr -> Int],
   revisions : Seq([id : Nat, index : Nat]), nextId : Nat]

-----------------------------------------------------------------------------
(* Records and partial functions                                           *)

LEMMA PutIs ==
  ASSUME NEW f, NEW k, NEW v
  PROVE  /\ DOMAIN Put(f, k, v) = DOMAIN f \cup {k} /\ Put(f, k, v)[k] = v
         /\ \A x \in DOMAIN f : x # k => Put(f, k, v)[x] = f[x]
  BY DEF Put

LEMMA PutSlots ==
  ASSUME NEW f \in Slots, NEW k \in Key, NEW v \in Value
  PROVE  Put(f, k, v) \in Slots
  <1>1. PICK S \in SUBSET Key : f \in [S -> Value]
    BY DEF Slots
  <1>2. Put(f, k, v) \in [S \cup {k} -> Value]
    BY <1>1 DEF Put
  <1>3. S \cup {k} \in SUBSET Key
    OBVIOUS
  <1> QED
    BY <1>2, <1>3 DEF Slots

LEMMA PutObjs ==
  ASSUME NEW f \in Objs, NEW a \in Addr, NEW o \in Obj
  PROVE  Put(f, a, o) \in Objs
  <1>1. PICK S \in SUBSET Addr : f \in [S -> Obj]
    BY DEF Objs
  <1>2. Put(f, a, o) \in [S \cup {a} -> Obj]
    BY <1>1 DEF Put
  <1>3. S \cup {a} \in SUBSET Addr
    OBVIOUS
  <1> QED
    BY <1>2, <1>3 DEF Objs

LEMMA WithoutObjs ==
  ASSUME NEW f \in Objs, NEW a
  PROVE  /\ Without(f, a) \in Objs /\ DOMAIN Without(f, a) = DOMAIN f \ {a}
         /\ \A x \in DOMAIN f : x # a => Without(f, a)[x] = f[x]
  <1>1. PICK S \in SUBSET Addr : f \in [S -> Obj]
    BY DEF Objs
  <1>2. Without(f, a) \in [S \ {a} -> Obj]
    BY <1>1 DEF Without, Restrict
  <1>3. S \ {a} \in SUBSET Addr
    OBVIOUS
  <1>4. DOMAIN Without(f, a) = DOMAIN f \ {a} /\ \A x \in DOMAIN f : x # a => Without(f, a)[x] = f[x]
    BY DEF Without, Restrict
  <1> QED
    BY <1>2, <1>3, <1>4 DEF Objs

LEMMA ObjsIs ==
  ASSUME NEW f \in Objs
  PROVE  DOMAIN f \in SUBSET Addr /\ \A a \in DOMAIN f : f[a] \in Obj
  BY DEF Objs

LEMMA WorldIs ==
  ASSUME NEW f \in World
  PROVE  DOMAIN f \in SUBSET Addr /\ \A a \in DOMAIN f : f[a] \in Account
  BY DEF World

LEMMA SlotsIs ==
  ASSUME NEW f \in Slots
  PROVE  DOMAIN f \in SUBSET Key /\ \A k \in DOMAIN f : f[k] \in Value
  BY DEF Slots

LEMMA ObjIs ==
  ASSUME NEW o \in Obj
  PROVE  /\ o.bal \in 0 .. MaxBalance /\ o.nonce \in Nat /\ o.code \in Code \cup {NoCode}
         /\ o.root \in [Key -> Value] /\ o.cached \in Slots /\ o.dirty \in Slots
         /\ o.suicided \in BOOLEAN /\ o.deleted \in BOOLEAN
  BY DEF Obj

LEMMA AccountIs ==
  ASSUME NEW c \in Account
  PROVE  /\ c.bal \in 0 .. MaxBalance /\ c.nonce \in Nat /\ c.code \in Code \cup {NoCode}
         /\ c.root \in [Key -> Value]
  BY DEF Account, Value

LEMMA DBIs ==
  ASSUME NEW d \in DB
  PROVE  /\ d.trie \in World /\ d.objs \in Objs /\ d.dirtyObjs \in SUBSET Addr /\ d.refund \in Nat
         /\ d.logs \in Seq(Nat) /\ d.preimages \in SUBSET Nat /\ d.entries \in Seq(Entry)
         /\ d.dirties \in [Addr -> Int] /\ d.revisions \in Seq([id : Nat, index : Nat])
         /\ d.nextId \in Nat
  BY DEF DB

LEMMA EmptySlots == <<>> \in Slots /\ DOMAIN <<>> = {}
  <1>1. <<>> \in [{} -> Value]
    OBVIOUS
  <1> QED
    BY <1>1 DEF Slots

LEMMA NewObjectIs ==
  ASSUME NEW c \in Account, NEW o, o = newStateObject(c)
  PROVE  /\ o \in Obj /\ o.bal = c.bal /\ o.nonce = 0 /\ o.code = c.code /\ o.root = c.root
         /\ DOMAIN o.cached = {} /\ DOMAIN o.dirty = {} /\ ~ o.suicided /\ ~ o.deleted
  <1> DEFINE no == FALSE
  <1>1. no \in BOOLEAN
    BY Zenon
  <1>2. o = [bal |-> c.bal, nonce |-> 0, code |-> c.code, root |-> c.root, cached |-> <<>>, dirty |-> <<>>,
             suicided |-> no, deleted |-> no]
    BY DEF newStateObject
  <1>3. ~ o.suicided /\ ~ o.deleted
    BY <1>2
  <1> HIDE DEF no
  <1>4. o \in Obj
    BY <1>1, <1>2, AccountIs, EmptySlots DEF Obj
  <1>5. /\ o.bal = c.bal /\ o.nonce = 0 /\ o.code = c.code /\ o.root = c.root
        /\ o.cached = <<>> /\ o.dirty = <<>>
    BY <1>2
  <1> QED
    BY <1>3, <1>4, <1>5, EmptySlots

LEMMA SetObjectIs ==
  ASSUME NEW d \in DB, NEW a \in Addr, NEW o \in Obj, NEW x, x = setStateObject(d, a, o)
  PROVE  /\ x \in DB /\ x.objs = Put(d.objs, a, o) /\ x.trie = d.trie /\ x.dirtyObjs = d.dirtyObjs
         /\ x.refund = d.refund /\ x.logs = d.logs /\ x.preimages = d.preimages
         /\ x.entries = d.entries /\ x.dirties = d.dirties /\ x.revisions = d.revisions
         /\ x.nextId = d.nextId
  <1>1. Put(d.objs, a, o) \in Objs
    BY DBIs, PutObjs
  <1> QED
    BY <1>1 DEF DB, setStateObject

\* What the journal's counters become when entry e is counted n times.
Bump(f, e, n) == [a \in Addr |-> IF a = dirtied(e) THEN f[a] + n ELSE f[a]]

LEMMA BumpIs ==
  ASSUME NEW f \in [Addr -> Int], NEW e, NEW n \in Int
  PROVE  Bump(f, e, n) \in [Addr -> Int]
  BY DEF Bump

LEMMA CountIs ==
  ASSUME NEW d \in DB, NEW e, NEW n \in Int, NEW x, x = Count(d, e, n)
  PROVE  /\ x \in DB /\ x.objs = d.objs /\ x.trie = d.trie /\ x.dirtyObjs = d.dirtyObjs
         /\ x.refund = d.refund /\ x.logs = d.logs /\ x.preimages = d.preimages
         /\ x.entries = d.entries /\ x.dirties = Bump(d.dirties, e, n) /\ x.revisions = d.revisions
         /\ x.nextId = d.nextId
  <1>1. Bump(d.dirties, e, n) \in [Addr -> Int]
    BY DBIs, BumpIs
  <1>2. x = [d EXCEPT !.dirties = Bump(d.dirties, e, n)]
    BY DEF Count, Bump
  <1> QED
    BY <1>1, <1>2 DEF DB

LEMMA AppendIs ==
  ASSUME NEW d \in DB, NEW e \in Entry, NEW x, x = append(d, e)
  PROVE  /\ x \in DB /\ x.objs = d.objs /\ x.trie = d.trie /\ x.dirtyObjs = d.dirtyObjs
         /\ x.refund = d.refund /\ x.logs = d.logs /\ x.preimages = d.preimages
         /\ x.entries = Append(d.entries, e) /\ x.dirties = Bump(d.dirties, e, 1)
         /\ x.revisions = d.revisions /\ x.nextId = d.nextId
  <1> DEFINE y == [d EXCEPT !.entries = Append(d.entries, e)]
  <1>1. Append(d.entries, e) \in Seq(Entry)
    BY DBIs
  <1>2. /\ y \in DB /\ y.objs = d.objs /\ y.trie = d.trie /\ y.dirtyObjs = d.dirtyObjs
        /\ y.refund = d.refund /\ y.logs = d.logs /\ y.preimages = d.preimages
        /\ y.entries = Append(d.entries, e) /\ y.dirties = d.dirties
        /\ y.revisions = d.revisions /\ y.nextId = d.nextId
    BY <1>1 DEF DB
  <1>3. x = Count(y, e, 1)
    BY DEF append
  <1> HIDE DEF y
  <1> QED
    BY <1>2, <1>3, CountIs

LEMMA WriteIs ==
  ASSUME NEW d \in DB, NEW e \in Entry, NEW a \in Addr, NEW o \in Obj, NEW x, x = Write(d, e, a, o)
  PROVE  /\ x \in DB /\ x.objs = Put(d.objs, a, o) /\ x.trie = d.trie /\ x.dirtyObjs = d.dirtyObjs
         /\ x.refund = d.refund /\ x.logs = d.logs /\ x.preimages = d.preimages
         /\ x.entries = Append(d.entries, e) /\ x.dirties = Bump(d.dirties, e, 1)
         /\ x.revisions = d.revisions /\ x.nextId = d.nextId
  <1> DEFINE y == append(d, e)
  <1>1. /\ y \in DB /\ y.objs = d.objs /\ y.trie = d.trie /\ y.dirtyObjs = d.dirtyObjs
        /\ y.refund = d.refund /\ y.logs = d.logs /\ y.preimages = d.preimages
        /\ y.entries = Append(d.entries, e) /\ y.dirties = Bump(d.dirties, e, 1)
        /\ y.revisions = d.revisions /\ y.nextId = d.nextId
    BY AppendIs
  <1>2. x = setStateObject(y, a, o)
    BY DEF Write
  <1> HIDE DEF y
  <1> QED
    BY <1>1, <1>2, SetObjectIs

-----------------------------------------------------------------------------
(* Answers                                                                 *)

\* What the getters answer about an account that is only in the trie.
FromTrie(trie, a) == IF a \in DOMAIN trie THEN {Answers(newStateObject(trie[a]))} ELSE {}

\* What undoing entry e makes of the answers A about its account.
AnswersUndo(A, e) ==
  CASE e.what = "create"  -> {}
    [] e.what = "reset"   -> {Answers(e.prev)}
    [] e.what = "suicide" -> {[[w EXCEPT !.suicided = e.prev.suicided] EXCEPT !.bal = e.prev.bal] : w \in A}
    [] e.what = "balance" -> {[w EXCEPT !.bal = e.prev] : w \in A}
    [] e.what = "nonce"   -> {[w EXCEPT !.nonce = e.prev] : w \in A}
    [] e.what = "code"    -> {[w EXCEPT !.code = e.prev] : w \in A}
    [] e.what = "storage" -> {[w EXCEPT !.store = [k \in Key |-> IF k = e.key THEN e.prev ELSE w.store[k]]] : w \in A}
    [] OTHER              -> A

\* What undoing entry e makes of all answers.
ViewUndo(v, e) ==
  [accounts |-> [a \in Addr |-> IF a = e.addr THEN AnswersUndo(v.accounts[a], e) ELSE v.accounts[a]],
   refund |-> IF e.what = "refund" THEN e.prev ELSE v.refund,
   logs |-> IF e.what = "log" THEN Front(v.logs) ELSE v.logs,
   preimages |-> IF e.what = "preimage" THEN v.preimages \ {e.key} ELSE v.preimages]

LEMMA ViewFields ==
  ASSUME NEW d
  PROVE  /\ View(d) = [accounts |-> View(d).accounts, refund |-> d.refund, logs |-> d.logs,
                       preimages |-> d.preimages]
         /\ View(d).accounts = [a \in Addr |-> Visible(d, a)]
         /\ \A a \in Addr : View(d).accounts[a] = Visible(d, a)
  BY DEF View

LEMMA AccountOfView ==
  ASSUME NEW d, NEW a \in Addr
  PROVE  View(d).accounts[a] = Visible(d, a)
  BY DEF View

\* The answers depend on objects, trie, refund, logs and preimages only.
LEMMA SameView ==
  ASSUME NEW d, NEW x, x.objs = d.objs, x.trie = d.trie, x.refund = d.refund, x.logs = d.logs,
         x.preimages = d.preimages
  PROVE  View(x) = View(d) /\ \A a : Visible(x, a) = Visible(d, a) /\ (Has(x, a) <=> Has(d, a))
  BY DEF View, Visible, Has, InTrie, Object

\* One account is replaced.
LEMMA VisiblePut ==
  ASSUME NEW d, NEW x, NEW a, NEW o, x.objs = Put(d.objs, a, o), x.trie = d.trie, ~ o.deleted
  PROVE  /\ Has(x, a) /\ Object(x, a) = o /\ Visible(x, a) = {Answers(o)}
         /\ \A b : b # a => (Has(x, b) <=> Has(d, b)) /\ Visible(x, b) = Visible(d, b)
                            /\ Object(x, b) = Object(d, b)
  <1>1. /\ DOMAIN x.objs = DOMAIN d.objs \cup {a} /\ x.objs[a] = o
        /\ \A b \in DOMAIN d.objs : b # a => x.objs[b] = d.objs[b]
    BY DEF Put
  <1>2. Has(x, a) /\ Object(x, a) = o
    BY <1>1 DEF Has, Object
  <1>3. Visible(x, a) = {Answers(o)}
    BY <1>2 DEF Visible
  <1>4. ASSUME NEW b, b # a
        PROVE  (Has(x, b) <=> Has(d, b)) /\ Object(x, b) = Object(d, b)
    <2>1. b \in DOMAIN x.objs <=> b \in DOMAIN d.objs
      BY <1>1, <1>4
    <2>2. b \in DOMAIN d.objs => x.objs[b] = d.objs[b]
      BY <1>1, <1>4
    <2>3. Object(x, b) = Object(d, b)
      BY <2>1, <2>2 DEF Object
    <2>4. InTrie(x, b) <=> InTrie(d, b)
      BY <2>1 DEF InTrie
    <2>5. Has(x, b) <=> Has(d, b)
      BY <2>1, <2>2, <2>4 DEF Has
    <2> QED
      BY <2>3, <2>5
  <1>5. \A b : b # a => Visible(x, b) = Visible(d, b)
    BY <1>4 DEF Visible
  <1> QED
    BY <1>2, <1>3, <1>4, <1>5

LEMMA AnswersUndoIs ==
  ASSUME NEW o \in Obj, NEW e,
         NEW p, p = e.prev
  PROVE  /\ e.what = "suicide" =>
              AnswersUndo({Answers(o)}, e) = {[[Answers(o) EXCEPT !.suicided = p.suicided] EXCEPT !.bal = p.bal]}
         /\ e.what = "balance" => AnswersUndo({Answers(o)}, e) = {[Answers(o) EXCEPT !.bal = p]}
         /\ e.what = "nonce" => AnswersUndo({Answers(o)}, e) = {[Answers(o) EXCEPT !.nonce = p]}
         /\ e.what = "code" => AnswersUndo({Answers(o)}, e) = {[Answers(o) EXCEPT !.code = p]}
         /\ e.what = "storage" => AnswersUndo({Answers(o)}, e) =
              {[Answers(o) EXCEPT !.store = [k \in Key |-> IF k = e.key THEN p ELSE Answers(o).store[k]]]}
         /\ e.what = "touch" => AnswersUndo({Answers(o)}, e) = {Answers(o)}
  BY DEF AnswersUndo

-----------------------------------------------------------------------------
(* Objects                                                                 *)

\* A cached slot is the one to be flushed or the one in the trie.
Coherent(o) ==
  /\ DOMAIN o.dirty \subseteq DOMAIN o.cached
  /\ \A k \in DOMAIN o.cached : o.cached[k] = (IF k \in DOMAIN o.dirty THEN o.dirty[k] ELSE o.root[k])

Sound(d) ==
  /\ \A a \in DOMAIN d.objs : Coherent(d.objs[a]) /\ ~ d.objs[a].deleted
  /\ d.dirtyObjs \subseteq DOMAIN d.objs

LEMMA StateIs ==
  ASSUME NEW o \in Obj, NEW k \in Key
  PROVE  ObjGetState(o, k) \in Value
  BY ObjIs, SlotsIs DEF ObjGetState

LEMMA SameSlots ==
  ASSUME NEW o, NEW u, u.cached = o.cached, u.dirty = o.dirty, u.root = o.root
  PROVE  /\ Coherent(o) => Coherent(u)
         /\ \A k : ObjGetState(u, k) = ObjGetState(o, k)
         /\ Answers(u).store = Answers(o).store
  BY DEF Coherent, ObjGetState, Answers

\* The fields of an object that the journal knows.
LEMMA SetFields ==
  ASSUME NEW o \in Obj, Coherent(o),
         NEW n \in 0 .. MaxBalance, NEW m \in Nat, NEW c \in Code \cup {NoCode}, NEW s \in BOOLEAN
  PROVE  LET b == [o EXCEPT !.bal = n]
             k == [o EXCEPT !.suicided = s, !.bal = n]
             l == [o EXCEPT !.nonce = m]
             p == [o EXCEPT !.code = c]
         IN  /\ b \in Obj /\ Coherent(b) /\ b.deleted = o.deleted /\ Answers(b) = [Answers(o) EXCEPT !.bal = n]
             /\ k \in Obj /\ Coherent(k) /\ k.deleted = o.deleted
             /\ Answers(k) = [[Answers(o) EXCEPT !.suicided = s] EXCEPT !.bal = n]
             /\ l \in Obj /\ Coherent(l) /\ l.deleted = o.deleted /\ Answers(l) = [Answers(o) EXCEPT !.nonce = m]
             /\ p \in Obj /\ Coherent(p) /\ p.deleted = o.deleted /\ Answers(p) = [Answers(o) EXCEPT !.code = c]
  <1> DEFINE b == [o EXCEPT !.bal = n]
             k == [o EXCEPT !.suicided = s, !.bal = n]
             l == [o EXCEPT !.nonce = m]
             p == [o EXCEPT !.code = c]
  <1>1. /\ b \in Obj /\ b.deleted = o.deleted /\ b.cached = o.cached /\ b.dirty = o.dirty /\ b.root = o.root
        /\ b.bal = n /\ b.nonce = o.nonce /\ b.code = o.code /\ b.suicided = o.suicided
    BY DEF Obj
  <1>2. /\ k \in Obj /\ k.deleted = o.deleted /\ k.cached = o.cached /\ k.dirty = o.dirty /\ k.root = o.root
        /\ k.bal = n /\ k.nonce = o.nonce /\ k.code = o.code /\ k.suicided = s
    BY DEF Obj
  <1>3. /\ l \in Obj /\ l.deleted = o.deleted /\ l.cached = o.cached /\ l.dirty = o.dirty /\ l.root = o.root
        /\ l.bal = o.bal /\ l.nonce = m /\ l.code = o.code /\ l.suicided = o.suicided
    BY DEF Obj
  <1>4. /\ p \in Obj /\ p.deleted = o.deleted /\ p.cached = o.cached /\ p.dirty = o.dirty /\ p.root = o.root
        /\ p.bal = o.bal /\ p.nonce = o.nonce /\ p.code = c /\ p.suicided = o.suicided
    BY DEF Obj
  <1> HIDE DEF b, k, l, p
  <1>5. Coherent(b) /\ Coherent(k) /\ Coherent(l) /\ Coherent(p)
    BY <1>1, <1>2, <1>3, <1>4, SameSlots
  <1>6. /\ Answers(b).store = Answers(o).store /\ Answers(k).store = Answers(o).store
        /\ Answers(l).store = Answers(o).store /\ Answers(p).store = Answers(o).store
    BY <1>1, <1>2, <1>3, <1>4, SameSlots
  <1> DEFINE st == Answers(o).store
             rec(u) == [bal |-> u.bal, nonce |-> u.nonce, code |-> u.code, suicided |-> u.suicided, store |-> st]
  <1>7. /\ Answers(o) = rec(o) /\ Answers(b) = rec(b) /\ Answers(k) = rec(k)
        /\ Answers(l) = rec(l) /\ Answers(p) = rec(p)
    BY <1>6 DEF Answers
  <1> HIDE DEF st
  <1>8. [Answers(o) EXCEPT !.bal = n] = rec(b)
    BY <1>1, <1>7
  <1>9. [Answers(o) EXCEPT !.nonce = m] = rec(l)
    BY <1>3, <1>7
  <1>10. [Answers(o) EXCEPT !.code = c] = rec(p)
    BY <1>4, <1>7
  <1>11. [[Answers(o) EXCEPT !.suicided = s] EXCEPT !.bal = n] = rec(k)
    <2> DEFINE r == [Answers(o) EXCEPT !.suicided = s]
    <2>1. r = [bal |-> o.bal, nonce |-> o.nonce, code |-> o.code, suicided |-> s, store |-> st]
      BY <1>7
    <2> HIDE DEF r
    <2>2. [r EXCEPT !.bal = n] = [bal |-> n, nonce |-> o.nonce, code |-> o.code, suicided |-> s, store |-> st]
      BY <2>1
    <2>3. rec(k) = [bal |-> n, nonce |-> o.nonce, code |-> o.code, suicided |-> s, store |-> st]
      BY <1>2
    <2> QED
      BY <2>2, <2>3 DEF r
  <1> HIDE DEF rec
  <1> QED
    BY <1>1, <1>2, <1>3, <1>4, <1>5, <1>7, <1>8, <1>9, <1>10, <1>11 DEF b, k, l, p

Alive(o, s, n) == [o EXCEPT !.suicided = s, !.bal = n]

LEMMA SetSuicided ==
  ASSUME NEW o \in Obj, Coherent(o), NEW n \in 0 .. MaxBalance, NEW s \in BOOLEAN
  PROVE  /\ Alive(o, s, n) \in Obj /\ Coherent(Alive(o, s, n)) /\ Alive(o, s, n).deleted = o.deleted
         /\ Answers(Alive(o, s, n)) = [[Answers(o) EXCEPT !.suicided = s] EXCEPT !.bal = n]
  <1> DEFINE k == [o EXCEPT !.suicided = s, !.bal = n]
  <1>1. /\ k \in Obj /\ k.deleted = o.deleted /\ k.cached = o.cached /\ k.dirty = o.dirty /\ k.root = o.root
        /\ k.bal = n /\ k.nonce = o.nonce /\ k.code = o.code /\ k.suicided = s
    BY DEF Obj
  <1>2. Alive(o, s, n) = k
    BY Zenon DEF Alive
  <1> HIDE DEF k
  <1>3. Coherent(k) /\ Answers(k).store = Answers(o).store
    BY <1>1, SameSlots
  <1> DEFINE st == Answers(o).store
             r == [Answers(o) EXCEPT !.suicided = s]
  <1>4. Answers(o) = [bal |-> o.bal, nonce |-> o.nonce, code |-> o.code, suicided |-> o.suicided, store |-> st]
    BY DEF Answers
  <1>5. Answers(k) = [bal |-> n, nonce |-> o.nonce, code |-> o.code, suicided |-> s, store |-> st]
    BY <1>1, <1>3 DEF Answers
  <1> HIDE DEF st
  <1>6. r = [bal |-> o.bal, nonce |-> o.nonce, code |-> o.code, suicided |-> s, store |-> st]
    BY <1>4
  <1> HIDE DEF r
  <1>7. [r EXCEPT !.bal = n] = [bal |-> n, nonce |-> o.nonce, code |-> o.code, suicided |-> s, store |-> st]
    BY <1>6
  <1> QED
    BY <1>1, <1>2, <1>3, <1>5, <1>7 DEF r

LEMMA SetSlot ==
  ASSUME NEW o \in Obj, Coherent(o), NEW k \in Key, NEW v \in Value, NEW u, u = setState(o, k, v)
  PROVE  /\ u \in Obj /\ Coherent(u) /\ u.deleted = o.deleted
         /\ Answers(u) = [Answers(o) EXCEPT !.store = [j \in Key |-> IF j = k THEN v ELSE Answers(o).store[j]]]
  <1>1. Put(o.cached, k, v) \in Slots /\ Put(o.dirty, k, v) \in Slots
    BY ObjIs, PutSlots
  <1>2. /\ u \in Obj /\ u.deleted = o.deleted /\ u.cached = Put(o.cached, k, v)
        /\ u.dirty = Put(o.dirty, k, v) /\ u.root = o.root
        /\ u.bal = o.bal /\ u.nonce = o.nonce /\ u.code = o.code /\ u.suicided = o.suicided
    BY <1>1 DEF Obj, setState
  <1>3. /\ DOMAIN u.cached = DOMAIN o.cached \cup {k} /\ u.cached[k] = v
        /\ \A j \in DOMAIN o.cached : j # k => u.cached[j] = o.cached[j]
        /\ DOMAIN u.dirty = DOMAIN o.dirty \cup {k} /\ u.dirty[k] = v
        /\ \A j \in DOMAIN o.dirty : j # k => u.dirty[j] = o.dirty[j]
    BY <1>2 DEF Put
  <1>4. Coherent(u)
    <2>1. DOMAIN u.dirty \subseteq DOMAIN u.cached
      BY <1>3 DEF Coherent
    <2>2. ASSUME NEW j \in DOMAIN u.cached
          PROVE  u.cached[j] = (IF j \in DOMAIN u.dirty THEN u.dirty[j] ELSE u.root[j])
      <3>1. CASE j = k
        BY <1>3, <3>1
      <3>2. CASE j # k
        BY <1>2, <1>3, <2>2, <3>2 DEF Coherent
      <3> QED
        BY <3>1, <3>2
    <2> QED
      BY <2>1, <2>2 DEF Coherent
  <1>5. \A j \in Key : ObjGetState(u, j) = IF j = k THEN v ELSE ObjGetState(o, j)
    BY <1>2, <1>3 DEF ObjGetState
  <1>6. Answers(u).store = [j \in Key |-> IF j = k THEN v ELSE Answers(o).store[j]]
    BY <1>5 DEF Answers
  <1> DEFINE st == [j \in Key |-> IF j = k THEN v ELSE Answers(o).store[j]]
             os == Answers(o).store
  <1>7. Answers(u) = [bal |-> u.bal, nonce |-> u.nonce, code |-> u.code, suicided |-> u.suicided, store |-> st]
    BY <1>6 DEF Answers
  <1>8. Answers(o) = [bal |-> o.bal, nonce |-> o.nonce, code |-> o.code, suicided |-> o.suicided, store |-> os]
    BY DEF Answers
  <1>9. Answers(u) = [Answers(o) EXCEPT !.store = st]
    <2> HIDE DEF st, os
    <2> QED
      BY <1>2, <1>7, <1>8
  <1> QED
    BY <1>2, <1>4, <1>9

\* GetState fills the cache with what it answers.
LEMMA CacheIs ==
  ASSUME NEW o \in Obj, Coherent(o), NEW k \in Key, NEW u, u = Cache(o, k)
  PROVE  /\ u \in Obj /\ Coherent(u) /\ u.deleted = o.deleted /\ Answers(u) = Answers(o)
         /\ \A j \in Key : ObjGetState(u, j) = ObjGetState(o, j)
  <1>1. CASE u = o
    BY <1>1
  <1>2. CASE k \notin DOMAIN o.cached /\ u = [o EXCEPT !.cached = Put(@, k, o.root[k])]
    <2>1. o.root[k] \in Value /\ o.cached \in Slots
      BY ObjIs
    <2>2. Put(o.cached, k, o.root[k]) \in Slots
      BY <2>1, PutSlots
    <2>3. /\ u \in Obj /\ u.deleted = o.deleted /\ u.cached = Put(o.cached, k, o.root[k])
          /\ u.dirty = o.dirty /\ u.root = o.root
          /\ u.bal = o.bal /\ u.nonce = o.nonce /\ u.code = o.code /\ u.suicided = o.suicided
      BY <1>2, <2>2 DEF Obj
    <2>4. /\ DOMAIN u.cached = DOMAIN o.cached \cup {k} /\ u.cached[k] = o.root[k]
          /\ \A j \in DOMAIN o.cached : j # k => u.cached[j] = o.cached[j]
      BY <2>3 DEF Put
    <2>5. k \notin DOMAIN o.dirty
      BY <1>2 DEF Coherent
    <2>6. Coherent(u)
      BY <2>3, <2>4, <2>5 DEF Coherent
    <2>7. \A j \in Key : ObjGetState(u, j) = ObjGetState(o, j)
      BY <1>2, <2>3, <2>4 DEF ObjGetState
    <2>8. Answers(u) = Answers(o)
      BY <2>3, <2>7 DEF Answers
    <2> QED
      BY <2>3, <2>6, <2>7, <2>8
  <1> QED
    BY <1>1, <1>2 DEF Cache

LEMMA NewIsCoherent ==
  ASSUME NEW c \in Account, NEW o, o = newStateObject(c)
  PROVE  Coherent(o) /\ \A k \in Key : ObjGetState(o, k) = c.root[k]
  BY NewObjectIs DEF Coherent, ObjGetState

\* The object of an account that is there.
LEMMA ObjectIs ==
  ASSUME NEW d \in DB, Sound(d), NEW a, Has(d, a)
  PROVE  /\ a \in Addr /\ Object(d, a) \in Obj /\ Coherent(Object(d, a)) /\ ~ Object(d, a).deleted
         /\ Visible(d, a) = {Answers(Object(d, a))}
  <1>1. d.objs \in Objs /\ d.trie \in World
    BY DBIs
  <1>2. CASE a \in DOMAIN d.objs
    <2>1. Object(d, a) = d.objs[a]
      BY <1>2 DEF Object
    <2>2. a \in Addr /\ d.objs[a] \in Obj
      BY <1>1, <1>2, ObjsIs
    <2> QED
      BY <1>2, <2>1, <2>2 DEF Sound, Visible
  <1>3. CASE a \notin DOMAIN d.objs
    <2>1. a \in DOMAIN d.trie /\ Object(d, a) = newStateObject(d.trie[a])
      BY <1>3 DEF Has, InTrie, Object
    <2>2. a \in Addr /\ d.trie[a] \in Account
      BY <1>1, <2>1, WorldIs
    <2>3. /\ Object(d, a) \in Obj /\ ~ Object(d, a).deleted /\ Coherent(Object(d, a))
      BY <2>1, <2>2, NewObjectIs, NewIsCoherent
    <2> QED
      BY <2>2, <2>3 DEF Visible
  <1> QED
    BY <1>2, <1>3

-----------------------------------------------------------------------------
(* Undoing an entry                                                        *)

Global == {"refund", "log", "preimage"}

\* Entries that change an object, which must be there when they are undone.
OfObject == {"balance", "nonce", "code", "storage"}

\* An entry of the journal of a StateDB with this trie and these dirty objects.
EntryOK(e, trie, dirtyObjs) ==
  /\ e.what \in Global => e.addr = Nobody
  /\ e.what \notin Global => e.addr \in Addr
  /\ e.what = "create" => e.addr \notin DOMAIN trie /\ e.addr \notin dirtyObjs
  /\ e.what = "reset" => e.prev \in Obj /\ Coherent(e.prev) /\ ~ e.prev.deleted
  /\ e.what = "suicide" => e.prev.suicided \in BOOLEAN /\ e.prev.bal \in 0 .. MaxBalance
  /\ e.what = "balance" => e.prev \in 0 .. MaxBalance
  /\ e.what = "nonce" => e.prev \in Nat
  /\ e.what = "code" => e.prev \in Code \cup {NoCode}
  /\ e.what = "storage" => e.key \in Key /\ e.prev \in Value
  /\ e.what = "refund" => e.prev \in Nat

\* What no setter and no revert changes.
Frame(d, x) ==
  /\ x.trie = d.trie /\ x.dirtyObjs = d.dirtyObjs /\ x.revisions = d.revisions /\ x.nextId = d.nextId

\* x is d after entry e is undone.
Undone(d, e, x) ==
  /\ x \in DB /\ Sound(x) /\ Frame(d, x) /\ x.entries = d.entries /\ x.dirties = d.dirties
  /\ View(x) = ViewUndo(View(d), e)

LEMMA ViewUndoAccount ==
  ASSUME NEW d, NEW x, NEW e, e.what \notin Global,
         \A b \in Addr : b # e.addr => Visible(x, b) = Visible(d, b),
         e.addr \in Addr => Visible(x, e.addr) = AnswersUndo(Visible(d, e.addr), e),
         x.refund = d.refund, x.logs = d.logs, x.preimages = d.preimages
  PROVE  View(x) = ViewUndo(View(d), e)
  <1> DEFINE A == [a \in Addr |-> Visible(x, a)]
             B == [a \in Addr |-> IF a = e.addr THEN AnswersUndo(View(d).accounts[a], e) ELSE View(d).accounts[a]]
  <1>1. \A a \in Addr : View(d).accounts[a] = Visible(d, a)
    BY ViewFields
  <1>2. A = B
    BY <1>1
  <1>3. View(x) = [accounts |-> A, refund |-> d.refund, logs |-> d.logs, preimages |-> d.preimages]
    BY DEF View
  <1>4. View(d).refund = d.refund /\ View(d).logs = d.logs /\ View(d).preimages = d.preimages
    BY DEF View
  <1>5. ViewUndo(View(d), e) = [accounts |-> B, refund |-> d.refund, logs |-> d.logs, preimages |-> d.preimages]
    BY <1>4 DEF ViewUndo, Global
  <1> QED
    BY <1>2, <1>3, <1>5

\* The entry brings back object o.
LEMMA UndoObject ==
  ASSUME NEW d \in DB, Sound(d), NEW e, e.what \notin Global, e.addr \in Addr,
         NEW o \in Obj, Coherent(o), ~ o.deleted, AnswersUndo(Visible(d, e.addr), e) = {Answers(o)},
         NEW x, x = setStateObject(d, e.addr, o)
  PROVE  Undone(d, e, x)
  <1>1. /\ x \in DB /\ x.objs = Put(d.objs, e.addr, o) /\ x.trie = d.trie /\ x.dirtyObjs = d.dirtyObjs
        /\ x.refund = d.refund /\ x.logs = d.logs /\ x.preimages = d.preimages
        /\ x.entries = d.entries /\ x.dirties = d.dirties /\ x.revisions = d.revisions
        /\ x.nextId = d.nextId
    BY SetObjectIs
  <1>2. Sound(x)
    BY <1>1 DEF Sound, Put
  <1>3. /\ Visible(x, e.addr) = {Answers(o)}
        /\ \A b : b # e.addr => Visible(x, b) = Visible(d, b)
    BY <1>1, VisiblePut
  <1>4. View(x) = ViewUndo(View(d), e)
    BY <1>1, <1>3, ViewUndoAccount
  <1> QED
    BY <1>1, <1>2, <1>4 DEF Frame, Undone

LEMMA UndoCreate ==
  ASSUME NEW d \in DB, Sound(d), NEW e, EntryOK(e, d.trie, d.dirtyObjs), e.what = "create",
         NEW x, x = undo(d, e)
  PROVE  Undone(d, e, x)
  <1> DEFINE a == e.addr
             f == Without(d.objs, a)
  <1>1. x = [d EXCEPT !.objs = f, !.dirtyObjs = d.dirtyObjs \ {a}]
    BY DEF undo
  <1>2. /\ f \in Objs /\ DOMAIN f = DOMAIN d.objs \ {a}
        /\ \A b \in DOMAIN d.objs : b # a => f[b] = d.objs[b]
    BY DBIs, WithoutObjs
  <1>3. d.dirtyObjs \ {a} = d.dirtyObjs /\ a \notin DOMAIN d.trie /\ a \in Addr
    BY DEF EntryOK, Global
  <1> HIDE DEF f, a
  <1>4. /\ x \in DB /\ x.objs = f /\ x.trie = d.trie /\ x.dirtyObjs = d.dirtyObjs
        /\ x.refund = d.refund /\ x.logs = d.logs /\ x.preimages = d.preimages
        /\ x.entries = d.entries /\ x.dirties = d.dirties /\ x.revisions = d.revisions
        /\ x.nextId = d.nextId
    BY <1>1, <1>2, <1>3 DEF DB
  <1>5. Sound(x)
    BY <1>2, <1>3, <1>4 DEF Sound
  <1>6. Visible(x, a) = {}
    BY <1>2, <1>3, <1>4 DEF Visible, Has, InTrie
  <1>7. ASSUME NEW b, b # a
        PROVE  Visible(x, b) = Visible(d, b)
    <2>1. b \in DOMAIN x.objs <=> b \in DOMAIN d.objs
      BY <1>2, <1>4, <1>7
    <2>2. b \in DOMAIN d.objs => x.objs[b] = d.objs[b]
      BY <1>2, <1>4, <1>7
    <2>3. Object(x, b) = Object(d, b)
      BY <1>4, <2>1, <2>2 DEF Object
    <2>4. InTrie(x, b) <=> InTrie(d, b)
      BY <1>4, <2>1 DEF InTrie
    <2>5. Has(x, b) <=> Has(d, b)
      BY <2>1, <2>2, <2>4 DEF Has
    <2> QED
      BY <2>3, <2>5 DEF Visible
  <1>8. AnswersUndo(Visible(d, a), e) = {}
    BY DEF AnswersUndo
  <1>9. View(x) = ViewUndo(View(d), e)
    <2>1. e.what \notin Global
      BY DEF Global
    <2> QED
      BY <1>4, <1>6, <1>7, <1>8, <2>1, ViewUndoAccount DEF a
  <1> QED
    BY <1>4, <1>5, <1>9 DEF Frame, Undone

LEMMA UndoNothing ==
  ASSUME NEW d \in DB, Sound(d), NEW e, e.what \notin Global,
         e.addr \in Addr => AnswersUndo(Visible(d, e.addr), e) = Visible(d, e.addr)
  PROVE  Undone(d, e, d)
  <1>1. View(d) = ViewUndo(View(d), e)
    BY ViewUndoAccount
  <1> QED
    BY <1>1 DEF Undone, Frame

LEMMA UndoReset ==
  ASSUME NEW d \in DB, Sound(d), NEW e, EntryOK(e, d.trie, d.dirtyObjs), e.what = "reset"
  PROVE  Undone(d, e, undo(d, e))
  <1>1. undo(d, e) = setStateObject(d, e.addr, e.prev)
    BY DEF undo
  <1>2. AnswersUndo(Visible(d, e.addr), e) = {Answers(e.prev)}
    BY DEF AnswersUndo
  <1>3. e.what \notin Global
    BY DEF Global
  <1>4. e.addr \in Addr /\ e.prev \in Obj /\ Coherent(e.prev) /\ ~ e.prev.deleted
    BY <1>3 DEF EntryOK
  <1> QED
    BY <1>1, <1>2, <1>3, <1>4, UndoObject

LEMMA UndoSuicide ==
  ASSUME NEW d \in DB, Sound(d), NEW e, EntryOK(e, d.trie, d.dirtyObjs), e.what = "suicide"
  PROVE  Undone(d, e, undo(d, e))
  <1>1. e.what \notin Global
    BY DEF Global
  <1>2. e.addr \in Addr
    BY <1>1 DEF EntryOK
  <1>3. CASE ~ Has(d, e.addr)
    <2>1. undo(d, e) = d
      BY <1>3 DEF undo
    <2>2. AnswersUndo({}, e) = {}
      BY DEF AnswersUndo
    <2>3. AnswersUndo(Visible(d, e.addr), e) = Visible(d, e.addr)
      BY <1>3, <2>2 DEF Visible
    <2> QED
      BY <1>1, <2>1, <2>3, UndoNothing
  <1>4. CASE Has(d, e.addr)
    <2> DEFINE o == Object(d, e.addr)
               b == e.prev.bal
               s == e.prev.suicided
               u == Alive(o, s, b)
    <2>1. undo(d, e) = setStateObject(d, e.addr, u)
      BY <1>4 DEF undo, Alive
    <2>2. b \in 0 .. MaxBalance /\ s \in BOOLEAN
      BY DEF EntryOK
    <2>3. o \in Obj /\ Coherent(o) /\ ~ o.deleted /\ Visible(d, e.addr) = {Answers(o)}
      BY <1>4, ObjectIs
    <2>4. AnswersUndo({Answers(o)}, e) = {[[Answers(o) EXCEPT !.suicided = s] EXCEPT !.bal = b]}
      BY DEF AnswersUndo
    <2> HIDE DEF o, b, s
    <2>5. /\ u \in Obj /\ Coherent(u) /\ u.deleted = o.deleted
          /\ Answers(u) = [[Answers(o) EXCEPT !.suicided = s] EXCEPT !.bal = b]
      BY <2>2, <2>3, SetSuicided
    <2> HIDE DEF u
    <2> QED
      BY <1>1, <1>2, <2>1, <2>3, <2>4, <2>5, UndoObject
  <1> QED
    BY <1>3, <1>4

LEMMA UndoBalance ==
  ASSUME NEW d \in DB, Sound(d), NEW e, EntryOK(e, d.trie, d.dirtyObjs), e.what = "balance", Has(d, e.addr)
  PROVE  Undone(d, e, undo(d, e))
  <1> DEFINE o == Object(d, e.addr)
             p == e.prev
             u == [o EXCEPT !.bal = p]
  <1>1. e.what \notin Global
    BY DEF Global
  <1>2. e.addr \in Addr /\ p \in 0 .. MaxBalance
    BY <1>1 DEF EntryOK
  <1>3. undo(d, e) = setStateObject(d, e.addr, u)
    BY DEF undo
  <1>4. o \in Obj /\ Coherent(o) /\ ~ o.deleted /\ Visible(d, e.addr) = {Answers(o)}
    BY ObjectIs
  <1>5. AnswersUndo({Answers(o)}, e) = {[Answers(o) EXCEPT !.bal = p]}
    BY DEF AnswersUndo
  <1>6. 0 \in Nat /\ NoCode \in Code \cup {NoCode} /\ o.suicided \in BOOLEAN
    BY <1>4, ObjIs
  <1> HIDE DEF o, p
  <1>7. u \in Obj /\ Coherent(u) /\ u.deleted = o.deleted /\ Answers(u) = [Answers(o) EXCEPT !.bal = p]
    BY <1>2, <1>4, <1>6, SetFields
  <1> HIDE DEF u
  <1> QED
    BY <1>1, <1>2, <1>3, <1>4, <1>5, <1>7, UndoObject

LEMMA UndoNonce ==
  ASSUME NEW d \in DB, Sound(d), NEW e, EntryOK(e, d.trie, d.dirtyObjs), e.what = "nonce", Has(d, e.addr)
  PROVE  Undone(d, e, undo(d, e))
  <1> DEFINE o == Object(d, e.addr)
             p == e.prev
             u == [o EXCEPT !.nonce = p]
  <1>1. e.what \notin Global
    BY DEF Global
  <1>2. e.addr \in Addr /\ p \in Nat
    BY <1>1 DEF EntryOK
  <1>3. undo(d, e) = setStateObject(d, e.addr, u)
    BY DEF undo
  <1>4. o \in Obj /\ Coherent(o) /\ ~ o.deleted /\ Visible(d, e.addr) = {Answers(o)}
    BY ObjectIs
  <1>5. AnswersUndo({Answers(o)}, e) = {[Answers(o) EXCEPT !.nonce = p]}
    BY DEF AnswersUndo
  <1>6. o.bal \in 0 .. MaxBalance /\ NoCode \in Code \cup {NoCode} /\ o.suicided \in BOOLEAN
    BY <1>4, ObjIs
  <1> HIDE DEF o, p
  <1>7. u \in Obj /\ Coherent(u) /\ u.deleted = o.deleted /\ Answers(u) = [Answers(o) EXCEPT !.nonce = p]
    BY <1>2, <1>4, <1>6, SetFields
  <1> HIDE DEF u
  <1> QED
    BY <1>1, <1>2, <1>3, <1>4, <1>5, <1>7, UndoObject

LEMMA UndoCode ==
  ASSUME NEW d \in DB, Sound(d), NEW e, EntryOK(e, d.trie, d.dirtyObjs), e.what = "code", Has(d, e.addr)
  PROVE  Undone(d, e, undo(d, e))
  <1> DEFINE o == Object(d, e.addr)
             p == e.prev
             u == [o EXCEPT !.code = p]
  <1>1. e.what \notin Global
    BY DEF Global
  <1>2. e.addr \in Addr /\ p \in Code \cup {NoCode}
    BY <1>1 DEF EntryOK
  <1>3. undo(d, e) = setStateObject(d, e.addr, u)
    BY DEF undo
  <1>4. o \in Obj /\ Coherent(o) /\ ~ o.deleted /\ Visible(d, e.addr) = {Answers(o)}
    BY ObjectIs
  <1>5. AnswersUndo({Answers(o)}, e) = {[Answers(o) EXCEPT !.code = p]}
    BY DEF AnswersUndo
  <1>6. o.bal \in 0 .. MaxBalance /\ 0 \in Nat /\ o.suicided \in BOOLEAN
    BY <1>4, ObjIs
  <1> HIDE DEF o, p
  <1>7. u \in Obj /\ Coherent(u) /\ u.deleted = o.deleted /\ Answers(u) = [Answers(o) EXCEPT !.code = p]
    BY <1>2, <1>4, <1>6, SetFields
  <1> HIDE DEF u
  <1> QED
    BY <1>1, <1>2, <1>3, <1>4, <1>5, <1>7, UndoObject

LEMMA UndoStorage ==
  ASSUME NEW d \in DB, Sound(d), NEW e, EntryOK(e, d.trie, d.dirtyObjs), e.what = "storage", Has(d, e.addr)
  PROVE  Undone(d, e, undo(d, e))
  <1> DEFINE o == Object(d, e.addr)
             p == e.prev
             k == e.key
             u == setState(o, k, p)
  <1>1. e.what \notin Global
    BY DEF Global
  <1>2. e.addr \in Addr /\ p \in Value /\ k \in Key
    BY <1>1 DEF EntryOK
  <1>3. undo(d, e) = setStateObject(d, e.addr, u)
    BY DEF undo
  <1>4. o \in Obj /\ Coherent(o) /\ ~ o.deleted /\ Visible(d, e.addr) = {Answers(o)}
    BY ObjectIs
  <1>5. AnswersUndo({Answers(o)}, e) =
          {[Answers(o) EXCEPT !.store = [j \in Key |-> IF j = k THEN p ELSE Answers(o).store[j]]]}
    BY DEF AnswersUndo
  <1> HIDE DEF o, p, k
  <1>6. /\ u \in Obj /\ Coherent(u) /\ u.deleted = o.deleted
        /\ Answers(u) = [Answers(o) EXCEPT !.store = [j \in Key |-> IF j = k THEN p ELSE Answers(o).store[j]]]
    BY <1>2, <1>4, SetSlot
  <1> HIDE DEF u
  <1> QED
    BY <1>1, <1>2, <1>3, <1>4, <1>5, <1>6, UndoObject

LEMMA UndoGlobal ==
  ASSUME NEW d \in DB, Sound(d), NEW e \in Entry, EntryOK(e, d.trie, d.dirtyObjs), e.what \in Global
  PROVE  Undone(d, e, undo(d, e))
  <1> DEFINE x == undo(d, e)
             refund == IF e.what = "refund" THEN e.prev ELSE d.refund
             logs == IF e.what = "log" THEN Front(d.logs) ELSE d.logs
             preimages == IF e.what = "preimage" THEN d.preimages \ {e.key} ELSE d.preimages
  <1>1. refund \in Nat /\ logs \in Seq(Nat) /\ preimages \in SUBSET Nat
    <2>1. refund \in Nat
      BY DBIs DEF EntryOK
    <2>2. logs \in Seq(Nat)
      <3>1. d.logs \in Seq(Nat)
        BY DBIs
      <3>2. Front(d.logs) \in Seq(Nat)
        BY <3>1 DEF Front
      <3> QED
        BY <3>1, <3>2
    <2>3. preimages \in SUBSET Nat
      BY DBIs
    <2> QED
      BY <2>1, <2>2, <2>3
  <1>2. x = [[[d EXCEPT !.refund = refund] EXCEPT !.logs = logs] EXCEPT !.preimages = preimages]
    <2>1. CASE e.what = "refund"
      BY <2>1 DEF undo, DB
    <2>2. CASE e.what = "log"
      BY <2>2 DEF undo, DB
    <2>3. CASE e.what = "preimage"
      BY <2>3 DEF undo, DB
    <2> QED
      BY <2>1, <2>2, <2>3 DEF Global
  <1> DEFINE ref == refund
             lgs == logs
             pre == preimages
  <1>3. x = [[[d EXCEPT !.refund = ref] EXCEPT !.logs = lgs] EXCEPT !.preimages = pre]
    BY <1>2
  <1>4. ref \in Nat /\ lgs \in Seq(Nat) /\ pre \in SUBSET Nat
    BY <1>1
  <1> HIDE DEF ref, lgs, pre, x
  <1>5. /\ x \in DB /\ x.objs = d.objs /\ x.trie = d.trie /\ x.dirtyObjs = d.dirtyObjs
        /\ x.refund = ref /\ x.logs = lgs /\ x.preimages = pre
        /\ x.entries = d.entries /\ x.dirties = d.dirties /\ x.revisions = d.revisions
        /\ x.nextId = d.nextId
    BY <1>3, <1>4 DEF DB
  <1>6. Sound(x)
    BY <1>5 DEF Sound
  <1>7. \A a : Visible(x, a) = Visible(d, a)
    BY <1>5 DEF Visible, Has, InTrie, Object
  <1>8. View(x) = [accounts |-> [a \in Addr |-> Visible(d, a)], refund |-> ref, logs |-> lgs, preimages |-> pre]
    BY <1>5, <1>7 DEF View
  <1>9. ViewUndo(View(d), e) =
          [accounts |-> [a \in Addr |-> Visible(d, a)], refund |-> ref, logs |-> lgs, preimages |-> pre]
    <2>1. e.addr = Nobody /\ Nobody \notin Addr
      BY StateAssumption DEF EntryOK
    <2> DEFINE B == [a \in Addr |-> IF a = e.addr THEN AnswersUndo(View(d).accounts[a], e) ELSE View(d).accounts[a]]
    <2>2. B = [a \in Addr |-> Visible(d, a)]
      BY <2>1, ViewFields
    <2>3. View(d).refund = d.refund /\ View(d).logs = d.logs /\ View(d).preimages = d.preimages
      BY DEF View
    <2>4. ViewUndo(View(d), e) =
            [accounts |-> B, refund |-> ref, logs |-> lgs, preimages |-> pre]
      BY <2>3 DEF ViewUndo, ref, lgs, pre
    <2> HIDE DEF B
    <2> QED
      BY <2>2, <2>4
  <1>10. Undone(d, e, x)
    BY <1>5, <1>6, <1>8, <1>9 DEF Undone, Frame
  <1> QED
    BY <1>10 DEF x

\* Undoing an entry of the journal does to the answers what ViewUndo says.
LEMMA UndoFacts ==
  ASSUME NEW d \in DB, Sound(d), NEW e \in Entry, EntryOK(e, d.trie, d.dirtyObjs),
         e.what \in OfObject => Has(d, e.addr)
  PROVE  Undone(d, e, undo(d, e))
  <1>1. e.what \in What
    BY DEF Entry
  <1>2. CASE e.what \in Global
    BY <1>2, UndoGlobal
  <1>3. CASE e.what = "create"
    BY <1>3, UndoCreate
  <1>4. CASE e.what = "reset"
    BY <1>4, UndoReset
  <1>5. CASE e.what = "suicide"
    BY <1>5, UndoSuicide
  <1>6. CASE e.what = "balance"
    BY <1>6, UndoBalance DEF OfObject
  <1>7. CASE e.what = "nonce"
    BY <1>7, UndoNonce DEF OfObject
  <1>8. CASE e.what = "code"
    BY <1>8, UndoCode DEF OfObject
  <1>9. CASE e.what = "storage"
    BY <1>9, UndoStorage DEF OfObject
  <1>10. CASE e.what = "touch"
    <2>1. undo(d, e) = d
      BY <1>10 DEF undo
    <2>2. AnswersUndo(Visible(d, e.addr), e) = Visible(d, e.addr)
      BY <1>10 DEF AnswersUndo
    <2>3. e.what \notin Global
      BY <1>10 DEF Global
    <2> QED
      BY <2>1, <2>2, <2>3, UndoNothing
  <1> QED
    BY <1>1, <1>2, <1>3, <1>4, <1>5, <1>6, <1>7, <1>8, <1>9, <1>10 DEF What, Global

-----------------------------------------------------------------------------
(* The journal and the answers                                             *)

DirtyAt(s, a) == {i \in DOMAIN s : dirtied(s[i]) = a}

\* The last of the first n entries is the reset of account a, which no counter shows.
Resets(s, n, a) == n \in 1 .. Len(s) /\ s[n].what = "reset" /\ s[n].addr = a

EntriesOK(d) == \A i \in 1 .. Len(d.entries) : EntryOK(d.entries[i], d.trie, d.dirtyObjs)

Counts(d) ==
  \A a \in Addr : /\ d.dirties[a] >= Cardinality(DirtyAt(d.entries, a))
                  /\ a # Ripemd => d.dirties[a] = Cardinality(DirtyAt(d.entries, a))

\* h[n] is what undoing the entries after the first n makes of the answers.
Chain(s, h) ==
  \A i \in 1 .. Len(s) :
    /\ h[i - 1] = ViewUndo(h[i], s[i])
    /\ s[i].what \in OfObject => h[i].accounts[s[i].addr] # {}

\* No entry has changed the account.
Untouched(s, n, a) == (\A i \in 1 .. n : dirtied(s[i]) # a) /\ ~ Resets(s, n, a)

\* An account that no entry has changed answers what the trie says.
Clean(s, h, trie, dirtyObjs) ==
  \A n \in 0 .. Len(s) : \A a \in Addr \ dirtyObjs :
    Untouched(s, n, a) => h[n].accounts[a] = FromTrie(trie, a)

\* h is a history of d.
Journal(d, h) ==
  /\ d \in DB /\ Sound(d) /\ EntriesOK(d) /\ Counts(d) /\ Chain(d.entries, h)
  /\ Clean(d.entries, h, d.trie, d.dirtyObjs)
  /\ h[Len(d.entries)] = View(d)

LEMMA FrontIs ==
  ASSUME NEW S, NEW s \in Seq(S), Len(s) # 0
  PROVE  /\ Front(s) \in Seq(S) /\ Len(Front(s)) = Len(s) - 1 /\ Last(s) = s[Len(s)]
         /\ Len(s) \in 1 .. Len(s) /\ Last(s) \in S
         /\ \A i \in 1 .. Len(s) - 1 : Front(s)[i] = s[i]
  <1>1. Len(s) \in Nat /\ Len(s) - 1 \in Nat /\ Len(s) - 1 <= Len(s)
    OBVIOUS
  <1>2. Front(s) = SubSeq(s, 1, Len(s) - 1)
    BY DEF Front
  <1>3. Front(s) \in Seq(S) /\ Len(Front(s)) = Len(s) - 1
    <2> DEFINE n == Len(s) - 1
    <2>1. n \in Int /\ 1 \in Int /\ \A i \in 1 .. n : s[i] \in S
      <3>1. \A i \in 1 .. n : i \in 1 .. Len(s)
        BY <1>1
      <3>2. \A i \in 1 .. Len(s) : s[i] \in S
        OBVIOUS
      <3> QED
        BY <1>1, <3>1, <3>2
    <2>2. n \in Nat
      BY <1>1
    <2> HIDE DEF n
    <2>3. SubSeq(s, 1, n) \in Seq(S) /\ Len(SubSeq(s, 1, n)) = IF 1 <= n THEN n - 1 + 1 ELSE 0
      BY <2>1, SubSeqProperties
    <2>4. Len(SubSeq(s, 1, n)) = n
      BY <2>2, <2>3
    <2> QED
      BY <1>2, <2>3, <2>4 DEF n
  <1>4. \A i \in 1 .. Len(s) - 1 : Front(s)[i] = s[i]
    BY <1>1, <1>2
  <1>5. Last(s) = s[Len(s)] /\ Len(s) \in 1 .. Len(s)
    BY <1>1 DEF Last
  <1>6. Last(s) \in S
    BY <1>5
  <1> QED
    BY <1>3, <1>4, <1>5, <1>6

LEMMA DirtyAtIs ==
  ASSUME NEW s \in Seq(Entry), NEW a
  PROVE  IsFiniteSet(DirtyAt(s, a)) /\ Cardinality(DirtyAt(s, a)) \in Nat
  <1>1. DOMAIN s = 1 .. Len(s) /\ Len(s) \in Nat
    OBVIOUS
  <1>2. IsFiniteSet(1 .. Len(s))
    BY <1>1, FS_Interval
  <1>3. DirtyAt(s, a) \subseteq 1 .. Len(s)
    BY <1>1 DEF DirtyAt
  <1> QED
    BY <1>2, <1>3, FS_Subset, FS_CardinalityType

\* One entry more.
LEMMA DirtyAtMore ==
  ASSUME NEW s \in Seq(Entry), NEW t \in Seq(Entry), NEW e, Len(t) = Len(s) + 1, t[Len(t)] = e,
         \A i \in 1 .. Len(s) : t[i] = s[i], NEW a
  PROVE  Cardinality(DirtyAt(t, a)) = Cardinality(DirtyAt(s, a)) + (IF dirtied(e) = a THEN 1 ELSE 0)
  <1>1. DOMAIN s = 1 .. Len(s) /\ DOMAIN t = 1 .. Len(t) /\ Len(s) \in Nat
    OBVIOUS
  <1>2. Len(t) \notin DirtyAt(s, a)
    BY <1>1 DEF DirtyAt
  <1>3. CASE dirtied(e) = a
    <2>1. DirtyAt(t, a) = DirtyAt(s, a) \cup {Len(t)}
      BY <1>1, <1>3 DEF DirtyAt
    <2> QED
      <3> DEFINE A == DirtyAt(s, a)
                 m == Len(t)
      <3>1. IsFiniteSet(A) /\ Cardinality(A) \in Nat
        BY DirtyAtIs
      <3>2. m \notin A /\ DirtyAt(t, a) = A \cup {m}
        BY <1>2, <2>1
      <3> HIDE DEF A, m
      <3>3. Cardinality(A \cup {m}) = Cardinality(A) + 1
        BY <3>1, <3>2, FS_AddElement
      <3> QED
        BY <1>3, <3>2, <3>3 DEF A
  <1>4. CASE dirtied(e) # a
    <2>1. DirtyAt(t, a) = DirtyAt(s, a)
      BY <1>1, <1>4 DEF DirtyAt
    <2> QED
      BY <1>4, <2>1, DirtyAtIs
  <1> QED
    BY <1>3, <1>4

LEMMA HasVisible ==
  ASSUME NEW d, NEW a
  PROVE  Has(d, a) <=> Visible(d, a) # {}
  BY DEF Visible

\* Undoing the last entry leaves the history as it is.
LEMMA RevertLastIs ==
  ASSUME NEW d, NEW h, Journal(d, h), Len(d.entries) # 0, NEW x, x = revertLast(d)
  PROVE  /\ Journal(x, h) /\ Frame(d, x) /\ Len(x.entries) = Len(d.entries) - 1
         /\ \A i \in 1 .. Len(x.entries) : x.entries[i] = d.entries[i]
  <1> DEFINE s == d.entries
             e == Last(s)
             N == Len(s)
             y == undo(d, e)
             z == Count(y, e, -1)
  <1>1. d \in DB /\ Sound(d) /\ s \in Seq(Entry) /\ N \in Nat /\ N # 0
    BY DBIs DEF Journal
  <1>2. /\ Front(s) \in Seq(Entry) /\ Len(Front(s)) = N - 1 /\ e = s[N] /\ N \in 1 .. N /\ e \in Entry
        /\ \A i \in 1 .. N - 1 : Front(s)[i] = s[i]
    BY <1>1, FrontIs
  <1>3. EntryOK(e, d.trie, d.dirtyObjs)
    BY <1>2 DEF Journal, EntriesOK
  <1>4. /\ h[N - 1] = ViewUndo(h[N], e)
        /\ e.what \in OfObject => h[N].accounts[e.addr] # {}
    BY <1>2 DEF Journal, Chain
  <1>5. e.what \in OfObject => Has(d, e.addr)
    <2> SUFFICES ASSUME e.what \in OfObject PROVE Has(d, e.addr)
      OBVIOUS
    <2>1. e.addr \in Addr
      BY <1>3 DEF EntryOK, OfObject, Global
    <2>2. h[N] = View(d)
      BY DEF Journal
    <2>3. Visible(d, e.addr) # {}
      BY <1>4, <2>1, <2>2, ViewFields
    <2> QED
      BY <2>3, HasVisible
  <1> HIDE DEF e
  <1>6. Undone(d, e, y)
    BY <1>1, <1>2, <1>3, <1>5, UndoFacts
  <1> HIDE DEF y
  <1>7. /\ z \in DB /\ z.objs = y.objs /\ z.trie = y.trie /\ z.dirtyObjs = y.dirtyObjs
        /\ z.refund = y.refund /\ z.logs = y.logs /\ z.preimages = y.preimages
        /\ z.entries = y.entries /\ z.dirties = Bump(y.dirties, e, -1) /\ z.revisions = y.revisions
        /\ z.nextId = y.nextId
    BY <1>6, CountIs DEF Undone
  <1>8. x = [z EXCEPT !.entries = Front(s)]
    BY DEF revertLast, y, e
  <1> HIDE DEF z
  <1>9. /\ x \in DB /\ x.objs = y.objs /\ x.trie = y.trie /\ x.dirtyObjs = y.dirtyObjs
        /\ x.refund = y.refund /\ x.logs = y.logs /\ x.preimages = y.preimages
        /\ x.entries = Front(s) /\ x.dirties = Bump(y.dirties, e, -1) /\ x.revisions = y.revisions
        /\ x.nextId = y.nextId
    BY <1>2, <1>7, <1>8 DEF DB
  <1>10. Frame(d, x) /\ Sound(x)
    BY <1>6, <1>9 DEF Undone, Frame, Sound
  <1>11. View(x) = h[N - 1]
    <2>1. View(x) = View(y)
      BY <1>9, SameView
    <2>2. h[N] = View(d)
      BY DEF Journal
    <2> QED
      BY <1>4, <1>6, <2>1, <2>2 DEF Undone
  <1>12. x.entries = Front(s) /\ x.trie = d.trie /\ x.dirtyObjs = d.dirtyObjs
    BY <1>9, <1>10 DEF Frame
  <1> DEFINE t == Front(s)
  <1>13. t \in Seq(Entry) /\ Len(t) = N - 1 /\ \A i \in 1 .. N - 1 : t[i] = s[i] /\ i \in 1 .. N
    BY <1>1, <1>2
  <1> HIDE DEF t
  <1>14. EntriesOK(x)
    BY <1>12, <1>13 DEF EntriesOK, Journal, t
  <1>15. Counts(x)
    <2> SUFFICES ASSUME NEW a \in Addr
                 PROVE  /\ x.dirties[a] >= Cardinality(DirtyAt(x.entries, a))
                        /\ a # Ripemd => x.dirties[a] = Cardinality(DirtyAt(x.entries, a))
      BY DEF Counts
    <2>1. Cardinality(DirtyAt(s, a)) = Cardinality(DirtyAt(t, a)) + (IF dirtied(e) = a THEN 1 ELSE 0)
      <3>1. Len(s) = Len(t) + 1 /\ s[Len(s)] = e /\ \A i \in 1 .. Len(t) : s[i] = t[i]
        BY <1>1, <1>2, <1>13
      <3> HIDE DEF s
      <3> QED
        BY <1>1, <1>13, <3>1, DirtyAtMore
    <2>2. x.dirties[a] = IF a = dirtied(e) THEN d.dirties[a] - 1 ELSE d.dirties[a]
      <3>1. x.dirties = Bump(d.dirties, e, -1)
        BY <1>6, <1>9 DEF Undone
      <3>2. d.dirties[a] \in Int
        BY <1>1, DBIs
      <3> QED
        BY <3>1, <3>2 DEF Bump
    <2>3. d.dirties[a] \in Int
      BY <1>1, DBIs
    <2>4. Cardinality(DirtyAt(t, a)) \in Nat /\ Cardinality(DirtyAt(s, a)) \in Nat
      BY <1>1, <1>13, DirtyAtIs
    <2>5. /\ d.dirties[a] >= Cardinality(DirtyAt(s, a))
          /\ a # Ripemd => d.dirties[a] = Cardinality(DirtyAt(s, a))
      BY DEF Journal, Counts
    <2>6. x.entries = t
      BY <1>12 DEF t
    <2> HIDE DEF s
    <2> QED
      BY <2>1, <2>2, <2>3, <2>4, <2>5, <2>6
  <1>16. Chain(t, h)
    BY <1>1, <1>13 DEF Journal, Chain
  <1>17. Clean(t, h, d.trie, d.dirtyObjs)
    <2> SUFFICES ASSUME NEW n \in 0 .. Len(t), NEW a \in Addr \ d.dirtyObjs, Untouched(t, n, a)
                 PROVE  h[n].accounts[a] = FromTrie(d.trie, a)
      BY DEF Clean
    <2>1. n \in 0 .. Len(s)
      BY <1>1, <1>13
    <2>2. Untouched(s, n, a)
      BY <1>1, <1>13 DEF Untouched, Resets
    <2> QED
      BY <2>1, <2>2 DEF Journal, Clean
  <1>18. h[Len(t)] = View(x)
    BY <1>11, <1>13
  <1>19. Journal(x, h)
    BY <1>9, <1>10, <1>12, <1>14, <1>15, <1>16, <1>17, <1>18 DEF Journal, t
  <1> QED
    BY <1>10, <1>12, <1>13, <1>19 DEF t

LEMMA Induction ==
  ASSUME NEW S, 0 \in S, \A n \in Nat : n \in S => n + 1 \in S
  PROVE  Nat \subseteq S
  <1> DEFINE Bad == {n \in Nat : n \notin S}
  <1> SUFFICES ASSUME Bad # {}
               PROVE  FALSE
    OBVIOUS
  <1>1. PICK n \in Bad : \A m \in Bad : ~ (<<m, n>> \in OpToRel(<, Nat))
    <2>1. Bad \subseteq Nat
      OBVIOUS
    <2> HIDE DEF Bad
    <2> QED
      BY <2>1, NatLessThanWellFounded, WFMin
  <1>2. n # 0 /\ n - 1 \in Nat /\ n - 1 < n
    OBVIOUS
  <1>3. <<n - 1, n>> \in OpToRel(<, Nat)
    BY <1>2 DEF OpToRel
  <1>4. n - 1 \in S
    BY <1>1, <1>2, <1>3
  <1> QED
    BY <1>2, <1>4

\* f is the "back" of revert, for the last N entries.
IsBack(f, N, d) == f = [j \in 0 .. N |-> IF j = 0 THEN {d} ELSE {revertLast(x) : x \in f[j - 1]}]

LEMMA BackExists ==
  ASSUME NEW d, NEW N \in Nat
  PROVE  \E f : IsBack(f, N, d)
  <1> DEFINE S == {m \in Nat : \E f : IsBack(f, m, d)}
  <1>1. 0 \in S
    <2>1. IsBack([j \in 0 .. 0 |-> {d}], 0, d)
      BY DEF IsBack
    <2> QED
      BY <2>1
  <1>2. ASSUME NEW m \in Nat, m \in S
        PROVE  m + 1 \in S
    <2>1. PICK f : IsBack(f, m, d)
      BY <1>2
    <2> DEFINE g == [j \in 0 .. m + 1 |-> IF j = m + 1 THEN {revertLast(x) : x \in f[m]} ELSE f[j]]
    <2>2. ASSUME NEW j \in 0 .. m + 1
          PROVE  g[j] = IF j = 0 THEN {d} ELSE {revertLast(x) : x \in g[j - 1]}
      <3>1. CASE j = m + 1
        <4>1. j # 0 /\ j - 1 = m /\ m \in 0 .. m + 1 /\ m # m + 1
          BY <3>1
        <4>2. g[j - 1] = f[m] /\ g[j] = {revertLast(x) : x \in f[m]}
          BY <3>1, <4>1
        <4> HIDE DEF g
        <4> QED
          BY <4>1, <4>2
      <3>2. CASE j # m + 1
        <4>1. j \in 0 .. m /\ g[j] = f[j]
          BY <3>2
        <4>2. j # 0 => j - 1 \in 0 .. m /\ g[j - 1] = f[j - 1]
          BY <3>2
        <4>3. f[j] = IF j = 0 THEN {d} ELSE {revertLast(x) : x \in f[j - 1]}
          BY <2>1, <4>1 DEF IsBack
        <4> HIDE DEF g
        <4> QED
          BY <4>1, <4>2, <4>3
      <3> QED
        BY <3>1, <3>2
    <2>3. g = [j \in 0 .. m + 1 |-> g[j]]
      OBVIOUS
    <2> HIDE DEF g
    <2>4. IsBack(g, m + 1, d)
      BY <2>2, <2>3 DEF IsBack
    <2> QED
      BY <2>4
  <1>3. N \in S
    <2> HIDE DEF S
    <2> QED
      BY <1>1, <1>2, Induction
  <1> QED
    BY <1>3

\* y is d with its last j entries undone.
Back(d, h, y, j) ==
  /\ Journal(y, h) /\ Frame(d, y) /\ Len(y.entries) = Len(d.entries) - j
  /\ \A i \in 1 .. Len(y.entries) : y.entries[i] = d.entries[i]

\* Reverting to the first n entries brings back the answers of that moment.
LEMMA RevertIs ==
  ASSUME NEW d, NEW h, Journal(d, h), NEW n \in 0 .. Len(d.entries)
  PROVE  /\ Back(d, h, revert(d, n), Len(d.entries) - n)
         /\ View(revert(d, n)) = h[n]
  <1> DEFINE N == Len(d.entries)
             F == CHOOSE f : IsBack(f, N, d)
  <1>1. d.entries \in Seq(Entry) /\ N \in Nat
    BY DBIs DEF Journal
  <1>2. IsBack(F, N, d)
    <2>1. \E f : IsBack(f, N, d)
      BY <1>1, BackExists
    <2> QED
      BY <2>1, Zenon
  <1>3. revert(d, n) = CHOOSE x \in F[N - n] : TRUE
    BY Zenon DEF revert, IsBack
  <1> HIDE DEF F
  <1>4. F[0] = {d} /\ \A j \in 1 .. N : F[j] = {revertLast(x) : x \in F[j - 1]}
    BY <1>1, <1>2 DEF IsBack
  <1> DEFINE S == {j \in Nat : j <= N => \E y : F[j] = {y} /\ Back(d, h, y, j)}
  <1>5. 0 \in S
    <2>1. Back(d, h, d, 0)
      BY <1>1 DEF Back, Frame
    <2> QED
      BY <1>4, <2>1
  <1>6. ASSUME NEW j \in Nat, j \in S
        PROVE  j + 1 \in S
    <2> SUFFICES ASSUME j + 1 <= N
                 PROVE  \E y : F[j + 1] = {y} /\ Back(d, h, y, j + 1)
      OBVIOUS
    <2>1. PICK y : F[j] = {y} /\ Back(d, h, y, j)
      BY <1>1, <1>6
    <2> DEFINE z == revertLast(y)
    <2>2. F[j + 1] = {z}
      <3>1. j + 1 \in 1 .. N /\ (j + 1) - 1 = j
        BY <1>1
      <3>2. F[j + 1] = {revertLast(x) : x \in F[j]}
        BY <1>4, <3>1
      <3> QED
        BY <2>1, <3>2
    <2>3. Journal(y, h) /\ Frame(d, y) /\ Len(y.entries) = N - j /\ Len(y.entries) # 0
      BY <1>1, <2>1 DEF Back
    <2> HIDE DEF z
    <2>4. /\ Journal(z, h) /\ Frame(y, z) /\ Len(z.entries) = Len(y.entries) - 1
          /\ \A i \in 1 .. Len(z.entries) : z.entries[i] = y.entries[i]
      BY <2>3, RevertLastIs DEF z
    <2>5. \A i \in 1 .. Len(z.entries) : z.entries[i] = d.entries[i]
      BY <1>1, <2>1, <2>3, <2>4 DEF Back
    <2>6. Back(d, h, z, j + 1)
      BY <1>1, <2>3, <2>4, <2>5 DEF Back, Frame
    <2> QED
      BY <2>2, <2>6
  <1>7. N - n \in S
    <2> HIDE DEF S
    <2>1. N - n \in Nat
      BY <1>1
    <2> QED
      BY <1>5, <1>6, <2>1, Induction
  <1>8. PICK y : F[N - n] = {y} /\ Back(d, h, y, N - n)
    BY <1>1, <1>7
  <1>9. revert(d, n) = y
    BY <1>3, <1>8
  <1>10. View(y) = h[n]
    <2>1. Len(y.entries) = n
      BY <1>1, <1>8 DEF Back
    <2> QED
      BY <1>8, <2>1 DEF Back, Journal
  <1> QED
    BY <1>8, <1>9, <1>10

-----------------------------------------------------------------------------
(* Setters                                                                 *)

\* The history g of x goes on where the history h of d ends.
Grow(d, h, x, g) ==
  /\ Journal(x, g) /\ Frame(d, x) /\ Len(x.entries) >= Len(d.entries)
  /\ \A i \in 1 .. Len(d.entries) : x.entries[i] = d.entries[i]
  /\ \A n \in 0 .. Len(d.entries) : g[n] = h[n]

Grows(d, h, x) == \E g : Grow(d, h, x, g)

\* The last entry is not the reset of another account than a.
Settled(d, a) == \A b \in Addr : b # a => ~ Resets(d.entries, Len(d.entries), b)

LEMMA LenIs ==
  ASSUME NEW d, NEW h, Journal(d, h)
  PROVE  d \in DB /\ Sound(d) /\ d.entries \in Seq(Entry) /\ Len(d.entries) \in Nat
  BY DBIs DEF Journal

LEMMA GrowTrans ==
  ASSUME NEW d, NEW h, NEW x, NEW g, NEW y, NEW f, Journal(d, h), Grow(d, h, x, g), Grow(x, g, y, f)
  PROVE  Grow(d, h, y, f)
  <1>1. Len(d.entries) \in Nat /\ Len(x.entries) \in Nat /\ Len(y.entries) \in Nat
    BY LenIs DEF Grow
  <1>2. Frame(d, y)
    BY DEF Grow, Frame
  <1>3. \A i \in 1 .. Len(d.entries) : y.entries[i] = d.entries[i]
    BY <1>1 DEF Grow
  <1>4. \A n \in 0 .. Len(d.entries) : f[n] = h[n]
    BY <1>1 DEF Grow
  <1> QED
    BY <1>1, <1>2, <1>3, <1>4 DEF Grow

\* The answers, the entries and the counters stay.
LEMMA SameGrows ==
  ASSUME NEW d, NEW h, Journal(d, h), NEW x \in DB, Sound(x), Frame(d, x), x.entries = d.entries,
         x.dirties = d.dirties, View(x) = View(d)
  PROVE  Grow(d, h, x, h)
  <1>1. Len(d.entries) \in Nat
    BY LenIs
  <1>2. EntriesOK(x) /\ Counts(x)
    BY DEF Journal, Frame, EntriesOK, Counts
  <1>3. Journal(x, h)
    BY <1>2 DEF Journal, Frame
  <1> QED
    BY <1>1, <1>3 DEF Grow

LEMMA AppendFacts ==
  ASSUME NEW S, NEW s \in Seq(S), NEW e \in S, NEW t, t = Append(s, e)
  PROVE  /\ t \in Seq(S) /\ Len(t) = Len(s) + 1 /\ t[Len(t)] = e /\ Len(s) \in Nat
         /\ \A i \in 1 .. Len(s) : t[i] = s[i]
  OBVIOUS

\* The journal gets one entry more, which says how to get the answers of d back.
LEMMA Extend ==
  ASSUME NEW d, NEW h, Journal(d, h), NEW x \in DB, Sound(x), Frame(d, x),
         NEW e \in Entry, EntryOK(e, d.trie, d.dirtyObjs), x.entries = Append(d.entries, e),
         \A a \in Addr : /\ x.dirties[a] >= (IF a = dirtied(e) THEN d.dirties[a] + 1 ELSE d.dirties[a])
                         /\ a # Ripemd =>
                              x.dirties[a] = (IF a = dirtied(e) THEN d.dirties[a] + 1 ELSE d.dirties[a]),
         View(d) = ViewUndo(View(x), e),
         e.what \in OfObject => Visible(x, e.addr) # {},
         \A b \in Addr : b # e.addr => Visible(x, b) = Visible(d, b),
         Settled(d, e.addr)
  PROVE  Grows(d, h, x)
  <1> DEFINE s == d.entries
             t == x.entries
             N == Len(s)
             g == [n \in 0 .. N + 1 |-> IF n = N + 1 THEN View(x) ELSE h[n]]
  <1>1. s \in Seq(Entry) /\ N \in Nat
    BY LenIs
  <1>2. t \in Seq(Entry) /\ Len(t) = N + 1 /\ t[N + 1] = e /\ \A i \in 1 .. N : t[i] = s[i]
    BY <1>1, AppendFacts
  <1>3. g[N + 1] = View(x) /\ \A n \in 0 .. N : g[n] = h[n]
    BY <1>1
  <1>4. x.trie = d.trie /\ x.dirtyObjs = d.dirtyObjs
    BY DEF Frame
  <1>5. h[N] = View(d) /\ g[N] = View(d)
    BY <1>1, <1>3 DEF Journal
  <1> HIDE DEF g, t
  <1>6. EntriesOK(x)
    <2> SUFFICES ASSUME NEW i \in 1 .. Len(x.entries)
                 PROVE  EntryOK(x.entries[i], x.trie, x.dirtyObjs)
      BY DEF EntriesOK
    <2>1. CASE i = N + 1
      BY <1>2, <1>4, <2>1 DEF t
    <2>2. CASE i # N + 1
      <3>1. i \in 1 .. N
        BY <1>1, <1>2, <2>2 DEF t
      <3>2. EntryOK(s[i], d.trie, d.dirtyObjs)
        BY <3>1 DEF Journal, EntriesOK
      <3> QED
        BY <1>2, <1>4, <3>1, <3>2 DEF t
    <2> QED
      BY <2>1, <2>2
  <1>7. Counts(x)
    <2> SUFFICES ASSUME NEW a \in Addr
                 PROVE  /\ x.dirties[a] >= Cardinality(DirtyAt(t, a))
                        /\ a # Ripemd => x.dirties[a] = Cardinality(DirtyAt(t, a))
      BY DEF Counts, t
    <2>1. Cardinality(DirtyAt(t, a)) = Cardinality(DirtyAt(s, a)) + (IF dirtied(e) = a THEN 1 ELSE 0)
      <3> HIDE DEF s
      <3> QED
        BY <1>1, <1>2, DirtyAtMore
    <2>2. d.dirties[a] \in Int /\ x.dirties[a] \in Int
      BY LenIs, DBIs
    <2>3. Cardinality(DirtyAt(t, a)) \in Nat /\ Cardinality(DirtyAt(s, a)) \in Nat
      BY <1>1, <1>2, DirtyAtIs
    <2>4. /\ d.dirties[a] >= Cardinality(DirtyAt(s, a))
          /\ a # Ripemd => d.dirties[a] = Cardinality(DirtyAt(s, a))
      BY DEF Journal, Counts
    <2> HIDE DEF s
    <2> QED
      BY <2>1, <2>2, <2>3, <2>4
  <1>8. Chain(t, g)
    <2> SUFFICES ASSUME NEW i \in 1 .. Len(t)
                 PROVE  /\ g[i - 1] = ViewUndo(g[i], t[i])
                        /\ t[i].what \in OfObject => g[i].accounts[t[i].addr] # {}
      BY DEF Chain
    <2>1. CASE i = N + 1
      <3>1. i - 1 = N /\ g[i] = View(x) /\ t[i] = e
        BY <1>1, <1>2, <1>3, <2>1
      <3>2. ASSUME e.what \in OfObject
            PROVE  View(x).accounts[e.addr] # {}
        <4>1. e.addr \in Addr
          BY <3>2 DEF EntryOK, OfObject, Global
        <4> QED
          BY <3>2, <4>1, ViewFields
      <3> QED
        BY <1>5, <3>1, <3>2
    <2>2. CASE i # N + 1
      <3>1. i \in 1 .. N /\ i - 1 \in 0 .. N /\ i \in 0 .. N
        BY <1>1, <1>2, <2>2
      <3>2. g[i - 1] = h[i - 1] /\ g[i] = h[i] /\ t[i] = s[i]
        BY <1>2, <1>3, <3>1
      <3> QED
        BY <3>1, <3>2 DEF Journal, Chain
    <2> QED
      BY <2>1, <2>2
  <1>9. Clean(t, g, d.trie, d.dirtyObjs)
    <2> SUFFICES ASSUME NEW n \in 0 .. Len(t), NEW a \in Addr \ d.dirtyObjs, Untouched(t, n, a)
                 PROVE  g[n].accounts[a] = FromTrie(d.trie, a)
      BY DEF Clean
    <2>1. CASE n = N + 1
      <3>1. n \in 1 .. Len(t) /\ n \in 1 .. n /\ t[n] = e
        BY <1>1, <1>2, <2>1
      <3>2. dirtied(e) # a /\ ~ (e.what = "reset" /\ e.addr = a)
        BY <3>1 DEF Untouched, Resets
      <3>3. a # e.addr
        <4> SUFFICES ASSUME a = e.addr PROVE FALSE
          OBVIOUS
        <4>1. e.what \notin Global
          BY StateAssumption DEF EntryOK
        <4> QED
          BY <3>2, <4>1 DEF dirtied, Global
      <3>4. Visible(x, a) = Visible(d, a) /\ g[n].accounts[a] = Visible(x, a)
        <4>1. g[n] = View(x)
          BY <1>3, <2>1
        <4>2. View(x).accounts[a] = Visible(x, a)
          BY AccountOfView
        <4> QED
          BY <3>3, <4>1, <4>2
      <3>5. Untouched(s, N, a)
        <4>1. \A i \in 1 .. N : i \in 1 .. n
          BY <1>1, <2>1
        <4>2. ~ Resets(s, N, a)
          BY <3>3 DEF Settled
        <4> QED
          BY <1>2, <4>1, <4>2 DEF Untouched
      <3>6. h[N].accounts[a] = FromTrie(d.trie, a)
        <4>1. N \in 0 .. Len(s)
          BY <1>1
        <4> QED
          BY <3>5, <4>1 DEF Journal, Clean
      <3>7. View(d).accounts[a] = Visible(d, a)
        BY AccountOfView
      <3> QED
        BY <1>5, <3>4, <3>6, <3>7
    <2>2. CASE n # N + 1
      <3>1. n \in 0 .. N /\ \A i \in 1 .. n : i \in 1 .. N
        BY <1>1, <1>2, <2>2
      <3>2. Untouched(s, n, a)
        BY <1>1, <1>2, <3>1 DEF Untouched, Resets
      <3>3. h[n].accounts[a] = FromTrie(d.trie, a)
        BY <3>1, <3>2 DEF Journal, Clean
      <3> QED
        BY <1>3, <3>1, <3>3
    <2> QED
      BY <2>1, <2>2
  <1>10. Journal(x, g)
    BY <1>2, <1>3, <1>4, <1>6, <1>7, <1>8, <1>9 DEF Journal, t
  <1>11. Len(x.entries) >= N /\ \A i \in 1 .. N : x.entries[i] = s[i]
    BY <1>1, <1>2 DEF t
  <1>12. Grow(d, h, x, g)
    BY <1>3, <1>10, <1>11 DEF Grow
  <1> QED
    BY <1>12 DEF Grows

LEMMA ChangeIs ==
  ASSUME NEW w \in What, NEW a \in Addr \cup {Nobody}, NEW k \in Key \cup {Zero}, NEW p \in Prev,
         NEW e, e = Change(w, a, k, p)
  PROVE  e \in Entry /\ e.what = w /\ e.addr = a /\ e.key = k /\ e.prev = p
  BY DEF Change, Entry

\* x is d with object o for account a and entry e in the journal.
Wrote(d, e, a, o, x) ==
  /\ x \in DB /\ x.objs = Put(d.objs, a, o) /\ Frame(d, x)
  /\ x.refund = d.refund /\ x.logs = d.logs /\ x.preimages = d.preimages
  /\ x.entries = Append(d.entries, e) /\ x.dirties = Bump(d.dirties, e, 1)

LEMMA WriteWrote ==
  ASSUME NEW d \in DB, NEW e \in Entry, NEW a \in Addr, NEW o \in Obj
  PROVE  Wrote(d, e, a, o, Write(d, e, a, o))
  BY WriteIs DEF Wrote, Frame

\* An account that has an object.
LEMMA PresentIs ==
  ASSUME NEW d, NEW h, Journal(d, h), NEW a, a \in DOMAIN d.objs
  PROVE  /\ a \in Addr /\ d.objs[a] \in Obj /\ Coherent(d.objs[a]) /\ ~ d.objs[a].deleted
         /\ Has(d, a) /\ Object(d, a) = d.objs[a] /\ Visible(d, a) = {Answers(d.objs[a])}
  <1>1. d \in DB /\ Sound(d)
    BY DEF Journal
  <1>2. ~ d.objs[a].deleted /\ Coherent(d.objs[a])
    BY <1>1 DEF Sound
  <1>3. Has(d, a) /\ Object(d, a) = d.objs[a]
    BY <1>2 DEF Has, Object
  <1> QED
    BY <1>1, <1>2, <1>3, ObjectIs

LEMMA WroteGrows ==
  ASSUME NEW d, NEW h, Journal(d, h), NEW a \in Addr, NEW o \in Obj, Coherent(o), ~ o.deleted,
         NEW e \in Entry, EntryOK(e, d.trie, d.dirtyObjs), e.addr = a, e.what \notin Global,
         Visible(d, a) = AnswersUndo({Answers(o)}, e), Settled(d, a), NEW x, Wrote(d, e, a, o, x)
  PROVE  /\ Grows(d, h, x) /\ a \in DOMAIN x.objs /\ x.objs[a] = o /\ Settled(x, a)
         /\ e.what # "reset" => Settled(x, Nobody)
  <1>1. d \in DB /\ Sound(d) /\ d.entries \in Seq(Entry)
    BY LenIs
  <1>2. x.trie = d.trie /\ x.dirtyObjs = d.dirtyObjs /\ x.objs = Put(d.objs, a, o) /\ x \in DB /\ Frame(d, x)
    BY DEF Wrote, Frame
  <1>3. a \in DOMAIN x.objs /\ x.objs[a] = o
    BY <1>2 DEF Put
  <1>4. Sound(x)
    BY <1>1, <1>2 DEF Sound, Put
  <1>5. /\ Visible(x, a) = {Answers(o)}
        /\ \A b : b # a => Visible(x, b) = Visible(d, b)
    <2>1. x.objs = Put(d.objs, a, o) /\ x.trie = d.trie
      BY <1>2
    <2> QED
      BY <2>1, VisiblePut
  <1>6. View(d) = ViewUndo(View(x), e)
    <2>1. \A b \in Addr : b # e.addr => Visible(d, b) = Visible(x, b)
      BY <1>5
    <2>2. Visible(d, e.addr) = AnswersUndo(Visible(x, e.addr), e)
      BY <1>5
    <2>3. d.refund = x.refund /\ d.logs = x.logs /\ d.preimages = x.preimages
      BY DEF Wrote
    <2> QED
      BY <2>1, <2>2, <2>3, ViewUndoAccount
  <1>7. \A b \in Addr : x.dirties[b] = (IF b = dirtied(e) THEN d.dirties[b] + 1 ELSE d.dirties[b])
    BY DEF Wrote, Bump
  <1>8. \A b \in Addr : x.dirties[b] \in Int
    BY <1>2, DBIs
  <1>9. Grows(d, h, x)
    <2>1. /\ x.entries = Append(d.entries, e)
          /\ e.what \in OfObject => Visible(x, e.addr) # {}
          /\ \A b \in Addr : b # e.addr => Visible(x, b) = Visible(d, b)
      BY <1>5 DEF Wrote
    <2>2. \A b \in Addr :
            /\ x.dirties[b] >= (IF b = dirtied(e) THEN d.dirties[b] + 1 ELSE d.dirties[b])
            /\ b # Ripemd => x.dirties[b] = (IF b = dirtied(e) THEN d.dirties[b] + 1 ELSE d.dirties[b])
      BY <1>7, <1>8
    <2> QED
      BY <1>2, <1>4, <1>6, <2>1, <2>2, Extend
  <1>10. x.entries[Len(x.entries)] = e
    BY <1>1, AppendFacts DEF Wrote
  <1> QED
    BY <1>3, <1>9, <1>10 DEF Settled, Resets

LEMMA SameAnswers ==
  ASSUME NEW d, NEW x, \A b \in Addr : Visible(x, b) = Visible(d, b), x.refund = d.refund, x.logs = d.logs,
         x.preimages = d.preimages
  PROVE  View(x) = View(d)
  <1>1. [b \in Addr |-> Visible(x, b)] = [b \in Addr |-> Visible(d, b)]
    OBVIOUS
  <1> QED
    BY <1>1 DEF View

\* Another object with the same answers.
LEMMA PutSame ==
  ASSUME NEW d, NEW h, Journal(d, h), NEW a, Has(d, a), NEW o \in Obj, Coherent(o), ~ o.deleted,
         Answers(o) = Answers(Object(d, a)), NEW x, x = setStateObject(d, a, o)
  PROVE  Grow(d, h, x, h) /\ a \in DOMAIN x.objs /\ x.objs[a] = o /\ x.entries = d.entries
  <1>1. d \in DB /\ Sound(d)
    BY LenIs
  <1>2. a \in Addr /\ Visible(d, a) = {Answers(o)}
    BY <1>1, ObjectIs
  <1>3. /\ x \in DB /\ x.objs = Put(d.objs, a, o) /\ x.trie = d.trie /\ x.dirtyObjs = d.dirtyObjs
        /\ x.refund = d.refund /\ x.logs = d.logs /\ x.preimages = d.preimages
        /\ x.entries = d.entries /\ x.dirties = d.dirties /\ x.revisions = d.revisions
        /\ x.nextId = d.nextId
    BY <1>1, <1>2, SetObjectIs
  <1>4. Sound(x)
    BY <1>1, <1>3 DEF Sound, Put
  <1>5. /\ Visible(x, a) = {Answers(o)}
        /\ \A b : b # a => Visible(x, b) = Visible(d, b)
    BY <1>3, VisiblePut
  <1>6. View(x) = View(d)
    BY <1>2, <1>3, <1>5, SameAnswers
  <1>7. a \in DOMAIN x.objs /\ x.objs[a] = o
    BY <1>3 DEF Put
  <1>8. Grow(d, h, x, h)
    BY <1>3, <1>4, <1>6, SameGrows DEF Frame
  <1> QED
    BY <1>3, <1>7, <1>8

\* Loading an account changes no answer.
LEMMA LoadIs ==
  ASSUME NEW d, NEW h, Journal(d, h), NEW a, Has(d, a), NEW x, x = getStateObject(d, a)
  PROVE  Grow(d, h, x, h) /\ a \in DOMAIN x.objs /\ x.objs[a] = Object(d, a) /\ x.entries = d.entries
  <1>1. d \in DB /\ Sound(d)
    BY LenIs
  <1>2. CASE InTrie(d, a)
    <2>1. x = setStateObject(d, a, Object(d, a))
      BY <1>2 DEF getStateObject, setStateObject
    <2>2. Object(d, a) \in Obj /\ Coherent(Object(d, a)) /\ ~ Object(d, a).deleted
      BY <1>1, ObjectIs
    <2> QED
      BY <2>1, <2>2, PutSame
  <1>3. CASE ~ InTrie(d, a)
    <2>1. x = d
      BY <1>3 DEF getStateObject
    <2>2. a \in DOMAIN d.objs /\ Object(d, a) = d.objs[a]
      BY <1>3 DEF Has, Object
    <2>3. Grow(d, h, d, h)
      BY <1>1, SameGrows DEF Frame
    <2> QED
      BY <2>1, <2>2, <2>3
  <1> QED
    BY <1>2, <1>3

LEMMA NewAccountIs ==
  ASSUME NEW n \in 0 .. MaxBalance
  PROVE  NewAccount(n) \in Account /\ NewAccount(n).bal = n
  BY DEF NewAccount, Account, NoStorage

\* The balance of an account, or the one it is created with.
BalOf(d, a) == IF Has(d, a) THEN Object(d, a).bal ELSE IF a \in DOMAIN Known THEN Known[a] ELSE 0

LEMMA CreateIs ==
  ASSUME NEW d, NEW h, Journal(d, h), NEW a \in Addr, ~ Has(d, a), Settled(d, a),
         NEW x, x = createObject(d, a)
  PROVE  /\ Grows(d, h, x) /\ a \in DOMAIN x.objs /\ Settled(x, Nobody)
         /\ x.objs[a].bal = BalOf(d, a)
  <1> DEFINE n == IF a \in DOMAIN Known THEN Known[a] ELSE 0
             c == NewAccount(n)
             o == newStateObject(c)
             e == Change("create", a, Zero, Zero)
  <1>1. d \in DB /\ Sound(d)
    BY LenIs
  <1>2. n \in 0 .. MaxBalance
    BY StateAssumption
  <1>3. n = BalOf(d, a)
    BY DEF BalOf
  <1>4. x = Write(d, e, a, o)
    BY DEF createObject
  <1> HIDE DEF n
  <1>5. c \in Account /\ c.bal = n
    BY <1>2, NewAccountIs
  <1> HIDE DEF c
  <1>6. o \in Obj /\ o.bal = c.bal /\ ~ o.deleted /\ Coherent(o)
    BY <1>5, NewObjectIs, NewIsCoherent
  <1> HIDE DEF o
  <1>7. e \in Entry /\ e.what = "create" /\ e.addr = a
    <2>1. "create" \in What /\ a \in Addr \cup {Nobody} /\ Zero \in Key \cup {Zero} /\ Zero \in Prev
      BY DEF What, Prev, Zero
    <2> QED
      BY <2>1, ChangeIs
  <1> HIDE DEF e
  <1>8. a \notin DOMAIN d.objs /\ a \notin DOMAIN d.trie
    BY <1>1 DEF Has, InTrie, Sound
  <1>9. EntryOK(e, d.trie, d.dirtyObjs)
    BY <1>1, <1>7, <1>8 DEF EntryOK, Global, Sound
  <1>10. Visible(d, a) = AnswersUndo({Answers(o)}, e)
    BY <1>7 DEF Visible, AnswersUndo
  <1>11. Wrote(d, e, a, o, x)
    BY <1>1, <1>4, <1>6, <1>7, WriteWrote
  <1>12. e.what \notin Global /\ e.what # "reset"
    BY <1>7 DEF Global
  <1>13. Grows(d, h, x) /\ a \in DOMAIN x.objs /\ x.objs[a] = o /\ Settled(x, Nobody)
    BY <1>6, <1>7, <1>9, <1>10, <1>11, <1>12, WroteGrows
  <1> QED
    BY <1>3, <1>5, <1>6, <1>13

LEMMA SettledSame ==
  ASSUME NEW d, NEW x, x.entries = d.entries, NEW a, Settled(d, a)
  PROVE  Settled(x, a)
  BY DEF Settled

LEMMA SettledAny ==
  ASSUME NEW d, Settled(d, Nobody), NEW a
  PROVE  Settled(d, a)
  BY StateAssumption DEF Settled

LEMMA GetOrNewIs ==
  ASSUME NEW d, NEW h, Journal(d, h), NEW a \in Addr, Settled(d, a), NEW x, x = GetOrNewStateObject(d, a)
  PROVE  /\ Grows(d, h, x) /\ a \in DOMAIN x.objs /\ Settled(x, a)
         /\ Settled(d, Nobody) => Settled(x, Nobody)
         /\ x.objs[a].bal = BalOf(d, a)
  <1>1. CASE Has(d, a)
    <2>1. x = getStateObject(d, a)
      BY <1>1 DEF GetOrNewStateObject
    <2>2. Grow(d, h, x, h) /\ a \in DOMAIN x.objs /\ x.objs[a] = Object(d, a) /\ x.entries = d.entries
      BY <1>1, <2>1, LoadIs
    <2>3. x.objs[a].bal = BalOf(d, a)
      BY <1>1, <2>2 DEF BalOf
    <2>4. Settled(x, a) /\ (Settled(d, Nobody) => Settled(x, Nobody))
      BY <2>2, SettledSame
    <2> QED
      BY <2>2, <2>3, <2>4 DEF Grows
  <1>2. CASE ~ Has(d, a)
    <2>1. x = createObject(d, a)
      BY <1>2 DEF GetOrNewStateObject
    <2>2. Grows(d, h, x) /\ a \in DOMAIN x.objs /\ Settled(x, Nobody) /\ x.objs[a].bal = BalOf(d, a)
      BY <1>2, <2>1, CreateIs
    <2> QED
      BY <2>2, SettledAny
  <1> QED
    BY <1>1, <1>2

LEMMA GrowsTrans ==
  ASSUME NEW d, NEW h, NEW x, NEW g, NEW y, Journal(d, h), Grow(d, h, x, g), Grows(x, g, y)
  PROVE  Grows(d, h, y)
  <1>1. PICK f : Grow(x, g, y, f)
    BY DEF Grows
  <1>2. Grow(d, h, y, f)
    BY <1>1, GrowTrans
  <1> QED
    BY <1>2 DEF Grows

\* createObject of an account that is there, with the balance CreateAccount gives it.
LEMMA ResetIs ==
  ASSUME NEW d, NEW h, Journal(d, h), NEW a \in Addr, Has(d, a), Settled(d, a),
         NEW x, x = CreateAccount(d, a)
  PROVE  Grows(d, h, x) /\ a \in DOMAIN x.objs /\ Settled(x, a)
  <1> DEFINE p == Object(d, a)
             e == Change("reset", a, Zero, p)
             c == NewAccount(0)
             o == newStateObject(c)
             y == getStateObject(d, a)
             z == Write(y, e, a, o)
             b == p.bal
             u == [o EXCEPT !.bal = b]
  <1>1. d \in DB /\ Sound(d)
    BY LenIs
  <1>2. p \in Obj /\ Coherent(p) /\ ~ p.deleted
    BY <1>1, ObjectIs
  <1>3. Grow(d, h, y, h) /\ a \in DOMAIN y.objs /\ y.objs[a] = p /\ y.entries = d.entries
    BY LoadIs
  <1>4. x = setStateObject(z, a, [z.objs[a] EXCEPT !.bal = b])
    BY DEF CreateAccount, createObject
  <1> HIDE DEF y, p
  <1>5. Journal(y, h) /\ y \in DB /\ Sound(y)
    BY <1>3, LenIs DEF Grow
  <1>6. Settled(y, a)
    BY <1>3, SettledSame
  <1>7. Visible(y, a) = {Answers(p)}
    BY <1>3, <1>5, PresentIs
  <1>8. b \in 0 .. MaxBalance
    BY <1>2, ObjIs
  <1> HIDE DEF b
  <1>9. c \in Account
    BY NewAccountIs, StateAssumption
  <1> HIDE DEF c
  <1>10. o \in Obj /\ ~ o.deleted /\ Coherent(o)
    BY <1>9, NewObjectIs, NewIsCoherent
  <1>11. e \in Entry /\ e.what = "reset" /\ e.addr = a /\ e.prev = p
    <2>1. "reset" \in What /\ a \in Addr \cup {Nobody} /\ Zero \in Key \cup {Zero} /\ p \in Prev
      BY <1>2 DEF What, Prev
    <2> QED
      BY <2>1, ChangeIs
  <1> HIDE DEF e, o
  <1>12. u \in Obj /\ Coherent(u) /\ u.deleted = o.deleted
    <2>1. 0 \in Nat /\ NoCode \in Code \cup {NoCode} /\ o.suicided \in BOOLEAN
      BY <1>10, ObjIs
    <2> QED
      BY <1>8, <1>10, <2>1, SetFields
  <1>13. Wrote(y, e, a, o, z)
    BY <1>5, <1>10, <1>11, WriteWrote
  <1> HIDE DEF z
  <1>14. z.objs[a] = o
    BY <1>13 DEF Wrote, Put
  <1>15. x = setStateObject(z, a, u)
    BY <1>4, <1>14
  <1> HIDE DEF u
  <1>16. /\ x \in DB /\ x.objs = Put(z.objs, a, u) /\ x.trie = z.trie /\ x.dirtyObjs = z.dirtyObjs
         /\ x.refund = z.refund /\ x.logs = z.logs /\ x.preimages = z.preimages
         /\ x.entries = z.entries /\ x.dirties = z.dirties /\ x.revisions = z.revisions
         /\ x.nextId = z.nextId
    BY <1>12, <1>13, <1>15, SetObjectIs DEF Wrote
  <1>17. x.objs = Put(y.objs, a, u)
    BY <1>13, <1>16 DEF Wrote, Put
  <1>18. Wrote(y, e, a, u, x)
    BY <1>13, <1>16, <1>17 DEF Wrote, Frame
  <1>19. EntryOK(e, y.trie, y.dirtyObjs)
    BY <1>2, <1>11 DEF EntryOK, Global
  <1>20. Visible(y, a) = AnswersUndo({Answers(u)}, e)
    BY <1>7, <1>11 DEF AnswersUndo
  <1>21. e.what \notin Global
    BY <1>11 DEF Global
  <1>22. Grows(y, h, x) /\ a \in DOMAIN x.objs /\ Settled(x, a)
    BY <1>5, <1>6, <1>10, <1>11, <1>12, <1>18, <1>19, <1>20, <1>21, WroteGrows
  <1> QED
    BY <1>3, <1>22, GrowsTrans

\* Setting a field of the answers back to what it was.
LEMMA FieldsBack ==
  ASSUME NEW o, NEW n
  PROVE  /\ [[Answers(o) EXCEPT !.bal = n] EXCEPT !.bal = o.bal] = Answers(o)
         /\ [[Answers(o) EXCEPT !.nonce = n] EXCEPT !.nonce = o.nonce] = Answers(o)
         /\ [[Answers(o) EXCEPT !.code = n] EXCEPT !.code = o.code] = Answers(o)
         /\ [[Answers(o) EXCEPT !.store = n] EXCEPT !.store = Answers(o).store] = Answers(o)
  <1> DEFINE r == Answers(o)
             b == o.bal
             m == o.nonce
             c == o.code
             s == o.suicided
             t == [k \in Key |-> ObjGetState(o, k)]
  <1>1. r = [bal |-> b, nonce |-> m, code |-> c, suicided |-> s, store |-> t]
    BY DEF Answers
  <1> HIDE DEF b, m, c, s, t, r
  <1>2. [[r EXCEPT !.bal = n] EXCEPT !.bal = b] = r
    <2> DEFINE q == [r EXCEPT !.bal = n]
    <2>1. q = [bal |-> n, nonce |-> m, code |-> c, suicided |-> s, store |-> t]
      BY <1>1
    <2> HIDE DEF q
    <2>2. [q EXCEPT !.bal = b] = r
      BY <1>1, <2>1
    <2> QED
      BY <2>2 DEF q
  <1>3. [[r EXCEPT !.nonce = n] EXCEPT !.nonce = m] = r
    <2> DEFINE q == [r EXCEPT !.nonce = n]
    <2>1. q = [bal |-> b, nonce |-> n, code |-> c, suicided |-> s, store |-> t]
      BY <1>1
    <2> HIDE DEF q
    <2>2. [q EXCEPT !.nonce = m] = r
      BY <1>1, <2>1
    <2> QED
      BY <2>2 DEF q
  <1>4. [[r EXCEPT !.code = n] EXCEPT !.code = c] = r
    <2> DEFINE q == [r EXCEPT !.code = n]
    <2>1. q = [bal |-> b, nonce |-> m, code |-> n, suicided |-> s, store |-> t]
      BY <1>1
    <2> HIDE DEF q
    <2>2. [q EXCEPT !.code = c] = r
      BY <1>1, <2>1
    <2> QED
      BY <2>2 DEF q
  <1>5. [[r EXCEPT !.store = n] EXCEPT !.store = t] = r
    <2> DEFINE q == [r EXCEPT !.store = n]
    <2>1. q = [bal |-> b, nonce |-> m, code |-> c, suicided |-> s, store |-> n]
      BY <1>1
    <2> HIDE DEF q
    <2>2. [q EXCEPT !.store = t] = r
      BY <1>1, <2>1
    <2> QED
      BY <2>2 DEF q
  <1>6. t = r.store
    BY <1>1
  <1> QED
    BY <1>2, <1>3, <1>4, <1>5, <1>6 DEF b, m, c, r

\* A setter that changes one object.
LEMMA SetterIs ==
  ASSUME NEW d, NEW h, Journal(d, h), NEW a \in Addr, Settled(d, a), NEW x, x = GetOrNewStateObject(d, a),
         NEW e \in Entry, e.addr = a, e.what \in OfObject \cup {"suicide"},
         EntryOK(e, d.trie, d.dirtyObjs),
         NEW o \in Obj, Coherent(o), ~ o.deleted, AnswersUndo({Answers(o)}, e) = {Answers(x.objs[a])},
         NEW y, y = Write(x, e, a, o)
  PROVE  Grows(d, h, y) /\ Settled(y, Nobody)
  <1>1. Grows(d, h, x) /\ a \in DOMAIN x.objs /\ Settled(x, a)
    BY GetOrNewIs
  <1>2. PICK g : Grow(d, h, x, g)
    BY <1>1 DEF Grows
  <1>3. Journal(x, g) /\ x \in DB
    BY <1>2, LenIs DEF Grow
  <1>4. Visible(x, a) = AnswersUndo({Answers(o)}, e)
    BY <1>1, <1>3, PresentIs
  <1>5. EntryOK(e, x.trie, x.dirtyObjs)
    BY <1>2 DEF Grow, Frame
  <1>6. e.what \notin Global /\ e.what # "reset"
    BY DEF OfObject, Global
  <1>7. Wrote(x, e, a, o, y)
    BY <1>3, WriteWrote
  <1>8. Grows(x, g, y) /\ Settled(y, Nobody)
    BY <1>1, <1>3, <1>4, <1>5, <1>6, <1>7, WroteGrows
  <1> QED
    BY <1>2, <1>8, GrowsTrans

\* What GetOrNewStateObject answers.
LEMMA GotIs ==
  ASSUME NEW d, NEW h, Journal(d, h), NEW a \in Addr, Settled(d, a), NEW x, x = GetOrNewStateObject(d, a)
  PROVE  x.objs[a] \in Obj /\ Coherent(x.objs[a]) /\ ~ x.objs[a].deleted
  <1>1. Grows(d, h, x) /\ a \in DOMAIN x.objs
    BY GetOrNewIs
  <1>2. PICK g : Journal(x, g)
    BY <1>1 DEF Grows, Grow
  <1> QED
    BY <1>1, <1>2, PresentIs

LEMMA SetBalanceIs ==
  ASSUME NEW d, NEW h, Journal(d, h), NEW a \in Addr, Settled(d, a), NEW n \in 0 .. MaxBalance,
         NEW y, y = SetBalance(d, a, n)
  PROVE  Grows(d, h, y) /\ Settled(y, Nobody)
  <1> DEFINE x == GetOrNewStateObject(d, a)
             o == x.objs[a]
             u == [o EXCEPT !.bal = n]
             p == o.bal
             e == Change("balance", a, Zero, p)
  <1>1. y = Write(x, e, a, u)
    BY DEF SetBalance
  <1>2. o \in Obj /\ Coherent(o) /\ ~ o.deleted
    BY GotIs
  <1>3. p \in 0 .. MaxBalance /\ o.nonce \in Nat /\ o.code \in Code \cup {NoCode} /\ o.suicided \in BOOLEAN
    BY <1>2, ObjIs
  <1> HIDE DEF x, p
  <1>4. u \in Obj /\ Coherent(u) /\ u.deleted = o.deleted /\ Answers(u) = [Answers(o) EXCEPT !.bal = n]
    <2> HIDE DEF o
    <2> QED
      BY <1>2, <1>3, SetFields
  <1>5. e \in Entry /\ e.what = "balance" /\ e.addr = a /\ e.prev = p
    <2>1. "balance" \in What /\ a \in Addr \cup {Nobody} /\ Zero \in Key \cup {Zero} /\ p \in Prev
      BY <1>3, StateAssumption DEF What, Prev
    <2> QED
      BY <2>1, ChangeIs
  <1> HIDE DEF u, e
  <1>6. AnswersUndo({Answers(u)}, e) = {[Answers(u) EXCEPT !.bal = p]}
    BY <1>5 DEF AnswersUndo
  <1>7. [[Answers(o) EXCEPT !.bal = n] EXCEPT !.bal = p] = Answers(o)
    <2> HIDE DEF o
    <2> QED
      BY FieldsBack DEF p
  <1>8. AnswersUndo({Answers(u)}, e) = {Answers(o)}
    BY <1>4, <1>6, <1>7
  <1>9. EntryOK(e, d.trie, d.dirtyObjs) /\ e.what \in OfObject \cup {"suicide"}
    BY <1>3, <1>5 DEF EntryOK, Global, OfObject
  <1> QED
    BY <1>1, <1>2, <1>4, <1>5, <1>8, <1>9, SetterIs DEF x

LEMMA SetNonceIs ==
  ASSUME NEW d, NEW h, Journal(d, h), NEW a \in Addr, Settled(d, a), NEW n \in Nat,
         NEW y, y = SetNonce(d, a, n)
  PROVE  Grows(d, h, y) /\ Settled(y, Nobody)
  <1> DEFINE x == GetOrNewStateObject(d, a)
             o == x.objs[a]
             u == [o EXCEPT !.nonce = n]
             p == o.nonce
             e == Change("nonce", a, Zero, p)
  <1>1. y = Write(x, e, a, u)
    BY DEF SetNonce
  <1>2. o \in Obj /\ Coherent(o) /\ ~ o.deleted
    BY GotIs
  <1>3. p \in Nat /\ o.bal \in 0 .. MaxBalance /\ o.code \in Code \cup {NoCode} /\ o.suicided \in BOOLEAN
    BY <1>2, ObjIs
  <1> HIDE DEF x, p
  <1>4. u \in Obj /\ Coherent(u) /\ u.deleted = o.deleted /\ Answers(u) = [Answers(o) EXCEPT !.nonce = n]
    <2> HIDE DEF o
    <2> QED
      BY <1>2, <1>3, SetFields
  <1>5. e \in Entry /\ e.what = "nonce" /\ e.addr = a /\ e.prev = p
    <2>1. "nonce" \in What /\ a \in Addr \cup {Nobody} /\ Zero \in Key \cup {Zero} /\ p \in Prev
      BY <1>3 DEF What, Prev
    <2> QED
      BY <2>1, ChangeIs
  <1> HIDE DEF u, e
  <1>6. AnswersUndo({Answers(u)}, e) = {[Answers(u) EXCEPT !.nonce = p]}
    BY <1>5 DEF AnswersUndo
  <1>7. [[Answers(o) EXCEPT !.nonce = n] EXCEPT !.nonce = p] = Answers(o)
    <2> HIDE DEF o
    <2> QED
      BY FieldsBack DEF p
  <1>8. AnswersUndo({Answers(u)}, e) = {Answers(o)}
    BY <1>4, <1>6, <1>7
  <1>9. EntryOK(e, d.trie, d.dirtyObjs) /\ e.what \in OfObject \cup {"suicide"}
    BY <1>3, <1>5 DEF EntryOK, Global, OfObject
  <1> QED
    BY <1>1, <1>2, <1>4, <1>5, <1>8, <1>9, SetterIs DEF x

LEMMA SetCodeIs ==
  ASSUME NEW d, NEW h, Journal(d, h), NEW a \in Addr, Settled(d, a), NEW n \in Code,
         NEW y, y = SetCode(d, a, n)
  PROVE  Grows(d, h, y) /\ Settled(y, Nobody)
  <1> DEFINE x == GetOrNewStateObject(d, a)
             o == x.objs[a]
             u == [o EXCEPT !.code = n]
             p == o.code
             e == Change("code", a, Zero, p)
  <1>1. y = Write(x, e, a, u)
    BY DEF SetCode
  <1>2. o \in Obj /\ Coherent(o) /\ ~ o.deleted
    BY GotIs
  <1>3. p \in Code \cup {NoCode} /\ o.bal \in 0 .. MaxBalance /\ o.nonce \in Nat /\ o.suicided \in BOOLEAN
    BY <1>2, ObjIs
  <1> HIDE DEF x, p
  <1>4. u \in Obj /\ Coherent(u) /\ u.deleted = o.deleted /\ Answers(u) = [Answers(o) EXCEPT !.code = n]
    <2> HIDE DEF o
    <2>1. n \in Code \cup {NoCode}
      OBVIOUS
    <2> QED
      BY <1>2, <1>3, <2>1, SetFields
  <1>5. e \in Entry /\ e.what = "code" /\ e.addr = a /\ e.prev = p
    <2>1. "code" \in What /\ a \in Addr \cup {Nobody} /\ Zero \in Key \cup {Zero} /\ p \in Prev
      BY <1>3 DEF What, Prev
    <2> QED
      BY <2>1, ChangeIs
  <1> HIDE DEF u, e
  <1>6. AnswersUndo({Answers(u)}, e) = {[Answers(u) EXCEPT !.code = p]}
    BY <1>5 DEF AnswersUndo
  <1>7. [[Answers(o) EXCEPT !.code = n] EXCEPT !.code = p] = Answers(o)
    <2> HIDE DEF o
    <2> QED
      BY FieldsBack DEF p
  <1>8. AnswersUndo({Answers(u)}, e) = {Answers(o)}
    BY <1>4, <1>6, <1>7
  <1>9. EntryOK(e, d.trie, d.dirtyObjs) /\ e.what \in OfObject \cup {"suicide"}
    BY <1>3, <1>5 DEF EntryOK, Global, OfObject
  <1> QED
    BY <1>1, <1>2, <1>4, <1>5, <1>8, <1>9, SetterIs DEF x

LEMMA SetStateIs ==
  ASSUME NEW d, NEW h, Journal(d, h), NEW a \in Addr, Settled(d, a), NEW k \in Key, NEW v \in Value,
         NEW y, y = SetState(d, a, k, v)
  PROVE  Grows(d, h, y) /\ Settled(y, Nobody)
  <1> DEFINE x == GetOrNewStateObject(d, a)
             q == x.objs[a]
             o == Cache(q, k)
             u == setState(o, k, v)
             p == ObjGetState(o, k)
             e == Change("storage", a, k, p)
  <1>1. y = Write(x, e, a, u)
    BY DEF SetState
  <1>2. q \in Obj /\ Coherent(q) /\ ~ q.deleted
    BY GotIs
  <1> HIDE DEF q
  <1>3. o \in Obj /\ Coherent(o) /\ o.deleted = q.deleted /\ Answers(o) = Answers(q)
    BY <1>2, CacheIs
  <1> HIDE DEF o
  <1>4. p \in Value /\ p = Answers(o).store[k]
    BY <1>3, StateIs DEF Answers
  <1> HIDE DEF p
  <1> DEFINE A == Answers(o)
             st == [j \in Key |-> IF j = k THEN v ELSE A.store[j]]
  <1>5. u \in Obj /\ Coherent(u) /\ u.deleted = o.deleted /\ Answers(u) = [A EXCEPT !.store = st]
    BY <1>3, SetSlot
  <1>6. e \in Entry /\ e.what = "storage" /\ e.addr = a /\ e.prev = p /\ e.key = k
    <2>1. "storage" \in What /\ a \in Addr \cup {Nobody} /\ k \in Key \cup {Zero} /\ p \in Prev
      BY <1>4 DEF What, Prev
    <2> QED
      BY <2>1, ChangeIs
  <1> HIDE DEF u, e
  <1>7. AnswersUndo({Answers(u)}, e) =
          {[Answers(u) EXCEPT !.store = [j \in Key |-> IF j = k THEN p ELSE Answers(u).store[j]]]}
    BY <1>6 DEF AnswersUndo
  <1>8. [j \in Key |-> IF j = k THEN p ELSE st[j]] = A.store
    <2>1. A.store = [j \in Key |-> A.store[j]]
      BY DEF Answers
    <2>2. ASSUME NEW j \in Key
          PROVE  (IF j = k THEN p ELSE st[j]) = A.store[j]
      <3> HIDE DEF A
      <3> QED
        BY <1>4 DEF A
    <2> HIDE DEF A, st
    <2> QED
      BY <2>1, <2>2
  <1>9. Answers(u).store = st
    <2>1. A = [bal |-> o.bal, nonce |-> o.nonce, code |-> o.code, suicided |-> o.suicided, store |-> A.store]
      BY DEF Answers
    <2> HIDE DEF A, st
    <2> QED
      BY <1>5, <2>1
  <1>10. [[A EXCEPT !.store = st] EXCEPT !.store = A.store] = A
    <2> HIDE DEF st
    <2> QED
      BY FieldsBack
  <1>11. AnswersUndo({Answers(u)}, e) = {Answers(q)}
    <2> HIDE DEF A, st
    <2> QED
      BY <1>3, <1>5, <1>7, <1>8, <1>9, <1>10 DEF A
  <1>12. EntryOK(e, d.trie, d.dirtyObjs) /\ e.what \in OfObject \cup {"suicide"}
    BY <1>4, <1>6 DEF EntryOK, Global, OfObject
  <1> HIDE DEF A, st
  <1> QED
    BY <1>1, <1>2, <1>3, <1>5, <1>6, <1>11, <1>12, SetterIs DEF q

\* An answer with the suicided field s, or with the balance n.
Marked(A, s) == [A EXCEPT !.suicided = s]
Paid(A, n) == [A EXCEPT !.bal = n]

LEMMA SuicideBack ==
  ASSUME NEW A, NEW b, NEW m, NEW c, NEW s \in BOOLEAN, NEW t, NEW y \in BOOLEAN, NEW n,
         A = [bal |-> b, nonce |-> m, code |-> c, suicided |-> s, store |-> t]
  PROVE  Paid(Marked(Paid(Marked(A, y), n), s), b) = A
  <1> DEFINE r == Marked(A, y)
             w == Paid(r, n)
             q == Marked(w, s)
  <1>1. r = [bal |-> b, nonce |-> m, code |-> c, suicided |-> y, store |-> t]
    BY DEF Marked
  <1> HIDE DEF r
  <1>2. w = [bal |-> n, nonce |-> m, code |-> c, suicided |-> y, store |-> t]
    BY <1>1 DEF Paid
  <1> HIDE DEF w
  <1>3. q = [bal |-> n, nonce |-> m, code |-> c, suicided |-> s, store |-> t]
    BY <1>2 DEF Marked
  <1> HIDE DEF q
  <1>4. Paid(q, b) = A
    BY <1>3 DEF Paid
  <1> QED
    BY <1>4, Zenon DEF q, w, r

LEMMA SuicideIs ==
  ASSUME NEW d, NEW h, Journal(d, h), NEW a \in Addr, Has(d, a), Settled(d, a), NEW y, y = Suicide(d, a)
  PROVE  Grows(d, h, y) /\ Settled(y, Nobody)
  <1> DEFINE o == Object(d, a)
             p == [suicided |-> o.suicided, bal |-> o.bal]
             yes == TRUE
             u == Alive(o, yes, 0)
             e == Change("suicide", a, Zero, p)
  <1>1. d \in DB /\ Sound(d)
    BY LenIs
  <1>2. o \in Obj /\ Coherent(o) /\ ~ o.deleted /\ Visible(d, a) = {Answers(o)}
    BY <1>1, ObjectIs
  <1>3. o.suicided \in BOOLEAN /\ o.bal \in 0 .. MaxBalance
    BY <1>2, ObjIs
  <1>4. y = Write(d, e, a, u)
    BY Zenon DEF Suicide, Alive
  <1>5. yes \in BOOLEAN /\ 0 \in 0 .. MaxBalance
    BY StateAssumption
  <1> HIDE DEF o, yes
  <1>6. u \in Obj /\ Coherent(u) /\ u.deleted = o.deleted
        /\ Answers(u) = [[Answers(o) EXCEPT !.suicided = yes] EXCEPT !.bal = 0]
    BY <1>2, <1>5, SetSuicided
  <1>7. p.suicided = o.suicided /\ p.bal = o.bal
    BY Zenon
  <1>8. p \in Prev
    BY <1>3 DEF Prev
  <1> HIDE DEF p
  <1>9. e \in Entry /\ e.what = "suicide" /\ e.addr = a /\ e.prev = p
    <2>1. "suicide" \in What /\ a \in Addr \cup {Nobody} /\ Zero \in Key \cup {Zero}
      BY DEF What
    <2> QED
      BY <1>8, <2>1, ChangeIs
  <1> HIDE DEF u, e
  <1>10. AnswersUndo({Answers(u)}, e) = {[[Answers(u) EXCEPT !.suicided = p.suicided] EXCEPT !.bal = p.bal]}
    BY <1>9 DEF AnswersUndo
  <1>11. [[Answers(u) EXCEPT !.suicided = o.suicided] EXCEPT !.bal = o.bal] = Answers(o)
    <2> DEFINE A == Answers(o)
               s == o.suicided
               t == A.store
    <2>1. A = [bal |-> o.bal, nonce |-> o.nonce, code |-> o.code, suicided |-> s, store |-> t]
      BY DEF Answers
    <2>2. s \in BOOLEAN
      BY <1>3
    <2> HIDE DEF A, s, t
    <2>3. Paid(Marked(Paid(Marked(A, yes), 0), s), o.bal) = A
      BY <1>5, <2>1, <2>2, SuicideBack
    <2> QED
      BY <1>6, <2>3, Zenon DEF A, s, Paid, Marked
  <1>12. Visible(d, a) = AnswersUndo({Answers(u)}, e)
    BY <1>2, <1>7, <1>10, <1>11, Zenon
  <1>13. EntryOK(e, d.trie, d.dirtyObjs)
    BY <1>3, <1>7, <1>9 DEF EntryOK, Global
  <1>14. e.what \notin Global /\ e.what # "reset"
    BY <1>9 DEF Global
  <1>15. Wrote(d, e, a, u, y)
    BY <1>1, <1>4, <1>6, <1>9, WriteWrote
  <1> QED
    BY <1>2, <1>6, <1>9, <1>12, <1>13, <1>14, <1>15, WroteGrows

LEMMA TouchIs ==
  ASSUME NEW d, NEW h, Journal(d, h), NEW a \in Addr, Settled(d, a), NEW y, y = touch(d, a)
  PROVE  Grows(d, h, y) /\ Settled(y, Nobody)
  <1> DEFINE e == Change("touch", a, Zero, Zero)
             x == append(d, e)
  <1>1. d \in DB /\ Sound(d) /\ d.entries \in Seq(Entry) /\ d.dirties \in [Addr -> Int]
    BY LenIs, DBIs
  <1>2. e \in Entry /\ e.what = "touch" /\ e.addr = a
    <2>1. "touch" \in What /\ a \in Addr \cup {Nobody} /\ Zero \in Key \cup {Zero} /\ Zero \in Prev
      BY DEF What, Prev, Zero
    <2> QED
      BY <2>1, ChangeIs
  <1>3. y = IF a = Ripemd THEN Count(x, e, 1) ELSE x
    BY DEF touch
  <1> HIDE DEF e
  <1>4. /\ x \in DB /\ x.objs = d.objs /\ x.trie = d.trie /\ x.dirtyObjs = d.dirtyObjs
        /\ x.refund = d.refund /\ x.logs = d.logs /\ x.preimages = d.preimages
        /\ x.entries = Append(d.entries, e) /\ x.dirties = Bump(d.dirties, e, 1)
        /\ x.revisions = d.revisions /\ x.nextId = d.nextId
    BY <1>1, <1>2, AppendIs
  <1> HIDE DEF x
  <1>5. /\ y \in DB /\ y.objs = d.objs /\ y.trie = d.trie /\ y.dirtyObjs = d.dirtyObjs
        /\ y.refund = d.refund /\ y.logs = d.logs /\ y.preimages = d.preimages
        /\ y.entries = Append(d.entries, e) /\ y.revisions = d.revisions /\ y.nextId = d.nextId
        /\ y.dirties = IF a = Ripemd THEN Bump(x.dirties, e, 1) ELSE x.dirties
    <2>1. CASE a = Ripemd
      BY <1>3, <1>4, <2>1, CountIs
    <2>2. CASE a # Ripemd
      BY <1>3, <1>4, <2>2
    <2> QED
      BY <2>1, <2>2
  <1>6. dirtied(e) = a
    BY <1>2 DEF dirtied
  <1>7. \A b \in Addr :
          /\ y.dirties[b] >= (IF b = dirtied(e) THEN d.dirties[b] + 1 ELSE d.dirties[b])
          /\ b # Ripemd => y.dirties[b] = (IF b = dirtied(e) THEN d.dirties[b] + 1 ELSE d.dirties[b])
    <2> SUFFICES ASSUME NEW b \in Addr
                 PROVE  /\ y.dirties[b] >= (IF b = a THEN d.dirties[b] + 1 ELSE d.dirties[b])
                        /\ b # Ripemd => y.dirties[b] = (IF b = a THEN d.dirties[b] + 1 ELSE d.dirties[b])
      BY <1>6
    <2>1. d.dirties[b] \in Int
      BY <1>1
    <2>2. x.dirties[b] = IF b = a THEN d.dirties[b] + 1 ELSE d.dirties[b]
      BY <1>4, <1>6 DEF Bump
    <2>3. y.dirties[b] = IF a = Ripemd /\ b = a THEN x.dirties[b] + 1 ELSE x.dirties[b]
      BY <1>5, <1>6 DEF Bump
    <2> QED
      BY <2>1, <2>2, <2>3
  <1>8. View(y) = View(d) /\ \A b : Visible(y, b) = Visible(d, b)
    BY <1>5, SameView
  <1>9. e.what \notin Global /\ e.what \notin OfObject
    BY <1>2 DEF Global, OfObject
  <1>10. View(d) = ViewUndo(View(y), e)
    <2>1. AnswersUndo(Visible(y, e.addr), e) = Visible(d, e.addr)
      BY <1>2, <1>8 DEF AnswersUndo
    <2>2. \A b \in Addr : b # e.addr => Visible(d, b) = Visible(y, b)
      BY <1>8
    <2>3. d.refund = y.refund /\ d.logs = y.logs /\ d.preimages = y.preimages
      BY <1>5
    <2> QED
      BY <1>9, <2>1, <2>2, <2>3, ViewUndoAccount
  <1>11. EntryOK(e, d.trie, d.dirtyObjs)
    BY <1>2 DEF EntryOK, Global
  <1>12. Sound(y) /\ Frame(d, y)
    BY <1>1, <1>5 DEF Sound, Frame
  <1>13. Grows(d, h, y)
    <2>1. /\ y \in DB /\ y.entries = Append(d.entries, e) /\ Settled(d, e.addr)
          /\ \A b \in Addr : b # e.addr => Visible(y, b) = Visible(d, b)
      BY <1>2, <1>5, <1>8
    <2> QED
      BY <1>2, <1>7, <1>9, <1>10, <1>11, <1>12, <2>1, Extend
  <1>14. y.entries[Len(y.entries)] = e
    BY <1>1, <1>2, <1>5, AppendFacts
  <1> QED
    BY <1>2, <1>13, <1>14 DEF Settled, Resets

\* refund, logs and preimages.
LEMMA GlobalGrows ==
  ASSUME NEW d, NEW h, Journal(d, h), Settled(d, Nobody), NEW e \in Entry, e.what \in Global, e.addr = Nobody,
         e.what = "refund" => e.prev \in Nat,
         NEW y \in DB, y.objs = d.objs, y.trie = d.trie, y.dirtyObjs = d.dirtyObjs,
         y.entries = Append(d.entries, e), y.dirties = Bump(d.dirties, e, 1), y.revisions = d.revisions,
         y.nextId = d.nextId,
         d.refund = IF e.what = "refund" THEN e.prev ELSE y.refund,
         d.logs = IF e.what = "log" THEN Front(y.logs) ELSE y.logs,
         d.preimages = IF e.what = "preimage" THEN y.preimages \ {e.key} ELSE y.preimages
  PROVE  Grows(d, h, y) /\ Settled(y, Nobody)
  <1>1. d \in DB /\ Sound(d) /\ d.entries \in Seq(Entry) /\ d.dirties \in [Addr -> Int]
    BY LenIs, DBIs
  <1>4. dirtied(e) = Nobody /\ Nobody \notin Addr
    BY StateAssumption DEF dirtied, Global
  <1>5. \A b \in Addr : b # dirtied(e) /\ y.dirties[b] = d.dirties[b] /\ d.dirties[b] \in Int
    BY <1>1, <1>4 DEF Bump
  <1>6. \A b : Visible(y, b) = Visible(d, b)
    BY DEF Visible, Has, InTrie, Object
  <1>7. View(d) = ViewUndo(View(y), e)
    <2> DEFINE V == [b \in Addr |-> Visible(d, b)]
               B == [b \in Addr |-> IF b = e.addr THEN AnswersUndo(View(y).accounts[b], e) ELSE View(y).accounts[b]]
    <2>1. \A b \in Addr : View(y).accounts[b] = Visible(d, b)
      BY <1>6, AccountOfView
    <2>2. B = V
      BY <1>4, <2>1
    <2>3. View(y).refund = y.refund /\ View(y).logs = y.logs /\ View(y).preimages = y.preimages
      BY DEF View
    <2>4. View(d) = [accounts |-> V, refund |-> d.refund, logs |-> d.logs, preimages |-> d.preimages]
      BY DEF View
    <2>5. ViewUndo(View(y), e) = [accounts |-> B, refund |-> d.refund, logs |-> d.logs, preimages |-> d.preimages]
      BY <2>3 DEF ViewUndo
    <2> HIDE DEF B, V
    <2> QED
      BY <2>2, <2>4, <2>5
  <1>8. EntryOK(e, d.trie, d.dirtyObjs) /\ e.what \notin OfObject /\ e.what # "reset"
    BY DEF EntryOK, Global, OfObject
  <1>9. Sound(y) /\ Frame(d, y)
    BY <1>1 DEF Sound, Frame
  <1>10. Grows(d, h, y)
    <2>1. /\ y.entries = Append(d.entries, e) /\ Settled(d, e.addr)
          /\ \A b \in Addr : b # e.addr => Visible(y, b) = Visible(d, b)
      BY <1>6
    <2>2. \A b \in Addr :
            /\ y.dirties[b] >= (IF b = dirtied(e) THEN d.dirties[b] + 1 ELSE d.dirties[b])
            /\ b # Ripemd => y.dirties[b] = (IF b = dirtied(e) THEN d.dirties[b] + 1 ELSE d.dirties[b])
      BY <1>5
    <2> QED
      BY <1>7, <1>8, <1>9, <2>1, <2>2, Extend
  <1>11. y.entries[Len(y.entries)] = e
    BY <1>1, AppendFacts
  <1> QED
    BY <1>8, <1>10, <1>11 DEF Settled, Resets

LEMMA AddRefundIs ==
  ASSUME NEW d, NEW h, Journal(d, h), Settled(d, Nobody), NEW gas \in Nat, NEW y, y = AddRefund(d, gas)
  PROVE  Grows(d, h, y) /\ Settled(y, Nobody)
  <1> DEFINE e == Change("refund", Nobody, Zero, d.refund)
             x == append(d, e)
             n == d.refund + gas
  <1>1. d \in DB /\ d.refund \in Nat
    BY LenIs, DBIs
  <1>2. e \in Entry /\ e.what = "refund" /\ e.addr = Nobody /\ e.prev = d.refund
    <2>1. "refund" \in What /\ Nobody \in Addr \cup {Nobody} /\ Zero \in Key \cup {Zero} /\ d.refund \in Prev
      BY <1>1 DEF What, Prev
    <2> QED
      BY <2>1, ChangeIs
  <1> HIDE DEF e
  <1>3. /\ x \in DB /\ x.objs = d.objs /\ x.trie = d.trie /\ x.dirtyObjs = d.dirtyObjs
        /\ x.refund = d.refund /\ x.logs = d.logs /\ x.preimages = d.preimages
        /\ x.entries = Append(d.entries, e) /\ x.dirties = Bump(d.dirties, e, 1)
        /\ x.revisions = d.revisions /\ x.nextId = d.nextId
    BY <1>1, <1>2, AppendIs
  <1>4. y = [x EXCEPT !.refund = x.refund + gas]
    BY DEF AddRefund, e
  <1> HIDE DEF x
  <1>5. y = [x EXCEPT !.refund = n] /\ n \in Nat
    BY <1>1, <1>3, <1>4
  <1> HIDE DEF n
  <1>6. /\ y \in DB /\ y.objs = x.objs /\ y.trie = x.trie /\ y.dirtyObjs = x.dirtyObjs
        /\ y.logs = x.logs /\ y.preimages = x.preimages
        /\ y.entries = x.entries /\ y.dirties = x.dirties
        /\ y.revisions = x.revisions /\ y.nextId = x.nextId
    BY <1>3, <1>5 DEF DB
  <1>7. e.what \in Global /\ e.what # "log" /\ e.what # "preimage"
    BY <1>2 DEF Global
  <1> QED
    BY <1>1, <1>2, <1>3, <1>6, <1>7, GlobalGrows

LEMMA AddLogIs ==
  ASSUME NEW d, NEW h, Journal(d, h), Settled(d, Nobody), NEW log \in Nat, NEW y, y = AddLog(d, log)
  PROVE  Grows(d, h, y) /\ Settled(y, Nobody)
  <1> DEFINE e == Change("log", Nobody, Zero, Zero)
             x == append(d, e)
             n == Append(d.logs, log)
  <1>1. d \in DB /\ d.logs \in Seq(Nat)
    BY LenIs, DBIs
  <1>2. e \in Entry /\ e.what = "log" /\ e.addr = Nobody
    <2>1. "log" \in What /\ Nobody \in Addr \cup {Nobody} /\ Zero \in Key \cup {Zero} /\ Zero \in Prev
      BY DEF What, Prev, Zero
    <2> QED
      BY <2>1, ChangeIs
  <1> HIDE DEF e
  <1>3. /\ x \in DB /\ x.objs = d.objs /\ x.trie = d.trie /\ x.dirtyObjs = d.dirtyObjs
        /\ x.refund = d.refund /\ x.logs = d.logs /\ x.preimages = d.preimages
        /\ x.entries = Append(d.entries, e) /\ x.dirties = Bump(d.dirties, e, 1)
        /\ x.revisions = d.revisions /\ x.nextId = d.nextId
    BY <1>1, <1>2, AppendIs
  <1>4. y = [x EXCEPT !.logs = Append(x.logs, log)]
    BY DEF AddLog, e
  <1> HIDE DEF x
  <1>5. y = [x EXCEPT !.logs = n] /\ n \in Seq(Nat)
    BY <1>1, <1>3, <1>4
  <1>6. Front(n) = d.logs
    <2>1. n \in Seq(Nat) /\ Len(n) = Len(d.logs) + 1 /\ Len(d.logs) \in Nat /\ Len(n) # 0
          /\ \A i \in 1 .. Len(d.logs) : n[i] = d.logs[i]
      BY <1>1
    <2> DEFINE s == d.logs
    <2>2. s \in Seq(Nat)
      BY <1>1
    <2> HIDE DEF n, s
    <2>3. Front(n) \in Seq(Nat) /\ Len(Front(n)) = Len(n) - 1 /\ \A i \in 1 .. Len(n) - 1 : Front(n)[i] = n[i]
      BY <2>1, FrontIs
    <2>4. Len(Front(n)) = Len(s) /\ \A i \in 1 .. Len(s) : Front(n)[i] = s[i]
      <3>1. Len(n) - 1 = Len(s) /\ \A i \in 1 .. Len(s) : n[i] = s[i]
        BY <2>1 DEF s
      <3> QED
        BY <2>3, <3>1
    <2>5. Front(n) = s
      BY <2>2, <2>3, <2>4, SeqEqual
    <2> QED
      BY <2>5 DEF s
  <1> HIDE DEF n
  <1>7. /\ y \in DB /\ y.objs = x.objs /\ y.trie = x.trie /\ y.dirtyObjs = x.dirtyObjs
        /\ y.refund = x.refund /\ y.preimages = x.preimages /\ y.logs = n
        /\ y.entries = x.entries /\ y.dirties = x.dirties
        /\ y.revisions = x.revisions /\ y.nextId = x.nextId
    BY <1>3, <1>5 DEF DB
  <1>8. e.what \in Global /\ e.what # "refund" /\ e.what # "preimage"
    BY <1>2 DEF Global
  <1> QED
    BY <1>1, <1>2, <1>3, <1>6, <1>7, <1>8, GlobalGrows

LEMMA AddPreimageIs ==
  ASSUME NEW d, NEW h, Journal(d, h), Settled(d, Nobody), NEW y, y = AddPreimage(d, Zero)
  PROVE  Grows(d, h, y) /\ Settled(y, Nobody)
  <1>1. CASE Zero \in d.preimages
    <2>1. y = d
      BY <1>1 DEF AddPreimage
    <2>2. Grow(d, h, d, h)
      BY LenIs, SameGrows DEF Frame
    <2> QED
      BY <2>1, <2>2 DEF Grows
  <1>2. CASE Zero \notin d.preimages
    <2> DEFINE e == Change("preimage", Nobody, Zero, Zero)
               x == append(d, e)
               n == d.preimages \cup {Zero}
    <2>1. d \in DB /\ d.preimages \in SUBSET Nat
      BY LenIs, DBIs
    <2>2. e \in Entry /\ e.what = "preimage" /\ e.addr = Nobody /\ e.key = Zero
      <3>1. "preimage" \in What /\ Nobody \in Addr \cup {Nobody} /\ Zero \in Key \cup {Zero} /\ Zero \in Prev
        BY DEF What, Prev, Zero
      <3> QED
        BY <3>1, ChangeIs
    <2> HIDE DEF e
    <2>3. /\ x \in DB /\ x.objs = d.objs /\ x.trie = d.trie /\ x.dirtyObjs = d.dirtyObjs
          /\ x.refund = d.refund /\ x.logs = d.logs /\ x.preimages = d.preimages
          /\ x.entries = Append(d.entries, e) /\ x.dirties = Bump(d.dirties, e, 1)
          /\ x.revisions = d.revisions /\ x.nextId = d.nextId
      BY <2>1, <2>2, AppendIs
    <2>4. y = [x EXCEPT !.preimages = x.preimages \cup {Zero}]
      BY <1>2 DEF AddPreimage, e
    <2> HIDE DEF x
    <2>5. y = [x EXCEPT !.preimages = n] /\ n \in SUBSET Nat /\ n \ {Zero} = d.preimages
      BY <1>2, <2>1, <2>3, <2>4 DEF Zero
    <2> HIDE DEF n
    <2>6. /\ y \in DB /\ y.objs = x.objs /\ y.trie = x.trie /\ y.dirtyObjs = x.dirtyObjs
          /\ y.refund = x.refund /\ y.preimages = n /\ y.logs = x.logs
          /\ y.entries = x.entries /\ y.dirties = x.dirties
          /\ y.revisions = x.revisions /\ y.nextId = x.nextId
      BY <2>3, <2>5 DEF DB
    <2>7. e.what \in Global /\ e.what # "refund" /\ e.what # "log"
      BY <2>2 DEF Global
    <2>8. /\ d.preimages = y.preimages \ {e.key} /\ d.refund = y.refund /\ d.logs = y.logs
          /\ y.objs = d.objs /\ y.trie = d.trie /\ y.dirtyObjs = d.dirtyObjs /\ y.revisions = d.revisions
          /\ y.nextId = d.nextId /\ y.entries = Append(d.entries, e) /\ y.dirties = Bump(d.dirties, e, 1)
      BY <2>2, <2>3, <2>5, <2>6
    <2> QED
      BY <2>2, <2>6, <2>7, <2>8, GlobalGrows
  <1> QED
    BY <1>1, <1>2

LEMMA AddBalanceIs ==
  ASSUME NEW d, NEW h, Journal(d, h), Settled(d, Nobody), NEW a \in Addr, NEW n \in Nat,
         BalOf(d, a) + n <= MaxBalance, NEW y, y = AddBalance(d, a, n)
  PROVE  Grows(d, h, y) /\ Settled(y, Nobody)
  <1> DEFINE x == GetOrNewStateObject(d, a)
             b == x.objs[a].bal
  <1>1. y = IF n # 0 THEN SetBalance(x, a, b + n) ELSE IF empty(x.objs[a]) THEN touch(x, a) ELSE x
    BY DEF AddBalance
  <1>2. Settled(d, a)
    BY SettledAny
  <1>3. Grows(d, h, x) /\ a \in DOMAIN x.objs /\ Settled(x, a) /\ Settled(x, Nobody) /\ b = BalOf(d, a)
    BY <1>2, GetOrNewIs
  <1> HIDE DEF x
  <1>4. PICK g : Grow(d, h, x, g)
    BY <1>3 DEF Grows
  <1>5. Journal(x, g)
    BY <1>4 DEF Grow
  <1>6. b \in 0 .. MaxBalance
    BY <1>3, <1>5, PresentIs, ObjIs
  <1>7. b + n \in 0 .. MaxBalance
    BY <1>3, <1>6, StateAssumption
  <1>8. CASE n # 0
    <2>1. y = SetBalance(x, a, b + n)
      BY <1>1, <1>8
    <2> HIDE DEF b
    <2>2. Grows(x, g, y) /\ Settled(y, Nobody)
      BY <1>3, <1>5, <1>7, <2>1, SetBalanceIs
    <2> QED
      BY <1>4, <2>2, GrowsTrans
  <1>9. CASE n = 0 /\ empty(x.objs[a])
    <2>1. Grows(x, g, y) /\ Settled(y, Nobody)
      BY <1>1, <1>3, <1>5, <1>9, TouchIs
    <2> QED
      BY <1>4, <2>1, GrowsTrans
  <1>10. CASE n = 0 /\ ~ empty(x.objs[a])
    BY <1>1, <1>3, <1>10
  <1> QED
    BY <1>8, <1>9, <1>10

LEMMA SubBalanceIs ==
  ASSUME NEW d, NEW h, Journal(d, h), Settled(d, Nobody), NEW a \in Addr, NEW n \in Nat,
         BalOf(d, a) >= n, NEW y, y = SubBalance(d, a, n)
  PROVE  Grows(d, h, y) /\ Settled(y, Nobody)
  <1> DEFINE x == GetOrNewStateObject(d, a)
             b == x.objs[a].bal
  <1>1. y = IF n # 0 THEN SetBalance(x, a, b - n) ELSE x
    BY DEF SubBalance
  <1>2. Settled(d, a)
    BY SettledAny
  <1>3. Grows(d, h, x) /\ a \in DOMAIN x.objs /\ Settled(x, a) /\ Settled(x, Nobody) /\ b = BalOf(d, a)
    BY <1>2, GetOrNewIs
  <1> HIDE DEF x
  <1>4. PICK g : Grow(d, h, x, g)
    BY <1>3 DEF Grows
  <1>5. Journal(x, g)
    BY <1>4 DEF Grow
  <1>6. b \in 0 .. MaxBalance
    BY <1>3, <1>5, PresentIs, ObjIs
  <1>7. b - n \in 0 .. MaxBalance
    BY <1>3, <1>6, StateAssumption
  <1>8. CASE n # 0
    <2>1. y = SetBalance(x, a, b - n)
      BY <1>1, <1>8
    <2> HIDE DEF b
    <2>2. Grows(x, g, y) /\ Settled(y, Nobody)
      BY <1>3, <1>5, <1>7, <2>1, SetBalanceIs
    <2> QED
      BY <1>4, <2>2, GrowsTrans
  <1>9. CASE n = 0
    BY <1>1, <1>3, <1>9
  <1> QED
    BY <1>8, <1>9

LEMMA GetStateIs ==
  ASSUME NEW d, NEW h, Journal(d, h), Settled(d, Nobody), NEW a \in Addr, NEW k \in Key,
         NEW y, y = GetState(d, a, k)
  PROVE  Grows(d, h, y) /\ Settled(y, Nobody)
  <1>1. CASE Has(d, a)
    <2> DEFINE q == Object(d, a)
               o == Cache(q, k)
    <2>1. y = setStateObject(d, a, o)
      BY <1>1 DEF GetState
    <2>2. q \in Obj /\ Coherent(q) /\ ~ q.deleted
      BY <1>1, LenIs, ObjectIs
    <2> HIDE DEF q
    <2>3. o \in Obj /\ Coherent(o) /\ o.deleted = q.deleted /\ Answers(o) = Answers(q)
      BY <2>2, CacheIs
    <2> HIDE DEF o
    <2>4. Grow(d, h, y, h) /\ y.entries = d.entries
      BY <1>1, <2>1, <2>2, <2>3, PutSame DEF q
    <2> QED
      BY <2>4, SettledSame DEF Grows
  <1>2. CASE ~ Has(d, a)
    <2>1. y = d
      BY <1>2 DEF GetState
    <2>2. Grow(d, h, d, h)
      BY LenIs, SameGrows DEF Frame
    <2> QED
      BY <2>1, <2>2 DEF Grows
  <1> QED
    BY <1>1, <1>2

LEMMA CreateAccountIs ==
  ASSUME NEW d, NEW h, Journal(d, h), Settled(d, Nobody), NEW a \in Addr, NEW y, y = CreateAccount(d, a)
  PROVE  /\ Grows(d, h, y) /\ Settled(y, a)
         /\ ~ Has(d, a) => Settled(y, Nobody)
  <1>1. Settled(d, a)
    BY SettledAny
  <1>2. CASE Has(d, a)
    BY <1>1, <1>2, ResetIs
  <1>3. CASE ~ Has(d, a)
    <2>1. y = createObject(d, a)
      BY <1>3 DEF CreateAccount
    <2>2. Grows(d, h, y) /\ Settled(y, Nobody)
      BY <1>1, <1>3, <2>1, CreateIs
    <2> QED
      BY <2>2, SettledAny
  <1> QED
    BY <1>2, <1>3

LEMMA CreateContractIs ==
  ASSUME NEW d, NEW h, Journal(d, h), Settled(d, Nobody), NEW a \in Addr,
         NEW y, y = SetNonce(CreateAccount(d, a), a, 1)
  PROVE  Grows(d, h, y) /\ Settled(y, Nobody)
  <1> DEFINE x == CreateAccount(d, a)
  <1>1. Grows(d, h, x) /\ Settled(x, a)
    BY CreateAccountIs
  <1> HIDE DEF x
  <1>2. PICK g : Grow(d, h, x, g)
    BY <1>1 DEF Grows
  <1>3. Journal(x, g) /\ y = SetNonce(x, a, 1) /\ 1 \in Nat
    BY <1>2 DEF Grow, x
  <1>4. Grows(x, g, y) /\ Settled(y, Nobody)
    BY <1>1, <1>3, SetNonceIs
  <1> QED
    BY <1>2, <1>4, GrowsTrans

-----------------------------------------------------------------------------
(* The invariant                                                           *)

\* CleanIsUnchanged, of any StateDB.
CleanOf(d) ==
  \A a \in DOMAIN d.objs \ (Dirties(d) \cup d.dirtyObjs) :
    LET o == d.objs[a]
    IN  \/ o.deleted /\ a \notin DOMAIN d.trie
        \/ /\ a \in DOMAIN d.trie /\ o.bal = d.trie[a].bal /\ o.code = d.trie[a].code
           /\ \A k \in Key : ObjGetState(o, k) = d.trie[a].root[k]

\* What Commit needs: an object that is not to be written agrees with the trie.
Good(d) ==
  /\ d \in DB /\ CleanOf(d)
  /\ \A a \in DOMAIN d.objs : LET o == d.objs[a] IN Coherent(o) /\ (o.deleted => o.suicided \/ empty(o))

\* Snapshots are taken between calls of the EVM, so their last entry is no reset.
RevisionsOK(d) ==
  \A i \in 1 .. Len(d.revisions) :
    /\ d.revisions[i].index \in 0 .. Len(d.entries)
    /\ \A a \in Addr : ~ Resets(d.entries, d.revisions[i].index, a)
    /\ \A j \in 1 .. i : d.revisions[j].index <= d.revisions[i].index

Open(d) == (\E h : Journal(d, h)) /\ Settled(d, Nobody) /\ RevisionsOK(d)

Closed(d) == Good(d) /\ d.entries = <<>> /\ d.revisions = <<>> /\ d.dirties = [a \in Addr |-> 0]

IInv ==
  /\ phase \in {"open", "final", "committed"} /\ rounds \in Nat
  /\ phase = "open" => Open(sdb)
  /\ phase # "open" => Closed(sdb)

LEMMA AnswersFields ==
  ASSUME NEW o, NEW q, Answers(o) = Answers(q)
  PROVE  /\ o.bal = q.bal /\ o.nonce = q.nonce /\ o.code = q.code
         /\ \A k \in Key : ObjGetState(o, k) = ObjGetState(q, k)
  <1>1. /\ Answers(o).bal = o.bal /\ Answers(o).nonce = o.nonce /\ Answers(o).code = o.code
        /\ \A k \in Key : Answers(o).store[k] = ObjGetState(o, k)
    BY DEF Answers
  <1>2. /\ Answers(q).bal = q.bal /\ Answers(q).nonce = q.nonce /\ Answers(q).code = q.code
        /\ \A k \in Key : Answers(q).store[k] = ObjGetState(q, k)
    BY DEF Answers
  <1> QED
    BY <1>1, <1>2

LEMMA JournalDirties ==
  ASSUME NEW d, NEW h, Journal(d, h), NEW a \in Addr
  PROVE  /\ d.dirties[a] \in Nat
         /\ a \notin Dirties(d) => \A i \in 1 .. Len(d.entries) : dirtied(d.entries[i]) # a
  <1>1. d.dirties[a] \in Int /\ d.entries \in Seq(Entry)
    BY LenIs, DBIs
  <1>2. IsFiniteSet(DirtyAt(d.entries, a)) /\ Cardinality(DirtyAt(d.entries, a)) \in Nat
    BY <1>1, DirtyAtIs
  <1>3. d.dirties[a] >= Cardinality(DirtyAt(d.entries, a))
    BY DEF Journal, Counts
  <1>4. d.dirties[a] \in Nat
    BY <1>1, <1>2, <1>3
  <1>5. ASSUME a \notin Dirties(d), NEW i \in 1 .. Len(d.entries), dirtied(d.entries[i]) = a
        PROVE  FALSE
    <2>1. i \in DirtyAt(d.entries, a)
      BY <1>1, <1>5 DEF DirtyAt
    <2>2. Cardinality(DirtyAt(d.entries, a)) = 0
      BY <1>2, <1>3, <1>4, <1>5 DEF Dirties
    <2>3. DirtyAt(d.entries, a) = {}
      BY <1>2, <2>2, FS_EmptySet
    <2> QED
      BY <2>1, <2>3
  <1> QED
    BY <1>4, <1>5

\* An account that the journal does not count answers what the trie says.
LEMMA JournalClean ==
  ASSUME NEW d, NEW h, Journal(d, h), Settled(d, Nobody), NEW a \in Addr,
         a \notin Dirties(d) \cup d.dirtyObjs
  PROVE  Visible(d, a) = FromTrie(d.trie, a)
  <1> DEFINE N == Len(d.entries)
  <1>1. N \in Nat /\ N \in 0 .. N /\ a \in Addr \ d.dirtyObjs
    BY LenIs
  <1>2. Untouched(d.entries, N, a)
    BY JournalDirties, StateAssumption DEF Untouched, Settled
  <1>3. h[N].accounts[a] = FromTrie(d.trie, a)
    BY <1>1, <1>2 DEF Journal, Clean
  <1>4. h[N] = View(d)
    BY DEF Journal
  <1> QED
    BY <1>3, <1>4, AccountOfView

LEMMA OpenIsGood ==
  ASSUME NEW d, Open(d)
  PROVE  Good(d) /\ \A a \in DOMAIN d.objs : ~ d.objs[a].deleted
  <1>1. PICK h : Journal(d, h)
    BY DEF Open
  <1>2. d \in DB /\ Sound(d)
    BY <1>1, LenIs
  <1>3. \A a \in DOMAIN d.objs : Coherent(d.objs[a]) /\ ~ d.objs[a].deleted
    BY <1>2 DEF Sound
  <1>4. CleanOf(d)
    <2> SUFFICES ASSUME NEW a \in DOMAIN d.objs, a \notin Dirties(d) \cup d.dirtyObjs
                 PROVE  /\ a \in DOMAIN d.trie /\ d.objs[a].bal = d.trie[a].bal /\ d.objs[a].code = d.trie[a].code
                        /\ \A k \in Key : ObjGetState(d.objs[a], k) = d.trie[a].root[k]
      BY DEF CleanOf
    <2>1. a \in Addr /\ Visible(d, a) = {Answers(d.objs[a])}
      BY <1>1, PresentIs
    <2>2. Visible(d, a) = FromTrie(d.trie, a)
      BY <1>1, <2>1, JournalClean DEF Open
    <2>3. a \in DOMAIN d.trie
      BY <2>1, <2>2 DEF FromTrie
    <2> DEFINE q == newStateObject(d.trie[a])
    <2>4. d.trie[a] \in Account
      BY <1>2, <2>3, DBIs, WorldIs
    <2>5. Answers(d.objs[a]) = Answers(q)
      BY <2>1, <2>2, <2>3 DEF FromTrie
    <2>6. /\ q.bal = d.trie[a].bal /\ q.code = d.trie[a].code
          /\ \A k \in Key : ObjGetState(q, k) = d.trie[a].root[k]
      BY <2>4, NewObjectIs, NewIsCoherent
    <2> HIDE DEF q
    <2> QED
      BY <2>3, <2>5, <2>6, AnswersFields
  <1> QED
    BY <1>2, <1>3, <1>4 DEF Good

\* A journal that is new.
LEMMA NewJournalIs ==
  ASSUME NEW x \in DB, Sound(x), x.entries = <<>>, x.dirties = [a \in Addr |-> 0], x.revisions = <<>>,
         \A a \in Addr : a \notin x.dirtyObjs => Visible(x, a) = FromTrie(x.trie, a)
  PROVE  Open(x)
  <1> DEFINE h == [n \in {0} |-> View(x)]
  <1>1. Len(x.entries) = 0 /\ Len(x.revisions) = 0 /\ 1 .. 0 = {} /\ 0 .. 0 = {0}
    OBVIOUS
  <1>2. h[0] = View(x)
    OBVIOUS
  <1> HIDE DEF h
  <1>3. EntriesOK(x) /\ Chain(x.entries, h)
    BY <1>1 DEF EntriesOK, Chain
  <1>4. Counts(x)
    <2>1. \A a : DirtyAt(x.entries, a) = {}
      BY DEF DirtyAt
    <2>2. \A a : Cardinality(DirtyAt(x.entries, a)) = 0
      BY <2>1, FS_EmptySet
    <2> QED
      BY <2>2 DEF Counts
  <1>5. Clean(x.entries, h, x.trie, x.dirtyObjs)
    <2> SUFFICES ASSUME NEW n \in 0 .. Len(x.entries), NEW a \in Addr \ x.dirtyObjs
                 PROVE  h[n].accounts[a] = FromTrie(x.trie, a)
      BY DEF Clean
    <2>1. n = 0
      BY <1>1
    <2> QED
      BY <1>2, <2>1, AccountOfView
  <1>6. Journal(x, h)
    BY <1>1, <1>2, <1>3, <1>4, <1>5 DEF Journal
  <1>7. Settled(x, Nobody) /\ RevisionsOK(x)
    BY <1>1 DEF Settled, Resets, RevisionsOK
  <1> QED
    BY <1>6, <1>7 DEF Open

-----------------------------------------------------------------------------
(* New, Reset and Copy                                                     *)

LEMMA EmptyIs ==
  <<>> \in Objs /\ DOMAIN <<>> = {} /\ <<>> \in Seq(Nat) /\ <<>> \in Seq(Entry) /\ <<>> \in Seq([id : Nat, index : Nat])
  <1>1. <<>> \in [{} -> Obj] /\ DOMAIN <<>> = {}
    OBVIOUS
  <1>2. <<>> \in Seq(Nat) /\ <<>> \in Seq(Entry) /\ <<>> \in Seq([id : Nat, index : Nat])
    OBVIOUS
  <1>3. {} \in SUBSET Addr
    OBVIOUS
  <1> QED
    BY <1>1, <1>2, <1>3 DEF Objs

\* A StateDB with no journal on this trie.
Fresh(trie, objs, dirtyObjs, refund, logs, preimages, nextId) ==
  [trie |-> trie, objs |-> objs, dirtyObjs |-> dirtyObjs, refund |-> refund, logs |-> logs, preimages |-> preimages,
   entries |-> <<>>, dirties |-> [a \in Addr |-> 0], revisions |-> <<>>, nextId |-> nextId]

LEMMA FreshIs ==
  ASSUME NEW t \in World, NEW f \in Objs, NEW D \in SUBSET Addr, NEW r \in Nat, NEW l \in Seq(Nat),
         NEW p \in SUBSET Nat, NEW n \in Nat, NEW x, x = Fresh(t, f, D, r, l, p, n)
  PROVE  /\ x \in DB /\ x.trie = t /\ x.objs = f /\ x.dirtyObjs = D /\ x.refund = r /\ x.logs = l
         /\ x.preimages = p /\ x.entries = <<>> /\ x.dirties = [a \in Addr |-> 0] /\ x.revisions = <<>>
         /\ x.nextId = n
  <1>1. [a \in Addr |-> 0] \in [Addr -> Int]
    OBVIOUS
  <1> QED
    BY <1>1, EmptyIs DEF Fresh, DB

LEMMA FreshIsOpen ==
  ASSUME NEW t \in World, NEW f \in Objs, NEW r \in Nat, NEW l \in Seq(Nat), NEW p \in SUBSET Nat, NEW n \in Nat,
         \A a \in DOMAIN f : Coherent(f[a]) /\ ~ f[a].deleted,
         NEW x, x = Fresh(t, f, DOMAIN f, r, l, p, n)
  PROVE  Open(x) /\ x.revisions = <<>> /\ x.nextId = n
  <1>1. DOMAIN f \in SUBSET Addr
    BY ObjsIs
  <1>2. /\ x \in DB /\ x.trie = t /\ x.objs = f /\ x.dirtyObjs = DOMAIN f /\ x.entries = <<>>
        /\ x.dirties = [a \in Addr |-> 0] /\ x.revisions = <<>> /\ x.nextId = n
    BY <1>1, FreshIs
  <1>3. Sound(x)
    BY <1>2 DEF Sound
  <1>4. ASSUME NEW a \in Addr, a \notin x.dirtyObjs
        PROVE  Visible(x, a) = FromTrie(x.trie, a)
    BY <1>2, <1>4 DEF Visible, Has, InTrie, Object, FromTrie
  <1> QED
    BY <1>2, <1>3, <1>4, NewJournalIs

LEMMA EmptyIsOpen ==
  ASSUME NEW t \in World, NEW n \in Nat, NEW x, x = Fresh(t, <<>>, {}, 0, <<>>, {}, n)
  PROVE  Open(x) /\ x.revisions = <<>> /\ x.nextId = n
  <1> DEFINE f == <<>>
             l == <<>>
             p == {}
  <1>1. f \in Objs /\ DOMAIN f = {} /\ l \in Seq(Nat) /\ p \in SUBSET Nat /\ 0 \in Nat
    BY EmptyIs
  <1>2. x = Fresh(t, f, {}, 0, l, p, n)
    OBVIOUS
  <1> HIDE DEF f, l, p
  <1>3. x = Fresh(t, f, DOMAIN f, 0, l, p, n) /\ \A a \in DOMAIN f : Coherent(f[a]) /\ ~ f[a].deleted
    BY <1>1, <1>2
  <1> QED
    BY <1>1, <1>3, FreshIsOpen

LEMMA NewIs ==
  ASSUME NEW t \in World, NEW x, x = New(t)
  PROVE  Open(x) /\ x.revisions = <<>> /\ x.nextId = 0
  <1>1. x = Fresh(t, <<>>, {}, 0, <<>>, {}, 0) /\ 0 \in Nat
    BY DEF New, Fresh
  <1> QED
    BY <1>1, EmptyIsOpen

LEMMA ResetDBIs ==
  ASSUME NEW d \in DB, NEW x, x = Reset(d)
  PROVE  Open(x) /\ x.revisions = <<>> /\ x.nextId = d.nextId
  <1> DEFINE t == d.trie
             n == d.nextId
  <1>1. t \in World /\ n \in Nat
    BY DBIs
  <1>2. x = Fresh(t, <<>>, {}, 0, <<>>, {}, n)
    BY DEF New, Fresh, Reset
  <1> HIDE DEF t, n
  <1>3. Open(x) /\ x.revisions = <<>> /\ x.nextId = n
    BY <1>1, <1>2, EmptyIsOpen
  <1> QED
    BY <1>3 DEF n

LEMMA DeepCopyIs ==
  ASSUME NEW o \in Obj, ~ o.deleted
  PROVE  deepCopy(o) \in Obj /\ Coherent(deepCopy(o)) /\ ~ deepCopy(o).deleted
  <1> DEFINE c == AccountOf(o)
             q == newStateObject(c)
             s == o.suicided
             l == o.deleted
             u == [q EXCEPT !.dirty = o.dirty, !.cached = o.dirty, !.suicided = s, !.deleted = l]
  <1>1. o.dirty \in Slots /\ s \in BOOLEAN /\ l \in BOOLEAN
    BY ObjIs
  <1>2. c \in Account
    BY ObjIs DEF AccountOf, Account, Value
  <1> HIDE DEF c
  <1>3. q \in Obj
    BY <1>2, NewObjectIs
  <1>4. deepCopy(o) = u
    BY Zenon DEF deepCopy, c
  <1>5. ~ l
    OBVIOUS
  <1> HIDE DEF q, s, l
  <1>6. u \in Obj /\ u.dirty = o.dirty /\ u.cached = o.dirty /\ u.deleted = l
    BY <1>1, <1>3 DEF Obj
  <1> HIDE DEF u
  <1>7. Coherent(u)
    BY <1>6 DEF Coherent
  <1> QED
    BY <1>4, <1>5, <1>6, <1>7

LEMMA CopyIs ==
  ASSUME NEW d, Open(d), Dirties(d) \subseteq DOMAIN d.objs, NEW x, x = Copy(d)
  PROVE  Open(x) /\ x.revisions = <<>> /\ x.nextId = 0
  <1> DEFINE S == Dirties(d) \cup d.dirtyObjs
             f == [a \in S |-> deepCopy(d.objs[a])]
             t == d.trie
             r == d.refund
             l == d.logs
             p == d.preimages
  <1>1. d \in DB /\ Sound(d)
    BY LenIs DEF Open
  <1>2. S \subseteq DOMAIN d.objs
    BY <1>1 DEF Sound
  <1>3. t \in World /\ r \in Nat /\ l \in Seq(Nat) /\ p \in SUBSET Nat /\ d.objs \in Objs /\ 0 \in Nat
    BY <1>1, DBIs
  <1>4. x = Fresh(t, f, S, r, l, p, 0)
    BY DEF Copy, New, Fresh
  <1> HIDE DEF S, t, r, l, p
  <1>5. ASSUME NEW a \in S
        PROVE  f[a] \in Obj /\ Coherent(f[a]) /\ ~ f[a].deleted
    <2>1. d.objs[a] \in Obj /\ ~ d.objs[a].deleted
      BY <1>1, <1>2, <1>3, ObjsIs DEF Sound
    <2> QED
      BY <2>1, DeepCopyIs
  <1>6. DOMAIN f = S /\ f \in [S -> Obj] /\ S \in SUBSET Addr
    BY <1>2, <1>3, <1>5, ObjsIs
  <1>7. f \in Objs
    BY <1>6 DEF Objs
  <1> HIDE DEF f
  <1> QED
    BY <1>3, <1>4, <1>5, <1>6, <1>7, FreshIsOpen

-----------------------------------------------------------------------------
(* Finalise and Commit                                                     *)

\* Flushing the dirty slots changes no answer.
LEMMA FlushIs ==
  ASSUME NEW o \in Obj, Coherent(o), NEW u, u = updateTrie(o)
  PROVE  /\ u \in Obj /\ Coherent(u) /\ u.bal = o.bal /\ u.nonce = o.nonce /\ u.code = o.code
         /\ u.suicided = o.suicided /\ u.deleted = o.deleted
         /\ \A k \in Key : u.root[k] = ObjGetState(o, k) /\ ObjGetState(u, k) = ObjGetState(o, k)
  <1> DEFINE r == [k \in Key |-> IF k \in DOMAIN o.dirty THEN o.dirty[k] ELSE o.root[k]]
             z == <<>>
  <1>1. u = [o EXCEPT !.root = r, !.dirty = z]
    BY DEF updateTrie
  <1>2. r \in [Key -> Value]
    BY ObjIs, SlotsIs
  <1>3. z \in Slots /\ DOMAIN z = {}
    BY EmptySlots
  <1>4. \A k \in Key : r[k] = IF k \in DOMAIN o.dirty THEN o.dirty[k] ELSE o.root[k]
    OBVIOUS
  <1> HIDE DEF r, z
  <1>5. /\ u \in Obj /\ u.root = r /\ u.dirty = z /\ u.cached = o.cached /\ u.bal = o.bal /\ u.nonce = o.nonce
        /\ u.code = o.code /\ u.suicided = o.suicided /\ u.deleted = o.deleted
    BY <1>1, <1>2, <1>3 DEF Obj
  <1>6. DOMAIN o.cached \in SUBSET Key
    BY ObjIs, SlotsIs
  <1>7. Coherent(u)
    BY <1>3, <1>4, <1>5, <1>6 DEF Coherent
  <1>8. \A k \in Key : u.root[k] = ObjGetState(o, k)
    BY <1>4, <1>5 DEF Coherent, ObjGetState
  <1>9. \A k \in Key : ObjGetState(u, k) = ObjGetState(o, k)
    BY <1>5, <1>8 DEF ObjGetState
  <1> QED
    BY <1>5, <1>7, <1>8, <1>9

LEMMA DeleteIs ==
  ASSUME NEW o \in Obj
  PROVE  /\ deleteStateObject(o) \in Obj /\ deleteStateObject(o).deleted
         /\ Coherent(o) => Coherent(deleteStateObject(o))
         /\ deleteStateObject(o).suicided = o.suicided
         /\ empty(deleteStateObject(o)) <=> empty(o)
  <1> DEFINE yes == TRUE
             u == [o EXCEPT !.deleted = yes]
  <1>1. yes \in BOOLEAN
    OBVIOUS
  <1>2. deleteStateObject(o) = u
    BY Zenon DEF deleteStateObject
  <1>3. yes
    OBVIOUS
  <1> HIDE DEF yes
  <1>4. /\ u \in Obj /\ u.deleted = yes /\ u.suicided = o.suicided /\ u.cached = o.cached /\ u.dirty = o.dirty
        /\ u.root = o.root /\ u.bal = o.bal /\ u.nonce = o.nonce /\ u.code = o.code
    BY <1>1 DEF Obj
  <1> HIDE DEF u
  <1>5. Coherent(o) => Coherent(u)
    BY <1>4, SameSlots
  <1>6. empty(u) <=> empty(o)
    BY <1>4 DEF empty
  <1> QED
    BY <1>2, <1>3, <1>4, <1>5, <1>6

LEMMA UpdateIs ==
  ASSUME NEW o \in Obj, Coherent(o), NEW c, c = updateStateObject(o)
  PROVE  /\ c \in Account /\ c.bal = o.bal /\ c.code = o.code
         /\ \A k \in Key : c.root[k] = ObjGetState(o, k)
  <1> DEFINE u == updateTrie(o)
  <1>1. /\ u \in Obj /\ u.bal = o.bal /\ u.nonce = o.nonce /\ u.code = o.code
        /\ \A k \in Key : u.root[k] = ObjGetState(o, k)
    BY FlushIs
  <1>2. c = AccountOf(u)
    BY DEF updateStateObject
  <1> HIDE DEF u
  <1>3. c.bal = u.bal /\ c.code = u.code /\ c.root = u.root
    BY <1>2 DEF AccountOf
  <1>4. c \in Account
    BY <1>1, <1>2, ObjIs DEF AccountOf, Account, Value
  <1> QED
    BY <1>1, <1>3, <1>4

\* x is d with the objects "dirty" written to the trie and those "gone" deleted.
Written(d, dirty, gone, D, x) ==
  /\ x \in DB /\ x.dirtyObjs = D /\ x.entries = <<>> /\ x.revisions = <<>> /\ x.dirties = [a \in Addr |-> 0]
  /\ x.nextId = d.nextId
  /\ DOMAIN x.objs = DOMAIN d.objs
  /\ \A a \in DOMAIN d.objs :
       x.objs[a] = IF a \in gone THEN deleteStateObject(d.objs[a])
                   ELSE IF a \in dirty THEN updateTrie(d.objs[a]) ELSE d.objs[a]
  /\ DOMAIN x.trie = (DOMAIN d.trie \cup dirty) \ gone
  /\ \A a \in DOMAIN x.trie : x.trie[a] = IF a \in dirty THEN updateStateObject(d.objs[a]) ELSE d.trie[a]

LEMMA WrittenIs ==
  ASSUME NEW d, Good(d), NEW dirty, dirty \subseteq DOMAIN d.objs, NEW gone, gone \subseteq DOMAIN d.objs,
         NEW D \in SUBSET Addr,
         NEW x, x = clearJournalAndRefund([WriteBack(d, dirty, gone) EXCEPT !.dirtyObjs = D])
  PROVE  Written(d, dirty, gone, D, x)
  <1> DEFINE f == [a \in DOMAIN d.objs |-> IF a \in gone THEN deleteStateObject(d.objs[a])
                                           ELSE IF a \in dirty THEN updateTrie(d.objs[a]) ELSE d.objs[a]]
             t == [a \in (DOMAIN d.trie \cup dirty) \ gone |->
                     IF a \in dirty THEN updateStateObject(d.objs[a]) ELSE d.trie[a]]
             z == [a \in Addr |-> 0]
             y == [[d EXCEPT !.objs = f, !.trie = t] EXCEPT !.dirtyObjs = D]
  <1>1. d \in DB /\ d.objs \in Objs /\ d.trie \in World
    BY DBIs DEF Good
  <1>2. x = clearJournalAndRefund(y)
    BY DEF WriteBack
  <1>3. ASSUME NEW a \in DOMAIN d.objs
        PROVE  f[a] \in Obj
    <2>1. d.objs[a] \in Obj /\ Coherent(d.objs[a])
      BY <1>1, ObjsIs DEF Good
    <2>2. deleteStateObject(d.objs[a]) \in Obj /\ updateTrie(d.objs[a]) \in Obj
      BY <2>1, DeleteIs, FlushIs
    <2> QED
      BY <2>1, <2>2
  <1>4. f \in Objs
    <2>1. f \in [DOMAIN d.objs -> Obj] /\ DOMAIN d.objs \in SUBSET Addr
      BY <1>1, <1>3, ObjsIs
    <2> QED
      BY <2>1 DEF Objs
  <1>5. t \in World
    <2> DEFINE T == (DOMAIN d.trie \cup dirty) \ gone
    <2>1. T \in SUBSET Addr
      BY <1>1, ObjsIs, WorldIs
    <2>2. ASSUME NEW a \in T
          PROVE  t[a] \in Account
      <3>1. CASE a \in dirty
        <4>1. d.objs[a] \in Obj /\ Coherent(d.objs[a])
          BY <1>1, <3>1, ObjsIs DEF Good
        <4> QED
          BY <3>1, <4>1, UpdateIs
      <3>2. CASE a \notin dirty
        BY <1>1, <3>2, WorldIs
      <3> QED
        BY <3>1, <3>2
    <2>3. t \in [T -> Account]
      BY <2>2
    <2> HIDE DEF T
    <2> QED
      BY <2>1, <2>3 DEF World
  <1>6. /\ DOMAIN f = DOMAIN d.objs
        /\ \A a \in DOMAIN d.objs :
             f[a] = IF a \in gone THEN deleteStateObject(d.objs[a])
                    ELSE IF a \in dirty THEN updateTrie(d.objs[a]) ELSE d.objs[a]
        /\ DOMAIN t = (DOMAIN d.trie \cup dirty) \ gone
        /\ \A a \in DOMAIN t : t[a] = IF a \in dirty THEN updateStateObject(d.objs[a]) ELSE d.trie[a]
    OBVIOUS
  <1>7. z \in [Addr -> Int]
    OBVIOUS
  <1> HIDE DEF f, t
  <1>8. y \in DB /\ y.objs = f /\ y.trie = t /\ y.dirtyObjs = D /\ y.nextId = d.nextId
    BY <1>1, <1>4, <1>5 DEF DB
  <1>9. x = [[y EXCEPT !.entries = <<>>, !.dirties = z] EXCEPT !.revisions = <<>>, !.refund = 0]
    BY <1>2 DEF clearJournalAndRefund, newJournal
  <1> DEFINE e0 == <<>>
             r0 == <<>>
  <1>10. e0 \in Seq(Entry) /\ r0 \in Seq([id : Nat, index : Nat])
    BY EmptyIs
  <1>11. x = [[y EXCEPT !.entries = e0, !.dirties = z] EXCEPT !.revisions = r0, !.refund = 0]
    BY <1>9
  <1> HIDE DEF y, e0, r0
  <1>12. /\ x \in DB /\ x.objs = y.objs /\ x.trie = y.trie /\ x.dirtyObjs = y.dirtyObjs /\ x.entries = e0
         /\ x.revisions = r0 /\ x.dirties = z /\ x.nextId = y.nextId
    <2> DEFINE w == [y EXCEPT !.entries = e0, !.dirties = z]
    <2>1. /\ w \in DB /\ w.objs = y.objs /\ w.trie = y.trie /\ w.dirtyObjs = y.dirtyObjs /\ w.entries = e0
          /\ w.dirties = z /\ w.nextId = y.nextId
      BY <1>7, <1>8, <1>10 DEF DB, z
    <2>2. x = [w EXCEPT !.revisions = r0, !.refund = 0]
      BY <1>11
    <2> HIDE DEF w, z
    <2>3. r0 \in Seq([id : Nat, index : Nat]) /\ 0 \in Nat
      BY <1>10
    <2>4. /\ x.objs = w.objs /\ x.trie = w.trie /\ x.dirtyObjs = w.dirtyObjs /\ x.entries = w.entries
          /\ x.dirties = w.dirties /\ x.nextId = w.nextId /\ x.revisions = r0
      BY <2>1, <2>2 DEF DB
    <2>5. x \in DB
      BY <2>1, <2>2, <2>3 DEF DB
    <2> QED
      BY <2>1, <2>4, <2>5
  <1> QED
    BY <1>6, <1>8, <1>12 DEF Written, e0, r0, z

LEMMA WrittenIsClosed ==
  ASSUME NEW d, Good(d), NEW S, S \subseteq DOMAIN d.objs, NEW gone, gone \subseteq DOMAIN d.objs,
         NEW D, NEW x, Written(d, S, gone, D, x),
         \A a \in gone : d.objs[a].suicided \/ empty(d.objs[a]),
         \A a \in DOMAIN d.objs \ (S \cup gone) : a \in D \/ a \notin Dirties(d) \cup d.dirtyObjs
  PROVE  Closed(x)
  <1>1. d.objs \in Objs /\ d.trie \in World
    BY DBIs DEF Good
  <1>2. \A a \in DOMAIN d.objs : d.objs[a] \in Obj /\ Coherent(d.objs[a])
    BY <1>1, ObjsIs DEF Good
  <1>3. ASSUME NEW a \in DOMAIN x.objs
        PROVE  Coherent(x.objs[a]) /\ (x.objs[a].deleted => x.objs[a].suicided \/ empty(x.objs[a]))
    <2> DEFINE o == d.objs[a]
    <2>1. a \in DOMAIN d.objs /\ o \in Obj /\ Coherent(o) /\ (o.deleted => o.suicided \/ empty(o))
      BY <1>2, <1>3 DEF Written, Good
    <2>2. CASE a \in gone
      <3>1. x.objs[a] = deleteStateObject(o) /\ (o.suicided \/ empty(o))
        BY <2>1, <2>2 DEF Written
      <3> HIDE DEF o
      <3> QED
        BY <2>1, <3>1, DeleteIs
    <2>3. CASE a \notin gone /\ a \in S
      <3>1. x.objs[a] = updateTrie(o)
        BY <2>1, <2>3 DEF Written
      <3> HIDE DEF o
      <3> QED
        BY <2>1, <3>1, FlushIs DEF empty
    <2>4. CASE a \notin gone /\ a \notin S
      <3>1. x.objs[a] = o
        BY <2>1, <2>4 DEF Written
      <3> HIDE DEF o
      <3> QED
        BY <2>1, <3>1
    <2> QED
      BY <2>2, <2>3, <2>4
  <1>4. CleanOf(x)
    <2> SUFFICES ASSUME NEW a \in DOMAIN x.objs, a \notin D
                 PROVE  LET o == x.objs[a]
                        IN  \/ o.deleted /\ a \notin DOMAIN x.trie
                            \/ /\ a \in DOMAIN x.trie /\ o.bal = x.trie[a].bal /\ o.code = x.trie[a].code
                               /\ \A k \in Key : ObjGetState(o, k) = x.trie[a].root[k]
      BY DEF CleanOf, Written
    <2> DEFINE o == d.objs[a]
    <2>1. a \in DOMAIN d.objs /\ o \in Obj /\ Coherent(o)
      BY <1>2 DEF Written
    <2>2. CASE a \in gone
      <3>1. x.objs[a] = deleteStateObject(o) /\ a \notin DOMAIN x.trie
        BY <2>1, <2>2 DEF Written
      <3> HIDE DEF o
      <3> QED
        BY <2>1, <3>1, DeleteIs
    <2>3. CASE a \notin gone /\ a \in S
      <3>1. x.objs[a] = updateTrie(o) /\ a \in DOMAIN x.trie
        BY <2>1, <2>3 DEF Written
      <3>2. x.trie[a] = updateStateObject(o)
        BY <2>3, <3>1 DEF Written
      <3> DEFINE u == x.objs[a]
                 c == x.trie[a]
      <3> HIDE DEF o
      <3>3. u.bal = o.bal /\ u.code = o.code /\ \A k \in Key : ObjGetState(u, k) = ObjGetState(o, k)
        BY <2>1, <3>1, FlushIs
      <3>4. c.bal = o.bal /\ c.code = o.code /\ \A k \in Key : c.root[k] = ObjGetState(o, k)
        BY <2>1, <3>2, UpdateIs
      <3> QED
        BY <3>1, <3>3, <3>4
    <2>4. CASE a \notin gone /\ a \notin S
      <3>1. x.objs[a] = o
        BY <2>1, <2>4 DEF Written
      <3>2. a \notin Dirties(d) \cup d.dirtyObjs
        BY <2>1, <2>4
      <3>3. \/ o.deleted /\ a \notin DOMAIN d.trie
            \/ /\ a \in DOMAIN d.trie /\ o.bal = d.trie[a].bal /\ o.code = d.trie[a].code
               /\ \A k \in Key : ObjGetState(o, k) = d.trie[a].root[k]
        BY <2>1, <3>2 DEF Good, CleanOf
      <3>4. a \in DOMAIN x.trie <=> a \in DOMAIN d.trie
        BY <2>4 DEF Written
      <3>5. a \in DOMAIN d.trie => x.trie[a] = d.trie[a]
        BY <2>4, <3>4 DEF Written
      <3> HIDE DEF o
      <3> QED
        BY <3>1, <3>3, <3>4, <3>5
    <2> QED
      BY <2>2, <2>3, <2>4
  <1> QED
    BY <1>3, <1>4 DEF Closed, Good, Written

LEMMA FinaliseIs ==
  ASSUME NEW d, Open(d), NEW x, x = Finalise(d, TRUE)
  PROVE  Closed(x) /\ x.revisions = <<>> /\ x.nextId = d.nextId
  <1> DEFINE S == Dirties(d) \cap DOMAIN d.objs
             gone == {a \in S : d.objs[a].suicided \/ (TRUE /\ empty(d.objs[a]))}
             D == d.dirtyObjs \cup S
  <1>1. Good(d) /\ d \in DB
    BY OpenIsGood DEF Good
  <1>2. x = clearJournalAndRefund([WriteBack(d, S, gone) EXCEPT !.dirtyObjs = D])
    BY DEF Finalise
  <1>3. S \subseteq DOMAIN d.objs /\ gone \subseteq DOMAIN d.objs
    OBVIOUS
  <1>4. D \in SUBSET Addr
    BY <1>1, DBIs, ObjsIs
  <1>5. /\ \A a \in gone : d.objs[a].suicided \/ empty(d.objs[a])
        /\ \A a \in DOMAIN d.objs \ (S \cup gone) : a \in D \/ a \notin Dirties(d) \cup d.dirtyObjs
    OBVIOUS
  <1> HIDE DEF S, gone, D
  <1>6. Written(d, S, gone, D, x)
    BY <1>1, <1>2, <1>3, <1>4, WrittenIs
  <1>7. Closed(x)
    BY <1>1, <1>3, <1>5, <1>6, WrittenIsClosed
  <1> QED
    BY <1>6, <1>7 DEF Written

\* Commit writes the answers of the accounts it keeps.
LEMMA CommitIs ==
  ASSUME NEW d, Good(d), NEW x, x = Commit(d, FALSE)
  PROVE  /\ Closed(x) /\ x.revisions = <<>> /\ x.nextId = d.nextId
         /\ \A a \in Addr : \/ TrieOf(x, a) = Kept(d, a)
                            \/ a \in DOMAIN d.objs /\ d.objs[a].deleted /\ empty(d.objs[a])
  <1> DEFINE isDirty == d.dirtyObjs \cup Dirties(d)
             S == isDirty \cap DOMAIN d.objs
             gone == {a \in DOMAIN d.objs :
                        d.objs[a].suicided \/ (a \in isDirty /\ FALSE /\ empty(d.objs[a]))}
             D == isDirty \ DOMAIN d.objs
  <1>1. d \in DB /\ d.objs \in Objs /\ d.trie \in World
    BY DBIs DEF Good
  <1>2. x = clearJournalAndRefund([WriteBack(d, S, gone) EXCEPT !.dirtyObjs = D])
    BY DEF Commit
  <1>3. S \subseteq DOMAIN d.objs /\ gone \subseteq DOMAIN d.objs
    OBVIOUS
  <1>4. D \in SUBSET Addr
    BY <1>1, DBIs DEF Dirties
  <1>5. /\ \A a \in gone : d.objs[a].suicided \/ empty(d.objs[a])
        /\ \A a \in DOMAIN d.objs \ (S \cup gone) : a \in D \/ a \notin Dirties(d) \cup d.dirtyObjs
    OBVIOUS
  <1>6. /\ \A a \in DOMAIN d.objs : a \in gone <=> d.objs[a].suicided
        /\ \A a \in DOMAIN d.objs : a \notin S => a \notin Dirties(d) \cup d.dirtyObjs
    OBVIOUS
  <1> HIDE DEF S, gone, D
  <1>7. Written(d, S, gone, D, x)
    BY <1>2, <1>3, <1>4, WrittenIs
  <1>8. Closed(x)
    BY <1>3, <1>5, <1>7, WrittenIsClosed
  <1>9. ASSUME NEW a \in Addr, ~ (a \in DOMAIN d.objs /\ d.objs[a].deleted /\ empty(d.objs[a]))
        PROVE  TrieOf(x, a) = Kept(d, a)
    <2>1. CASE a \in DOMAIN d.objs /\ d.objs[a].suicided
      <3>1. TrieOf(x, a) = {}
        BY <1>6, <1>7, <2>1 DEF Written, TrieOf
      <3>2. \A w \in Visible(d, a) : w.suicided
        BY <2>1 DEF Visible, Object, Answers
      <3>3. Kept(d, a) = {}
        BY <3>2 DEF Kept
      <3> QED
        BY <3>1, <3>3
    <2>2. CASE a \in DOMAIN d.objs /\ ~ d.objs[a].suicided
      <3> DEFINE o == d.objs[a]
                 c == x.trie[a]
      <3>1. o \in Obj /\ Coherent(o) /\ ~ o.deleted
        BY <1>1, <1>9, <2>2, ObjsIs DEF Good
      <3>2. Visible(d, a) = {Answers(o)}
        BY <2>2, <3>1 DEF Visible, Has, Object
      <3>3. a \in DOMAIN x.trie /\ c \in Account /\ c.bal = o.bal /\ c.code = o.code
            /\ \A k \in Key : c.root[k] = ObjGetState(o, k)
        <4>1. a \notin gone
          BY <1>6, <2>2
        <4>2. CASE a \in S
          <5>1. a \in DOMAIN x.trie
            BY <1>7, <4>1, <4>2 DEF Written
          <5>2. c = updateStateObject(o)
            BY <1>7, <4>2, <5>1 DEF Written
          <5> HIDE DEF o, c
          <5> QED
            BY <3>1, <5>1, <5>2, UpdateIs
        <4>3. CASE a \notin S
          <5>1. a \notin Dirties(d) \cup d.dirtyObjs
            BY <1>6, <2>2, <4>3
          <5>2. /\ a \in DOMAIN d.trie /\ o.bal = d.trie[a].bal /\ o.code = d.trie[a].code
                /\ \A k \in Key : ObjGetState(o, k) = d.trie[a].root[k]
            BY <2>2, <3>1, <5>1 DEF Good, CleanOf
          <5>3. a \in DOMAIN x.trie
            BY <1>7, <4>1, <5>2 DEF Written
          <5>4. c = d.trie[a]
            BY <1>7, <4>3, <5>3 DEF Written
          <5>5. d.trie[a] \in Account
            BY <1>1, <5>2, WorldIs
          <5> HIDE DEF o, c
          <5> QED
            BY <5>2, <5>3, <5>4, <5>5
        <4> QED
          BY <4>2, <4>3
      <3>4. ~ o.suicided
        BY <2>2
      <3> HIDE DEF o
      <3>5. Kept(d, a) = {[bal |-> o.bal, nonce |-> 0, code |-> o.code, root |-> Answers(o).store]}
        <4>1. ~ Answers(o).suicided /\ Answers(o).bal = o.bal /\ Answers(o).code = o.code
          BY <3>4 DEF Answers
        <4>2. {w \in Visible(d, a) : ~ w.suicided} = {Answers(o)}
          BY <3>2, <4>1
        <4> QED
          BY <4>1, <4>2 DEF Kept
      <3>6. Answers(o).store = [k \in Key |-> ObjGetState(o, k)]
        BY DEF Answers
      <3> HIDE DEF c
      <3>7. c.root = [k \in Key |-> ObjGetState(o, k)]
        BY <3>3, AccountIs
      <3>8. [c EXCEPT !.nonce = 0] = [bal |-> c.bal, nonce |-> 0, code |-> c.code, root |-> c.root]
        BY <3>3 DEF Account
      <3>9. TrieOf(x, a) = {[c EXCEPT !.nonce = 0]}
        BY <3>3 DEF TrieOf, c
      <3> QED
        BY <3>3, <3>5, <3>6, <3>7, <3>8, <3>9
    <2>3. CASE a \notin DOMAIN d.objs /\ a \notin DOMAIN d.trie
      <3>1. TrieOf(x, a) = {}
        BY <1>3, <1>7, <2>3 DEF Written, TrieOf
      <3>2. Visible(d, a) = {}
        BY <2>3 DEF Visible, Has, InTrie
      <3> QED
        BY <3>1, <3>2 DEF Kept
    <2>4. CASE a \notin DOMAIN d.objs /\ a \in DOMAIN d.trie
      <3> DEFINE c == d.trie[a]
                 o == newStateObject(c)
      <3>1. c \in Account
        BY <1>1, <2>4, WorldIs
      <3>2. Visible(d, a) = {Answers(o)}
        BY <2>4 DEF Visible, Has, InTrie, Object
      <3>3. TrieOf(x, a) = {[c EXCEPT !.nonce = 0]}
        <4>1. a \in DOMAIN x.trie
          BY <1>3, <1>7, <2>4 DEF Written
        <4>2. x.trie[a] = c
          BY <1>3, <1>7, <2>4, <4>1 DEF Written
        <4> HIDE DEF c
        <4> QED
          BY <4>1, <4>2 DEF TrieOf
      <3> HIDE DEF c
      <3>4. /\ ~ o.suicided /\ o.bal = c.bal /\ o.code = c.code
            /\ \A k \in Key : ObjGetState(o, k) = c.root[k]
        BY <3>1, NewObjectIs, NewIsCoherent
      <3> HIDE DEF o
      <3>5. Kept(d, a) = {[bal |-> o.bal, nonce |-> 0, code |-> o.code, root |-> Answers(o).store]}
        <4>1. ~ Answers(o).suicided /\ Answers(o).bal = o.bal /\ Answers(o).code = o.code
          BY <3>4 DEF Answers
        <4>2. {w \in Visible(d, a) : ~ w.suicided} = {Answers(o)}
          BY <3>2, <4>1
        <4> QED
          BY <4>1, <4>2 DEF Kept
      <3>6. Answers(o).store = [k \in Key |-> ObjGetState(o, k)]
        BY DEF Answers
      <3>7. c.root = [k \in Key |-> ObjGetState(o, k)]
        BY <3>1, <3>4, AccountIs
      <3>8. [c EXCEPT !.nonce = 0] = [bal |-> c.bal, nonce |-> 0, code |-> c.code, root |-> c.root]
        BY <3>1 DEF Account
      <3> QED
        BY <3>3, <3>4, <3>5, <3>6, <3>7, <3>8
    <2> QED
      BY <2>1, <2>2, <2>3, <2>4
  <1> QED
    BY <1>7, <1>8, <1>9 DEF Written

-----------------------------------------------------------------------------
(* Steps                                                                   *)

Snap(d, i) == [id |-> d.revisions[i].id, copy |-> View(revert(d, d.revisions[i].index))]

\* The stack of copies that a StateDB stands for.
Snaps(d) == [i \in DOMAIN d.revisions |-> Snap(d, i)]

LEMMA OpenIs ==
  ASSUME NEW d, Open(d)
  PROVE  /\ d \in DB /\ d.revisions \in Seq([id : Nat, index : Nat]) /\ DOMAIN d.revisions = 1 .. Len(d.revisions)
         /\ Len(d.revisions) \in Nat /\ Len(d.entries) \in Nat /\ d.nextId \in Nat
  <1>1. d \in DB /\ Len(d.entries) \in Nat
    BY LenIs DEF Open
  <1>2. d.revisions \in Seq([id : Nat, index : Nat]) /\ d.nextId \in Nat
    BY <1>1, DBIs
  <1> QED
    BY <1>1, <1>2

LEMMA SnapIs ==
  ASSUME NEW d, NEW h, Journal(d, h), RevisionsOK(d), NEW i \in 1 .. Len(d.revisions)
  PROVE  /\ d.revisions[i].index \in 0 .. Len(d.entries)
         /\ Snap(d, i) = [id |-> d.revisions[i].id, copy |-> h[d.revisions[i].index]]
  <1>1. d.revisions[i].index \in 0 .. Len(d.entries)
    BY DEF RevisionsOK
  <1>2. View(revert(d, d.revisions[i].index)) = h[d.revisions[i].index]
    BY <1>1, RevertIs
  <1> QED
    BY <1>1, <1>2 DEF Snap

\* A setter keeps the copies.
LEMMA SetterStep ==
  ASSUME NEW d, Open(d), NEW x, \A h : Journal(d, h) => Grows(d, h, x) /\ Settled(x, Nobody)
  PROVE  Open(x) /\ Snaps(x) = Snaps(d) /\ x.nextId = d.nextId
  <1>1. PICK h : Journal(d, h)
    BY DEF Open
  <1>2. PICK g : Grow(d, h, x, g)
    BY <1>1 DEF Grows
  <1>3. Journal(x, g) /\ x.revisions = d.revisions /\ x.nextId = d.nextId
    BY <1>2 DEF Grow, Frame
  <1>4. Len(d.entries) \in Nat /\ Len(x.entries) \in Nat /\ Len(x.entries) >= Len(d.entries)
    BY <1>1, <1>2, <1>3, LenIs DEF Grow
  <1>5. RevisionsOK(x)
    <2> SUFFICES ASSUME NEW i \in 1 .. Len(d.revisions)
                 PROVE  /\ d.revisions[i].index \in 0 .. Len(x.entries)
                        /\ \A a \in Addr : ~ Resets(x.entries, d.revisions[i].index, a)
                        /\ \A j \in 1 .. i : d.revisions[j].index <= d.revisions[i].index
      BY <1>3 DEF RevisionsOK
    <2> DEFINE n == d.revisions[i].index
    <2>1. /\ n \in 0 .. Len(d.entries) /\ \A a \in Addr : ~ Resets(d.entries, n, a)
          /\ \A j \in 1 .. i : d.revisions[j].index <= n
      BY DEF Open, RevisionsOK
    <2> HIDE DEF n
    <2>2. n \in 0 .. Len(x.entries)
      BY <1>4, <2>1
    <2>3. \A a \in Addr : ~ Resets(x.entries, n, a)
      <3>1. n \in 1 .. Len(d.entries) => x.entries[n] = d.entries[n]
        BY <1>2 DEF Grow
      <3> QED
        BY <1>4, <2>1, <3>1 DEF Resets
    <2> QED
      BY <2>1, <2>2, <2>3 DEF n
  <1>6. Open(x)
    BY <1>1, <1>3, <1>5 DEF Open
  <1>7. ASSUME NEW i \in 1 .. Len(d.revisions)
        PROVE  Snap(x, i) = Snap(d, i)
    <2> DEFINE n == d.revisions[i].index
    <2>1. n \in 0 .. Len(d.entries) /\ Snap(d, i) = [id |-> d.revisions[i].id, copy |-> h[n]]
      BY <1>1, SnapIs DEF Open
    <2>2. Snap(x, i) = [id |-> x.revisions[i].id, copy |-> g[x.revisions[i].index]]
      BY <1>3, <1>5, SnapIs
    <2>3. g[n] = h[n]
      BY <1>2, <2>1 DEF Grow
    <2> QED
      BY <1>3, <2>1, <2>2, <2>3
  <1>8. Snaps(x) = Snaps(d)
    BY <1>3, <1>7, OpenIs DEF Snaps
  <1> QED
    BY <1>3, <1>6, <1>8

\* Only the revisions and the next id change.
LEMMA OtherRevisions ==
  ASSUME NEW d, NEW h, Journal(d, h), NEW x \in DB, x.objs = d.objs, x.trie = d.trie,
         x.dirtyObjs = d.dirtyObjs, x.refund = d.refund, x.logs = d.logs, x.preimages = d.preimages,
         x.entries = d.entries, x.dirties = d.dirties
  PROVE  Journal(x, h) /\ View(x) = View(d)
  <1>1. View(x) = View(d)
    BY SameView
  <1>2. Sound(x)
    BY DEF Journal, Sound
  <1>3. EntriesOK(x) /\ Counts(x)
    BY DEF Journal, EntriesOK, Counts
  <1> QED
    BY <1>1, <1>2, <1>3 DEF Journal

LEMMA UpTo ==
  ASSUME NEW N \in Nat, NEW i \in 1 .. N + 1
  PROVE  /\ i # N + 1 => i \in 1 .. N
         /\ \A j \in 1 .. i : j \in 1 .. N + 1 /\ (i # N + 1 => j \in 1 .. N)
  OBVIOUS

LEMMA BelowIs ==
  ASSUME NEW N \in Nat, NEW i \in 1 .. N
  PROVE  i \in 1 .. N + 1
  OBVIOUS

LEMMA IsAppend ==
  ASSUME NEW T, NEW s \in Seq(T), NEW w \in T, NEW t \in Seq(T), Len(t) = Len(s) + 1, t[Len(s) + 1] = w,
         \A i \in 1 .. Len(s) : t[i] = s[i]
  PROVE  t = Append(s, w)
  <1> DEFINE u == Append(s, w)
  <1>1. /\ u \in Seq(T) /\ Len(u) = Len(s) + 1 /\ u[Len(s) + 1] = w /\ Len(s) \in Nat
        /\ \A i \in 1 .. Len(s) : u[i] = s[i]
    BY AppendProperties
  <1> HIDE DEF u
  <1>2. \A i \in 1 .. Len(s) + 1 : i = Len(s) + 1 \/ i \in 1 .. Len(s)
    BY <1>1
  <1>3. \A i \in 1 .. Len(t) : t[i] = u[i]
    BY <1>1, <1>2
  <1>4. Len(t) = Len(u)
    BY <1>1
  <1>5. t = u
    BY <1>1, <1>3, <1>4, SeqEqual
  <1> QED
    BY <1>5 DEF u

LEMMA MapIsSeq ==
  ASSUME NEW N \in Nat, NEW s, NEW T, s \in [1 .. N -> T]
  PROVE  s \in Seq(T) /\ Len(s) = N
  OBVIOUS

LEMMA SnapshotStep ==
  ASSUME NEW d, Open(d), NEW x, x = Snapshot(d)
  PROVE  /\ Open(x) /\ x.nextId = d.nextId + 1 /\ View(x) = View(d)
         /\ Snaps(x) = Append(Snaps(d), [id |-> d.nextId, copy |-> View(d)])
  <1> DEFINE r == d.revisions
             N == Len(r)
             v == [id |-> d.nextId, index |-> Len(d.entries)]
             q == Append(r, v)
             m == d.nextId + 1
  <1>1. PICK h : Journal(d, h)
    BY DEF Open
  <1>2. /\ d \in DB /\ r \in Seq([id : Nat, index : Nat]) /\ N \in Nat /\ Len(d.entries) \in Nat
        /\ d.nextId \in Nat /\ DOMAIN r = 1 .. N
    BY OpenIs
  <1>3. v \in [id : Nat, index : Nat] /\ v.id = d.nextId /\ v.index = Len(d.entries)
    BY <1>2
  <1>4. x = [d EXCEPT !.revisions = q, !.nextId = m]
    BY DEF Snapshot
  <1> HIDE DEF v
  <1>5. /\ q \in Seq([id : Nat, index : Nat]) /\ Len(q) = N + 1 /\ q[N + 1] = v /\ \A i \in 1 .. N : q[i] = r[i]
        /\ DOMAIN q = 1 .. N + 1 /\ m \in Nat
    BY <1>2, <1>3
  <1> HIDE DEF q, m
  <1>6. /\ x \in DB /\ x.objs = d.objs /\ x.trie = d.trie /\ x.dirtyObjs = d.dirtyObjs /\ x.refund = d.refund
        /\ x.logs = d.logs /\ x.preimages = d.preimages /\ x.entries = d.entries /\ x.dirties = d.dirties
        /\ x.revisions = q /\ x.nextId = m
    BY <1>2, <1>4, <1>5 DEF DB
  <1>7. Journal(x, h) /\ View(x) = View(d)
    BY <1>1, <1>6, OtherRevisions
  <1>8. \A i \in 1 .. N : r[i].index \in 0 .. Len(d.entries)
    BY DEF Open, RevisionsOK
  <1> HIDE DEF r, N
  <1>9. RevisionsOK(x)
    <2> SUFFICES ASSUME NEW i \in 1 .. N + 1
                 PROVE  /\ q[i].index \in 0 .. Len(d.entries)
                        /\ \A a \in Addr : ~ Resets(d.entries, q[i].index, a)
                        /\ \A j \in 1 .. i : q[j].index <= q[i].index
      BY <1>5, <1>6 DEF RevisionsOK
    <2>1. CASE i = N + 1
      <3>1. q[i].index = Len(d.entries)
        BY <1>3, <1>5, <2>1
      <3>2. \A a \in Addr : ~ Resets(d.entries, q[i].index, a)
        BY <3>1, StateAssumption DEF Open, Settled
      <3>3. ASSUME NEW j \in 1 .. i
            PROVE  q[j].index <= q[i].index
        <4>1. CASE j = N + 1
          BY <1>2, <2>1, <3>1, <4>1
        <4>2. CASE j # N + 1
          <5>1. j \in 1 .. N
            BY <1>2, <2>1, <4>2
          <5>2. q[j] = r[j] /\ r[j].index \in 0 .. Len(d.entries)
            BY <1>5, <1>8, <5>1
          <5> QED
            BY <1>2, <3>1, <5>2
        <4> QED
          BY <4>1, <4>2
      <3> QED
        BY <1>2, <3>1, <3>2, <3>3
    <2>2. CASE i # N + 1
      <3>1. i \in 1 .. N /\ \A j \in 1 .. i : j \in 1 .. N
        BY <1>2, <2>2, UpTo
      <3>2. q[i] = r[i] /\ \A j \in 1 .. i : q[j] = r[j]
        BY <1>5, <3>1
      <3> QED
        BY <3>1, <3>2 DEF Open, RevisionsOK, r, N
    <2> QED
      BY <2>1, <2>2
  <1>10. Open(x)
    <2>1. Settled(x, Nobody)
      BY <1>6, SettledSame DEF Open
    <2> QED
      BY <1>7, <1>9, <2>1 DEF Open
  <1> DEFINE w == [id |-> d.nextId, copy |-> View(d)]
             S == {Snap(d, i) : i \in 1 .. N}
  <1>11. \A i \in 1 .. N : Snap(x, i) = Snap(d, i)
    <2> SUFFICES ASSUME NEW i \in 1 .. N PROVE Snap(x, i) = Snap(d, i)
      OBVIOUS
    <2>1. Snap(d, i) = [id |-> r[i].id, copy |-> h[r[i].index]]
      BY <1>1, SnapIs DEF Open, r, N
    <2>2. i \in 1 .. Len(x.revisions) /\ x.revisions[i] = r[i]
      <3>1. i \in 1 .. N + 1
        BY <1>2, BelowIs
      <3> QED
        BY <1>5, <1>6, <3>1
    <2>3. Snap(x, i) = [id |-> x.revisions[i].id, copy |-> h[x.revisions[i].index]]
      BY <1>7, <1>9, <2>2, SnapIs
    <2> QED
      BY <2>1, <2>2, <2>3
  <1>12. Snap(x, N + 1) = w
    <2>1. N + 1 \in 1 .. Len(x.revisions) /\ x.revisions[N + 1] = v
      BY <1>2, <1>5, <1>6
    <2>2. Snap(x, N + 1) = [id |-> v.id, copy |-> h[v.index]]
      BY <1>7, <1>9, <2>1, SnapIs
    <2>3. h[Len(d.entries)] = View(d)
      BY <1>1 DEF Journal
    <2> QED
      BY <1>3, <2>2, <2>3
  <1>13. Snaps(x) = Append(Snaps(d), w)
    <2> DEFINE T == S \cup {w}
               s == Snaps(d)
               u == Snaps(x)
    <2>1. s = [i \in 1 .. N |-> Snap(d, i)] /\ u = [i \in 1 .. N + 1 |-> Snap(x, i)]
      BY <1>2, <1>5, <1>6 DEF Snaps, r
    <2> HIDE DEF w, s, u
    <2>2. \A i \in 1 .. N + 1 : i # N + 1 => i \in 1 .. N
      BY <1>2
    <2>3. s \in [1 .. N -> T] /\ w \in T
      BY <2>1
    <2>4. u \in [1 .. N + 1 -> T]
      <3>1. \A i \in 1 .. N + 1 : Snap(x, i) \in T
        BY <1>11, <1>12, <2>2
      <3> QED
        BY <2>1, <3>1
    <2> HIDE DEF T
    <2>5. s \in Seq(T) /\ Len(s) = N
      BY <1>2, <2>3, MapIsSeq
    <2>6. u \in Seq(T) /\ Len(u) = N + 1
      <3>1. N + 1 \in Nat
        BY <1>2
      <3> QED
        BY <2>4, <3>1, MapIsSeq
    <2>7. N + 1 \in 1 .. N + 1 /\ \A i \in 1 .. N : i \in 1 .. N + 1
      BY <1>2
    <2>8. u[N + 1] = w /\ \A i \in 1 .. N : u[i] = s[i]
      BY <1>11, <1>12, <2>1, <2>7
    <2>9. u = Append(s, w)
      BY <2>3, <2>5, <2>6, <2>8, IsAppend
    <2> QED
      BY <2>9 DEF s, u
  <1> QED
    BY <1>6, <1>7, <1>10, <1>13 DEF m

LEMMA TakeIs ==
  ASSUME NEW T, NEW s \in Seq(T), NEW i \in 1 .. Len(s), NEW t, t = SubSeq(s, 1, i - 1)
  PROVE  /\ t \in Seq(T) /\ Len(t) = i - 1 /\ i - 1 \in Nat /\ \A j \in 1 .. i - 1 : j \in 1 .. Len(s) /\ t[j] = s[j]
         /\ DOMAIN t = 1 .. i - 1
  <1> DEFINE n == i - 1
  <1>1. n \in Nat /\ n \in Int /\ 1 \in Int /\ Len(s) \in Nat /\ \A j \in 1 .. n : j \in 1 .. Len(s)
    OBVIOUS
  <1>2. \A j \in 1 .. n : s[j] \in T
    <2>1. \A j \in 1 .. Len(s) : s[j] \in T
      OBVIOUS
    <2> QED
      BY <1>1, <2>1
  <1> HIDE DEF n
  <1>3. /\ SubSeq(s, 1, n) \in Seq(T) /\ Len(SubSeq(s, 1, n)) = IF 1 <= n THEN n - 1 + 1 ELSE 0
        /\ \A j \in 1 .. n - 1 + 1 : SubSeq(s, 1, n)[j] = s[1 + j - 1]
    BY <1>1, <1>2, SubSeqProperties
  <1>4. t = SubSeq(s, 1, n)
    BY DEF n
  <1>5. t \in Seq(T) /\ Len(t) = n
    BY <1>1, <1>3, <1>4
  <1>6. \A j \in 1 .. n : t[j] = s[j]
    <2> SUFFICES ASSUME NEW j \in 1 .. n PROVE t[j] = s[j]
      OBVIOUS
    <2>1. j \in 1 .. n - 1 + 1 /\ 1 + j - 1 = j
      BY <1>1
    <2> QED
      BY <1>3, <1>4, <2>1
  <1> QED
    BY <1>1, <1>5, <1>6 DEF n

\* RevertToSnapshot brings back the copy and drops the later ones.
LEMMA RevertStep ==
  ASSUME NEW d, Open(d), NEW i \in DOMAIN d.revisions, NEW x, x = RevertToSnapshot(d, i)
  PROVE  /\ Open(x) /\ x.nextId = d.nextId /\ View(x) = Snaps(d)[i].copy
         /\ Snaps(x) = SubSeq(Snaps(d), 1, i - 1)
  <1> DEFINE r == d.revisions
             N == Len(r)
             R == [id : Nat, index : Nat]
             n == r[i].index
             y == revert(d, n)
             q == SubSeq(y.revisions, 1, i - 1)
  <1>1. PICK h : Journal(d, h)
    BY DEF Open
  <1>2. d \in DB /\ r \in Seq(R) /\ N \in Nat /\ Len(d.entries) \in Nat /\ i \in 1 .. N /\ DOMAIN r = 1 .. N
    BY OpenIs
  <1>3. n \in 0 .. Len(d.entries) /\ \A a \in Addr : ~ Resets(d.entries, n, a)
    BY <1>2 DEF Open, RevisionsOK
  <1>4. Back(d, h, y, Len(d.entries) - n) /\ View(y) = h[n]
    BY <1>1, <1>3, RevertIs
  <1>5. x = [y EXCEPT !.revisions = q]
    BY DEF RevertToSnapshot
  <1> HIDE DEF n, y
  <1>6. /\ Journal(y, h) /\ Len(y.entries) = n /\ y.revisions = r /\ y.nextId = d.nextId
        /\ \A j \in 1 .. n : y.entries[j] = d.entries[j]
    BY <1>2, <1>3, <1>4 DEF Back, Frame
  <1>7. /\ q \in Seq(R) /\ Len(q) = i - 1 /\ i - 1 \in Nat /\ DOMAIN q = 1 .. i - 1
        /\ \A j \in 1 .. i - 1 : j \in 1 .. N /\ q[j] = r[j]
    <2>1. q = SubSeq(r, 1, i - 1)
      BY <1>6
    <2>2. r \in Seq(R) /\ i \in 1 .. Len(r)
      BY <1>2
    <2> HIDE DEF q, r, R
    <2>3. /\ q \in Seq(R) /\ Len(q) = i - 1 /\ i - 1 \in Nat /\ DOMAIN q = 1 .. i - 1
          /\ \A j \in 1 .. i - 1 : j \in 1 .. Len(r) /\ q[j] = r[j]
      BY <2>1, <2>2, TakeIs
    <2> QED
      BY <2>3
  <1> HIDE DEF q
  <1>8. /\ x \in DB /\ x.objs = y.objs /\ x.trie = y.trie /\ x.dirtyObjs = y.dirtyObjs /\ x.refund = y.refund
        /\ x.logs = y.logs /\ x.preimages = y.preimages /\ x.entries = y.entries /\ x.dirties = y.dirties
        /\ x.revisions = q /\ x.nextId = y.nextId
    <2>1. y \in DB
      BY <1>6 DEF Journal
    <2> QED
      BY <1>5, <1>7, <2>1 DEF DB
  <1>9. Journal(x, h) /\ View(x) = View(y)
    BY <1>6, <1>8, OtherRevisions
  <1> HIDE DEF r, N
  <1>10. \A a \in Addr : ~ Resets(y.entries, n, a)
    <2>1. n \in 1 .. n <=> n \in 1 .. Len(d.entries)
      BY <1>2, <1>3
    <2>2. n \in 1 .. n => y.entries[n] = d.entries[n]
      BY <1>6
    <2> QED
      BY <1>3, <1>6, <2>1, <2>2 DEF Resets
  <1>11. Settled(x, Nobody)
    BY <1>6, <1>8, <1>10 DEF Settled
  <1>12. RevisionsOK(x)
    <2> SUFFICES ASSUME NEW k \in 1 .. i - 1
                 PROVE  /\ q[k].index \in 0 .. n
                        /\ \A a \in Addr : ~ Resets(y.entries, q[k].index, a)
                        /\ \A j \in 1 .. k : q[j].index <= q[k].index
      BY <1>6, <1>7, <1>8 DEF RevisionsOK
    <2> DEFINE m == r[k].index
    <2>1. k \in 1 .. N /\ q[k] = r[k] /\ k \in 1 .. i
      <3>1. k \in 1 .. N /\ q[k] = r[k]
        BY <1>7
      <3>2. k \in 1 .. i
        <4>1. i \in Int
          BY <1>2
        <4> QED
          BY <4>1
      <3> QED
        BY <3>1, <3>2
    <2>2. \A j \in 1 .. k : q[j] = r[j]
      <3>1. \A j \in 1 .. k : j \in 1 .. i - 1
        <4>1. k \in Int /\ i \in Int /\ k <= i - 1
          BY <1>2
        <4> QED
          BY <4>1
      <3> QED
        BY <1>7, <3>1
    <2>3. /\ m \in 0 .. Len(d.entries) /\ m <= n /\ \A a \in Addr : ~ Resets(d.entries, m, a)
          /\ \A j \in 1 .. k : r[j].index <= m
      BY <1>2, <2>1 DEF Open, RevisionsOK, r, N, n
    <2> HIDE DEF m
    <2>4. m \in 0 .. n
      BY <1>2, <1>3, <2>3
    <2>5. \A a \in Addr : ~ Resets(y.entries, m, a)
      <3>2. m \in 1 .. n => m \in 1 .. Len(d.entries)
        BY <1>2, <1>3
      <3>1. m \in 1 .. n => m \in 1 .. Len(d.entries) /\ y.entries[m] = d.entries[m]
        BY <1>6, <3>2
      <3> QED
        BY <1>6, <2>3, <3>1 DEF Resets
    <2> QED
      BY <2>1, <2>2, <2>3, <2>4, <2>5 DEF m
  <1>13. Open(x)
    BY <1>9, <1>11, <1>12 DEF Open
  <1>14. \A k \in 1 .. N : Snap(d, k) = [id |-> r[k].id, copy |-> h[r[k].index]]
    BY <1>1, SnapIs DEF Open, r, N
  <1>15. View(x) = Snaps(d)[i].copy
    <2>1. Snaps(d)[i] = Snap(d, i)
      BY DEF Snaps
    <2>2. Snap(d, i).copy = h[n]
      BY <1>2, <1>14 DEF n
    <2> QED
      BY <1>4, <1>9, <2>1, <2>2
  <1>16. \A k \in 1 .. i - 1 : Snap(x, k) = Snap(d, k)
    <2> SUFFICES ASSUME NEW k \in 1 .. i - 1 PROVE Snap(x, k) = Snap(d, k)
      OBVIOUS
    <2>1. k \in 1 .. Len(x.revisions) /\ x.revisions[k] = r[k] /\ k \in 1 .. N
      BY <1>7, <1>8
    <2>2. Snap(x, k) = [id |-> x.revisions[k].id, copy |-> h[x.revisions[k].index]]
      BY <1>9, <1>12, <2>1, SnapIs
    <2> QED
      BY <1>14, <2>1, <2>2
  <1>17. Snaps(x) = SubSeq(Snaps(d), 1, i - 1)
    <2> DEFINE T == {Snap(d, k) : k \in 1 .. N}
               s == Snaps(d)
               u == Snaps(x)
               t == SubSeq(s, 1, i - 1)
    <2>1. s = [k \in 1 .. N |-> Snap(d, k)] /\ u = [k \in 1 .. i - 1 |-> Snap(x, k)]
      BY <1>2, <1>7, <1>8 DEF Snaps, r
    <2> HIDE DEF s, u
    <2>2. s \in [1 .. N -> T]
      BY <2>1
    <2>3. u \in [1 .. i - 1 -> T]
      BY <1>7, <1>16, <2>1
    <2> HIDE DEF T
    <2>4. s \in Seq(T) /\ Len(s) = N /\ u \in Seq(T) /\ Len(u) = i - 1
      BY <1>2, <1>7, <2>2, <2>3, MapIsSeq
    <2>5. i \in 1 .. Len(s)
      BY <1>2, <2>4
    <2>6. t \in Seq(T) /\ Len(t) = i - 1 /\ \A j \in 1 .. i - 1 : t[j] = s[j]
      BY <2>4, <2>5, TakeIs
    <2> HIDE DEF t
    <2>7. \A j \in 1 .. i - 1 : u[j] = t[j]
      BY <1>7, <1>16, <2>1, <2>6
    <2>8. u = t
      <3>1. Len(u) = Len(t) /\ \A j \in 1 .. Len(u) : u[j] = t[j]
        BY <2>4, <2>6, <2>7
      <3> QED
        BY <2>4, <2>6, <3>1, SeqEqual
    <2> QED
      BY <2>8 DEF s, u, t
  <1> QED
    BY <1>6, <1>8, <1>13, <1>15, <1>17

\* The step of the stack of copies that a step of the StateDB stands for.
Changes == rounds' = rounds /\ sdb'.nextId = sdb.nextId /\ Snaps(sdb') = Snaps(sdb)

Pushes ==
  /\ rounds' = rounds /\ sdb'.nextId = sdb.nextId + 1 /\ View(sdb') = View(sdb)
  /\ Snaps(sdb') = Append(Snaps(sdb), [id |-> sdb.nextId, copy |-> View(sdb)])

BringsBack(i) ==
  /\ rounds' = rounds /\ sdb'.nextId = sdb.nextId /\ View(sdb') = Snaps(sdb)[i].copy
  /\ Snaps(sdb') = SubSeq(Snaps(sdb), 1, i - 1)

Ends == rounds' = rounds + 1 /\ sdb'.nextId \in {0, sdb.nextId} /\ sdb'.revisions = <<>>

Copied == Changes \/ Pushes \/ (\E i \in DOMAIN sdb.revisions : BringsBack(i)) \/ Ends

\* What is shown of every step.
Proper ==
  /\ IInv' /\ Copied
  /\ phase # "committed" /\ phase' = "committed" =>
       \A a \in Addr : \/ TrieOf(sdb', a) = Kept(sdb, a)
                       \/ a \in DOMAIN sdb.objs /\ sdb.objs[a].deleted /\ empty(sdb.objs[a])

LEMMA RoomIsOpen ==
  ASSUME IInv, phase = "open"
  PROVE  Open(sdb) /\ Settled(sdb, Nobody) /\ rounds \in Nat
  BY DEF IInv, Open

LEMMA SetterProper ==
  ASSUME IInv, Room, NEW d, Setter(d), \A h : Journal(sdb, h) => Grows(sdb, h, d) /\ Settled(d, Nobody)
  PROVE  Proper
  <1>1. Open(sdb) /\ rounds \in Nat /\ phase = "open"
    BY RoomIsOpen DEF Room
  <1>2. Open(d) /\ Snaps(d) = Snaps(sdb) /\ d.nextId = sdb.nextId
    BY <1>1, SetterStep
  <1>3. sdb' = d /\ phase' = phase /\ rounds' = rounds
    BY DEF Setter
  <1>4. IInv'
    BY <1>1, <1>2, <1>3 DEF IInv
  <1>5. Changes
    BY <1>2, <1>3 DEF Changes
  <1> QED
    BY <1>1, <1>3, <1>4, <1>5 DEF Proper, Copied

LEMMA AddBalanceStep ==
  ASSUME IInv, NEW a \in Addr, NEW n \in Nat, DoAddBalance(a, n)
  PROVE  Proper
  <1> DEFINE d == AddBalance(sdb, a, n)
  <1>1. Room /\ Setter(d) /\ BalOf(sdb, a) + n <= MaxBalance
    BY DEF DoAddBalance, Bal, BalOf
  <1>2. Settled(sdb, Nobody)
    BY <1>1, RoomIsOpen DEF Room
  <1>3. \A h : Journal(sdb, h) => Grows(sdb, h, d) /\ Settled(d, Nobody)
    BY <1>1, <1>2, AddBalanceIs
  <1> HIDE DEF d
  <1> QED
    BY <1>1, <1>3, SetterProper

LEMMA OnAccountStep ==
  ASSUME IInv, NEW a \in Addr, OnAccount(a)
  PROVE  Proper
  <1>1. CASE DoCreateAccount(a)
    <2> DEFINE d == CreateAccount(sdb, a)
    <2>1. Room /\ Setter(d) /\ ~ Has(sdb, a)
      BY <1>1 DEF DoCreateAccount
    <2>2. Settled(sdb, Nobody)
      BY <2>1, RoomIsOpen DEF Room
    <2>3. \A h : Journal(sdb, h) => Grows(sdb, h, d) /\ Settled(d, Nobody)
      BY <2>1, <2>2, CreateAccountIs
    <2> HIDE DEF d
    <2> QED
      BY <2>1, <2>3, SetterProper
  <1>2. CASE DoCreateContract(a)
    <2> DEFINE d == SetNonce(CreateAccount(sdb, a), a, 1)
    <2>1. Room /\ Setter(d)
      BY <1>2 DEF DoCreateContract
    <2>2. Settled(sdb, Nobody)
      BY <2>1, RoomIsOpen DEF Room
    <2>3. \A h : Journal(sdb, h) => Grows(sdb, h, d) /\ Settled(d, Nobody)
      BY <2>2, CreateContractIs
    <2> HIDE DEF d
    <2> QED
      BY <2>1, <2>3, SetterProper
  <1>3. CASE \E n \in Amount \cup {0} : DoAddBalance(a, n)
    BY <1>3, AddBalanceStep, StateAssumption
  <1>4. ASSUME NEW n \in Amount, DoSubBalance(a, n)
        PROVE  Proper
    <2> DEFINE d == SubBalance(sdb, a, n)
    <2>1. Room /\ Setter(d) /\ BalOf(sdb, a) >= n /\ n \in Nat
      BY <1>4, StateAssumption DEF DoSubBalance, Bal, BalOf
    <2>2. Settled(sdb, Nobody)
      BY <2>1, RoomIsOpen DEF Room
    <2>3. \A h : Journal(sdb, h) => Grows(sdb, h, d) /\ Settled(d, Nobody)
      BY <2>1, <2>2, SubBalanceIs
    <2> HIDE DEF d
    <2> QED
      BY <2>1, <2>3, SetterProper
  <1>5. ASSUME NEW n \in Amount, DoSetNonce(a, n)
        PROVE  Proper
    <2> DEFINE d == SetNonce(sdb, a, n)
    <2>1. Room /\ Setter(d) /\ n \in Nat
      BY <1>5, StateAssumption DEF DoSetNonce
    <2>2. Settled(sdb, a)
      BY <2>1, RoomIsOpen, SettledAny DEF Room
    <2>3. \A h : Journal(sdb, h) => Grows(sdb, h, d) /\ Settled(d, Nobody)
      BY <2>1, <2>2, SetNonceIs
    <2> HIDE DEF d
    <2> QED
      BY <2>1, <2>3, SetterProper
  <1>6. ASSUME NEW c \in Code, DoSetCode(a, c)
        PROVE  Proper
    <2> DEFINE d == SetCode(sdb, a, c)
    <2>1. Room /\ Setter(d)
      BY <1>6 DEF DoSetCode
    <2>2. Settled(sdb, a)
      BY <2>1, RoomIsOpen, SettledAny DEF Room
    <2>3. \A h : Journal(sdb, h) => Grows(sdb, h, d) /\ Settled(d, Nobody)
      BY <2>1, <2>2, SetCodeIs
    <2> HIDE DEF d
    <2> QED
      BY <2>1, <2>3, SetterProper
  <1>7. ASSUME NEW k \in Key, DoGetState(a, k)
        PROVE  Proper
    <2> DEFINE d == GetState(sdb, a, k)
    <2>1. Room /\ Setter(d)
      BY <1>7 DEF DoGetState
    <2>2. Settled(sdb, Nobody)
      BY <2>1, RoomIsOpen DEF Room
    <2>3. \A h : Journal(sdb, h) => Grows(sdb, h, d) /\ Settled(d, Nobody)
      BY <2>1, <2>2, GetStateIs
    <2> HIDE DEF d
    <2> QED
      BY <2>1, <2>3, SetterProper
  <1>8. ASSUME NEW k \in Key, NEW v \in Val \cup {Zero}, DoSetState(a, k, v)
        PROVE  Proper
    <2> DEFINE d == SetState(sdb, a, k, v)
    <2>1. Room /\ Setter(d) /\ v \in Value
      BY <1>8 DEF DoSetState, Value
    <2>2. Settled(sdb, a)
      BY <2>1, RoomIsOpen, SettledAny DEF Room
    <2>3. \A h : Journal(sdb, h) => Grows(sdb, h, d) /\ Settled(d, Nobody)
      BY <2>1, <2>2, SetStateIs
    <2> HIDE DEF d
    <2> QED
      BY <2>1, <2>3, SetterProper
  <1>9. CASE DoSuicide(a)
    <2> DEFINE d == Suicide(sdb, a)
    <2>1. Room /\ Setter(d) /\ Has(sdb, a)
      BY <1>9 DEF DoSuicide
    <2>2. Settled(sdb, a)
      BY <2>1, RoomIsOpen, SettledAny DEF Room
    <2>3. \A h : Journal(sdb, h) => Grows(sdb, h, d) /\ Settled(d, Nobody)
      BY <2>1, <2>2, SuicideIs
    <2> HIDE DEF d
    <2> QED
      BY <2>1, <2>3, SetterProper
  <1> QED
    BY <1>1, <1>2, <1>3, <1>4, <1>5, <1>6, <1>7, <1>8, <1>9 DEF OnAccount

LEMMA StepProper ==
  ASSUME IInv, Next
  PROVE  Proper
  <1>1. CASE \E a \in Addr \ {Ripemd} : OnAccount(a)
    BY <1>1, OnAccountStep
  <1>2. CASE \E n \in Amount \cup {0} : DoAddBalance(Ripemd, n)
    <2>1. Ripemd \in Addr /\ \A n \in Amount \cup {0} : n \in Nat
      BY StateAssumption
    <2> QED
      BY <1>2, <2>1, AddBalanceStep
  <1>3. CASE DoAddRefund
    <2> DEFINE d == AddRefund(sdb, 1)
    <2>1. Room /\ Setter(d) /\ 1 \in Nat
      BY <1>3 DEF DoAddRefund
    <2>2. Settled(sdb, Nobody)
      BY <2>1, RoomIsOpen DEF Room
    <2>3. \A h : Journal(sdb, h) => Grows(sdb, h, d) /\ Settled(d, Nobody)
      BY <2>1, <2>2, AddRefundIs
    <2> HIDE DEF d
    <2> QED
      BY <2>1, <2>3, SetterProper
  <1>4. CASE DoAddLog
    <2> DEFINE n == Len(sdb.logs)
               d == AddLog(sdb, n)
    <2>1. Room /\ Setter(d)
      BY <1>4 DEF DoAddLog
    <2>2. Open(sdb) /\ Settled(sdb, Nobody)
      BY <2>1, RoomIsOpen DEF Room
    <2>3. n \in Nat
      <3>1. sdb.logs \in Seq(Nat)
        BY <2>2, OpenIs, DBIs
      <3> QED
        BY <3>1
    <2> HIDE DEF n
    <2>4. \A h : Journal(sdb, h) => Grows(sdb, h, d) /\ Settled(d, Nobody)
      BY <2>2, <2>3, AddLogIs
    <2> HIDE DEF d
    <2> QED
      BY <2>1, <2>4, SetterProper
  <1>5. CASE DoAddPreimage
    <2> DEFINE d == AddPreimage(sdb, Zero)
    <2>1. Room /\ Setter(d)
      BY <1>5 DEF DoAddPreimage
    <2>2. Settled(sdb, Nobody)
      BY <2>1, RoomIsOpen DEF Room
    <2>3. \A h : Journal(sdb, h) => Grows(sdb, h, d) /\ Settled(d, Nobody)
      BY <2>2, AddPreimageIs
    <2> HIDE DEF d
    <2> QED
      BY <2>1, <2>3, SetterProper
  <1>6. CASE DoSnapshot
    <2>1. phase = "open" /\ sdb' = Snapshot(sdb) /\ phase' = phase /\ rounds' = rounds
      BY <1>6 DEF DoSnapshot
    <2>2. Open(sdb) /\ rounds \in Nat
      BY <2>1, RoomIsOpen
    <2>3. /\ Open(sdb') /\ sdb'.nextId = sdb.nextId + 1 /\ View(sdb') = View(sdb)
          /\ Snaps(sdb') = Append(Snaps(sdb), [id |-> sdb.nextId, copy |-> View(sdb)])
      BY <2>1, <2>2, SnapshotStep
    <2>4. IInv'
      BY <2>1, <2>2, <2>3 DEF IInv
    <2>5. Pushes
      BY <2>1, <2>3 DEF Pushes
    <2> QED
      BY <2>1, <2>4, <2>5 DEF Proper, Copied
  <1>7. ASSUME NEW i \in DOMAIN sdb.revisions, DoRevert(i)
        PROVE  Proper
    <2>1. phase = "open" /\ sdb' = RevertToSnapshot(sdb, i) /\ phase' = phase /\ rounds' = rounds
      BY <1>7 DEF DoRevert
    <2>2. Open(sdb) /\ rounds \in Nat
      BY <2>1, RoomIsOpen
    <2>3. /\ Open(sdb') /\ sdb'.nextId = sdb.nextId /\ View(sdb') = Snaps(sdb)[i].copy
          /\ Snaps(sdb') = SubSeq(Snaps(sdb), 1, i - 1)
      BY <2>1, <2>2, RevertStep
    <2>4. IInv'
      BY <2>1, <2>2, <2>3 DEF IInv
    <2>5. BringsBack(i)
      BY <2>1, <2>3 DEF BringsBack
    <2> QED
      BY <2>1, <2>4, <2>5 DEF Proper, Copied
  <1>8. CASE DoIntermediateRoot
    <2>1. phase = "open" /\ phase' = "final" /\ sdb' = Finalise(sdb, TRUE) /\ rounds' = rounds + 1
      BY <1>8 DEF DoIntermediateRoot, Round
    <2>2. Open(sdb) /\ rounds \in Nat
      BY <2>1, RoomIsOpen
    <2>3. Closed(sdb') /\ sdb'.revisions = <<>> /\ sdb'.nextId = sdb.nextId
      BY <2>1, <2>2, FinaliseIs
    <2>4. IInv'
      <3>1. Closed(sdb')
        BY <2>3
      <3>2. rounds' \in Nat
        BY <2>1, <2>2
      <3>3. phase' # "open" /\ phase' \in {"open", "final", "committed"}
        BY <2>1
      <3> QED
        BY <3>1, <3>2, <3>3 DEF IInv
    <2>5. Ends
      BY <2>1, <2>3 DEF Ends
    <2> QED
      BY <2>1, <2>4, <2>5 DEF Proper, Copied
  <1>9. CASE DoCommit
    <2>1. phase' = "committed" /\ sdb' = Commit(sdb, FALSE) /\ rounds' = rounds + 1
      BY <1>9 DEF DoCommit, Round
    <2>2. Good(sdb) /\ rounds \in Nat
      <3>1. (phase = "open" => Good(sdb)) /\ rounds \in Nat
        BY RoomIsOpen, OpenIsGood DEF IInv
      <3>2. phase # "open" => Good(sdb)
        BY DEF IInv, Closed
      <3> QED
        BY <3>1, <3>2
    <2>3. /\ Closed(sdb') /\ sdb'.revisions = <<>> /\ sdb'.nextId = sdb.nextId
          /\ \A a \in Addr : \/ TrieOf(sdb', a) = Kept(sdb, a)
                             \/ a \in DOMAIN sdb.objs /\ sdb.objs[a].deleted /\ empty(sdb.objs[a])
      BY <2>1, <2>2, CommitIs
    <2>4. IInv'
      <3>1. Closed(sdb')
        BY <2>3
      <3>2. rounds' \in Nat
        BY <2>1, <2>2
      <3>3. phase' # "open" /\ phase' \in {"open", "final", "committed"}
        BY <2>1
      <3> QED
        BY <3>1, <3>2, <3>3 DEF IInv
    <2>5. Ends
      BY <2>1, <2>3 DEF Ends
    <2> QED
      BY <2>3, <2>4, <2>5 DEF Proper, Copied
  <1>10. CASE DoNew
    <2>1. phase = "committed" /\ phase' = "open" /\ sdb' = New(sdb.trie) /\ rounds' = rounds + 1
      BY <1>10 DEF DoNew, Round
    <2>2. sdb.trie \in World /\ rounds \in Nat
      <3>1. sdb \in DB /\ rounds \in Nat
        BY <2>1 DEF IInv, Closed, Good
      <3> QED
        BY <3>1, DBIs
    <2>3. Open(sdb') /\ sdb'.revisions = <<>> /\ sdb'.nextId = 0
      BY <2>1, <2>2, NewIs
    <2>4. IInv'
      BY <2>1, <2>2, <2>3 DEF IInv
    <2>5. Ends
      BY <2>1, <2>3 DEF Ends
    <2> QED
      BY <2>1, <2>4, <2>5 DEF Proper, Copied
  <1>11. CASE DoReset
    <2>1. phase = "open" /\ phase' = phase /\ sdb' = Reset(sdb) /\ rounds' = rounds + 1
      BY <1>11 DEF DoReset, Round
    <2>2. sdb \in DB /\ rounds \in Nat
      BY <2>1, RoomIsOpen, OpenIs
    <2>3. Open(sdb') /\ sdb'.revisions = <<>> /\ sdb'.nextId = sdb.nextId
      BY <2>1, <2>2, ResetDBIs
    <2>4. IInv'
      BY <2>1, <2>2, <2>3 DEF IInv
    <2>5. Ends
      BY <2>1, <2>3 DEF Ends
    <2> QED
      BY <2>1, <2>4, <2>5 DEF Proper, Copied
  <1>12. CASE DoCopy
    <2>1. /\ phase = "open" /\ phase' = phase /\ sdb' = Copy(sdb) /\ rounds' = rounds + 1
          /\ Dirties(sdb) \subseteq DOMAIN sdb.objs
      BY <1>12 DEF DoCopy, Round
    <2>2. Open(sdb) /\ rounds \in Nat
      BY <2>1, RoomIsOpen
    <2>3. Open(sdb') /\ sdb'.revisions = <<>> /\ sdb'.nextId = 0
      BY <2>1, <2>2, CopyIs
    <2>4. IInv'
      BY <2>1, <2>2, <2>3 DEF IInv
    <2>5. Ends
      BY <2>1, <2>3 DEF Ends
    <2> QED
      BY <2>1, <2>4, <2>5 DEF Proper, Copied
  <1> QED
    BY <1>1, <1>2, <1>3, <1>4, <1>5, <1>6, <1>7, <1>8, <1>9, <1>10, <1>11, <1>12 DEF Next

LEMMA InitIInv ==
  ASSUME Init
  PROVE  IInv /\ sdb.revisions = <<>> /\ sdb.nextId = 0 /\ rounds = 0
  <1>1. PICK t \in Tries : sdb = New(t)
    BY DEF Init
  <1>2. t \in World
    BY StateAssumption DEF World
  <1>3. Open(sdb) /\ sdb.revisions = <<>> /\ sdb.nextId = 0
    BY <1>1, <1>2, NewIs
  <1> QED
    BY <1>3 DEF Init, IInv

LEMMA StutterIInv ==
  ASSUME IInv, UNCHANGED vars
  PROVE  IInv'
  BY DEF IInv, vars

-----------------------------------------------------------------------------
(* Results                                                                 *)

LEMMA GoodIs ==
  ASSUME Good(sdb)
  PROVE  /\ DOMAIN sdb.trie \subseteq Addr /\ DOMAIN sdb.objs \subseteq Addr /\ sdb.dirtyObjs \subseteq Addr
         /\ \A a \in DOMAIN sdb.objs :
              sdb.objs[a].bal \in 0 .. MaxBalance /\ DOMAIN sdb.objs[a].dirty \subseteq DOMAIN sdb.objs[a].cached
         /\ CacheCoherent /\ CleanIsUnchanged
  <1>1. sdb \in DB /\ sdb.trie \in World /\ sdb.objs \in Objs /\ sdb.dirtyObjs \in SUBSET Addr
    BY DBIs DEF Good
  <1>2. DOMAIN sdb.trie \subseteq Addr /\ DOMAIN sdb.objs \subseteq Addr
    BY <1>1, WorldIs, ObjsIs
  <1>3. \A a \in DOMAIN sdb.objs : sdb.objs[a] \in Obj /\ Coherent(sdb.objs[a])
    BY <1>1, ObjsIs DEF Good
  <1>4. \A a \in DOMAIN sdb.objs :
          sdb.objs[a].bal \in 0 .. MaxBalance /\ DOMAIN sdb.objs[a].dirty \subseteq DOMAIN sdb.objs[a].cached
    BY <1>3, ObjIs DEF Coherent
  <1>5. CacheCoherent
    BY <1>3 DEF Coherent, CacheCoherent
  <1>6. CleanIsUnchanged
    BY DEF Good, CleanOf, CleanIsUnchanged
  <1> QED
    BY <1>1, <1>2, <1>4, <1>5, <1>6

LEMMA CoherentIs ==
  ASSUME IInv
  PROVE  StateCoherent
  <1>1. Good(sdb)
    BY OpenIsGood DEF IInv, Closed
  <1>2. /\ sdb \in DB /\ sdb.dirties \in [Addr -> Int]
    BY <1>1, DBIs DEF Good
  <1>3. CASE phase = "open"
    <2>1. Open(sdb)
      BY <1>3, RoomIsOpen
    <2>2. PICK h : Journal(sdb, h)
      BY <2>1 DEF Open
    <2>3. sdb.dirties \in [Addr -> Nat]
      BY <1>2, <2>2, JournalDirties
    <2>4. \A i \in DOMAIN sdb.revisions : sdb.revisions[i].index <= Len(sdb.entries)
      BY <2>1, OpenIs DEF Open, RevisionsOK
    <2>5. DirtiesMatchJournal
      BY <2>2 DEF DirtiesMatchJournal, Journal, Counts, DirtyAt
    <2> QED
      BY <1>1, <2>3, <2>4, <2>5, GoodIs DEF StateCoherent, TypeOK
  <1>4. CASE phase # "open"
    <2>1. sdb.entries = <<>> /\ sdb.revisions = <<>> /\ sdb.dirties = [a \in Addr |-> 0]
      BY <1>4 DEF IInv, Closed
    <2>2. sdb.dirties \in [Addr -> Nat]
      BY <2>1
    <2>3. \A i \in DOMAIN sdb.revisions : sdb.revisions[i].index <= Len(sdb.entries)
      BY <2>1
    <2>4. DirtiesMatchJournal
      <3>1. \A a : {i \in DOMAIN sdb.entries : dirtied(sdb.entries[i]) = a} = {}
        BY <2>1
      <3> QED
        BY <2>1, <3>1, FS_EmptySet DEF DirtiesMatchJournal
    <2> QED
      BY <1>1, <2>2, <2>3, <2>4, GoodIs DEF StateCoherent, TypeOK
  <1> QED
    BY <1>3, <1>4

\* At every moment the parts of a StateDB that speak of the same account agree:
\* the cache of an object is what will be flushed or what is in its trie, the
\* counters of dirty accounts are those of the journal, and an account that
\* Commit would not write answers what the trie says (state_object.go
\* GetState, journal.go append and revert, statedb.go Commit).
THEOREM StateDBCoherent == Spec => []StateCoherent
  <1>1. Init => IInv
    BY InitIInv
  <1>2. IInv /\ [Next]_vars => IInv'
    BY StepProper, StutterIInv DEF Proper
  <1>3. IInv => StateCoherent
    BY CoherentIs
  <1> QED
    BY <1>1, <1>2, <1>3, PTL DEF Spec

LEMMA CopiesInit ==
  ASSUME Init
  PROVE  Copies!SpecInit
  <1>1. sdb.revisions = <<>> /\ sdb.nextId = 0 /\ rounds = 0
    BY InitIInv
  <1>2. [i \in DOMAIN sdb.revisions |->
           [id |-> sdb.revisions[i].id, copy |-> View(revert(sdb, sdb.revisions[i].index))]] = <<>>
    BY <1>1
  <1> QED
    BY <1>1, <1>2 DEF Copies!SpecInit

LEMMA CopiesStep ==
  ASSUME Copied
  PROVE  Copies!SpecNext
  <1>1. CASE Changes
    BY <1>1 DEF Changes, Copies!SpecNext, Copies!Change, Snaps, Snap
  <1>2. CASE Pushes
    BY <1>2 DEF Pushes, Copies!SpecNext, Copies!Snapshot, Snaps, Snap
  <1>3. ASSUME NEW i \in DOMAIN sdb.revisions, BringsBack(i)
        PROVE  Copies!SpecNext
    <2>1. i \in DOMAIN Snaps(sdb)
      BY DEF Snaps
    <2>2. Copies!RevertTo(i)
      BY <1>3 DEF BringsBack, Copies!RevertTo, Snaps, Snap
    <2> QED
      BY <2>1, <2>2 DEF Copies!SpecNext, Snaps, Snap
  <1>4. CASE Ends
    <2>1. sdb'.revisions = <<>>
      BY <1>4 DEF Ends
    <2>2. [i \in DOMAIN sdb'.revisions |->
             [id |-> sdb'.revisions[i].id, copy |-> View(revert(sdb', sdb'.revisions[i].index))]] = <<>>
      BY <2>1
    <2> QED
      BY <1>4, <2>2 DEF Ends, Copies!SpecNext, Copies!EndTransaction
  <1> QED
    BY <1>1, <1>2, <1>3, <1>4 DEF Copied

\* The journal implements a stack of copies: RevertToSnapshot brings back every
\* answer that the StateDB gave when the snapshot was taken, and Commit writes
\* to the trie what the getters answer, for any accounts, any number of
\* setters, loads, snapshots and reverts and any number of transactions
\* (statedb.go Snapshot, RevertToSnapshot, Finalise, Commit).
THEOREM StateDBAnswers == Spec => AnswersKept
  <1>1. Init => IInv /\ Copies!SpecInit
    BY InitIInv, CopiesInit
  <1>2. IInv /\ [Next]_vars => IInv'
    BY StepProper, StutterIInv DEF Proper
  <1>3. IInv /\ [Next]_vars => [Copies!SpecNext]_(Copies!specVars)
    <2>1. ASSUME IInv, Next PROVE Copies!SpecNext
      BY <2>1, StepProper, CopiesStep DEF Proper
    <2>2. ASSUME UNCHANGED vars PROVE UNCHANGED Copies!specVars
      BY <2>2 DEF vars, Copies!specVars
    <2> QED
      BY <2>1, <2>2
  <1>4. IInv /\ [Next]_vars =>
          [phase # "committed" /\ phase' = "committed" =>
             \A a \in Addr : \/ TrieOf(sdb', a) = Kept(sdb, a)
                             \/ a \in DOMAIN sdb.objs /\ sdb.objs[a].deleted /\ empty(sdb.objs[a])]_vars
    BY StepProper DEF Proper
  <1>5. Spec => Copies!Abstract
    BY <1>1, <1>2, <1>3, PTL DEF Spec, Copies!Abstract
  <1>6. Spec => CommitWritesAnswers
    BY <1>1, <1>2, <1>4, PTL DEF Spec, CommitWritesAnswers
  <1> QED
    BY <1>5, <1>6 DEF AnswersKept, RevertRestoresCopies

-----------------------------------------------------------------------------
(* The trie database: what it holds                                        *)

Link == Hash \cup {NoHash}

ChildCounts == UNION {[S -> Nat \ {0}] : S \in SUBSET Hash}

Node == [parents : Nat, children : ChildCounts, flushPrev : Link, flushNext : Link]

Nodes == UNION {[S -> Node] : S \in {T \in SUBSET Link : NoHash \in T}}

Database == [nodes : Nodes, oldest : Link, newest : Link]

LEMMA SetAtIs ==
  ASSUME NEW f, NEW k, NEW v, NEW g, g = SetAt(f, k, v)
  PROVE  /\ DOMAIN g = DOMAIN f \cup {k} /\ g[k] = v
         /\ \A x \in DOMAIN f : x # k => g[x] = f[x]
  BY DEF SetAt

LEMMA NodesAre ==
  ASSUME NEW f \in Nodes
  PROVE  /\ DOMAIN f \subseteq Link /\ NoHash \in DOMAIN f
         /\ f \in [DOMAIN f -> Node] /\ \A x \in DOMAIN f : f[x] \in Node
  BY DEF Nodes

LEMMA NodesIf ==
  ASSUME NEW S \in SUBSET Link, NoHash \in S, NEW f \in [S -> Node]
  PROVE  f \in Nodes
  BY DEF Nodes

LEMMA NoCountIs == NoCount \in ChildCounts /\ DOMAIN NoCount = {}
  <1>1. NoCount \in [{} -> Nat \ {0}] /\ DOMAIN NoCount = {}
    BY DEF NoCount
  <1> QED
    BY <1>1 DEF ChildCounts

LEMMA CachedNodeIs ==
  ASSUME NEW p \in Link
  PROVE  cachedNode(p) \in Node /\ DOMAIN cachedNode(p).children = {}
  BY NoCountIs DEF cachedNode, Node, Link

LEMMA NewDatabaseIs ==
  NewDatabase \in Database /\ Cached(NewDatabase) = {} /\ DOMAIN NewDatabase.nodes[NoHash].children = {}
  <1> DEFINE f == [h \in {NoHash} |-> cachedNode(NoHash)]
  <1>1. f \in [{NoHash} -> Node] /\ DOMAIN f = {NoHash} /\ f[NoHash] = cachedNode(NoHash)
    BY CachedNodeIs DEF Link
  <1>2. f \in Nodes
    <2> HIDE DEF f
    <2>1. {NoHash} \in SUBSET Link
      BY DEF Link
    <2> QED
      BY <1>1, <2>1, NodesIf
  <1>3. NewDatabase = [nodes |-> f, oldest |-> NoHash, newest |-> NoHash]
    BY DEF NewDatabase
  <1> HIDE DEF f
  <1>4. NewDatabase \in Database
    BY <1>2, <1>3 DEF Database, Link
  <1>5. DOMAIN cachedNode(NoHash).children = {}
    BY CachedNodeIs DEF Link
  <1> QED
    BY <1>1, <1>3, <1>4, <1>5 DEF Cached

-----------------------------------------------------------------------------
(* How often a hash occurs in a sequence                                   *)

Places(s, k) == {i \in DOMAIN s : s[i] = k}

Times(s, k) == Cardinality(Places(s, k))

LEMMA TimesIs ==
  ASSUME NEW s \in Seq(Hash), NEW k
  PROVE  IsFiniteSet(Places(s, k)) /\ Times(s, k) \in Nat /\ (Times(s, k) = 0 <=> \A i \in DOMAIN s : s[i] # k)
  <1>1. DOMAIN s = 1 .. Len(s) /\ Len(s) \in Nat
    OBVIOUS
  <1>2. IsFiniteSet(1 .. Len(s))
    BY <1>1, FS_Interval
  <1>3. Places(s, k) \in SUBSET (1 .. Len(s))
    BY <1>1 DEF Places
  <1>4. IsFiniteSet(Places(s, k))
    BY <1>2, <1>3, FS_Subset
  <1>5. Times(s, k) \in Nat /\ (Times(s, k) = 0 <=> Places(s, k) = {})
    BY <1>4, FS_CardinalityType, FS_EmptySet DEF Times
  <1> QED
    BY <1>4, <1>5 DEF Places

\* Where k is in t, moved behind m places.
Moved(t, k, m) == {i + m : i \in Places(t, k)}

LEMMA MovedIs ==
  ASSUME NEW t \in Seq(Hash), NEW k, NEW m \in Nat
  PROVE  IsFiniteSet(Moved(t, k, m)) /\ Cardinality(Moved(t, k, m)) = Times(t, k)
  <1> DEFINE P == Places(t, k)
             f == [i \in P |-> i + m]
  <1>1. IsFiniteSet(P) /\ P \subseteq Nat
    <2>1. IsFiniteSet(P)
      BY TimesIs
    <2>2. DOMAIN t \subseteq Nat
      OBVIOUS
    <2> QED
      BY <2>1, <2>2 DEF Places
  <1>2. f \in Surjection(P, Moved(t, k, m))
    BY DEF Surjection, Moved
  <1>3. f \in Injection(P, Moved(t, k, m))
    <2>1. f \in [P -> Moved(t, k, m)] /\ \A i \in P : f[i] = i + m
      BY DEF Moved
    <2> HIDE DEF f
    <2>2. \A i, j \in P : f[i] = f[j] => i = j
      BY <1>1, <2>1
    <2> QED
      BY <2>1, <2>2 DEF Injection, IsInjective
  <1> HIDE DEF f, P
  <1>4. f \in Bijection(P, Moved(t, k, m))
    BY <1>2, <1>3 DEF Bijection
  <1>5. ExistsBijection(P, Moved(t, k, m))
    BY <1>4 DEF ExistsBijection
  <1>6. IsFiniteSet(Moved(t, k, m)) /\ Cardinality(Moved(t, k, m)) = Cardinality(P)
    BY <1>1, <1>5, FS_Bijection
  <1> QED
    BY <1>6 DEF Times, P

LEMMA DisjointSum ==
  ASSUME NEW S, NEW T, IsFiniteSet(S), IsFiniteSet(T), S \cap T = {}
  PROVE  IsFiniteSet(S \cup T) /\ Cardinality(S \cup T) = Cardinality(S) + Cardinality(T)
  <1>1. Cardinality(S) \in Nat /\ Cardinality(T) \in Nat
    BY FS_CardinalityType
  <1>2. Cardinality({}) = 0
    BY FS_EmptySet
  <1>3. /\ IsFiniteSet(S \cup T)
        /\ Cardinality(S \cup T) = Cardinality(S) + Cardinality(T) - Cardinality(S \cap T)
    BY FS_Union
  <1>4. Cardinality(S \cap T) = 0
    BY <1>2
  <1> QED
    BY <1>1, <1>3, <1>4

LEMMA TimesConcat ==
  ASSUME NEW s \in Seq(Hash), NEW t \in Seq(Hash), NEW k
  PROVE  Times(s \o t, k) = Times(s, k) + Times(t, k)
  <1> DEFINE m == Len(s)
             n == Len(t)
             u == s \o t
             A == Places(s, k)
             B == Moved(t, k, m)
  <1>1. /\ u \in Seq(Hash) /\ Len(u) = m + n /\ DOMAIN u = 1 .. m + n
        /\ \A i \in 1 .. m + n : u[i] = IF i <= m THEN s[i] ELSE t[i - m]
    BY ConcatProperties
  <1>2. m \in Nat /\ n \in Nat /\ DOMAIN s = 1 .. m /\ DOMAIN t = 1 .. n
    OBVIOUS
  <1>3. IsFiniteSet(A) /\ IsFiniteSet(B) /\ Cardinality(A) = Times(s, k) /\ Cardinality(B) = Times(t, k)
    <2>1. IsFiniteSet(A) /\ Cardinality(A) = Times(s, k)
      BY TimesIs DEF Times
    <2>2. IsFiniteSet(B) /\ Cardinality(B) = Times(t, k)
      BY <1>2, MovedIs
    <2> QED
      BY <2>1, <2>2
  <1>4. A = {i \in 1 .. m : s[i] = k} /\ B = {i + m : i \in {j \in 1 .. n : t[j] = k}}
    BY <1>2 DEF Places, Moved
  <1> HIDE DEF m, n, u, A, B
  <1>5. A \cap B = {}
    BY <1>2, <1>4
  <1>6. Places(u, k) = A \cup B
    <2>1. ASSUME NEW i \in Places(u, k)
          PROVE  i \in A \cup B
      <3>1. i \in 1 .. m + n /\ u[i] = k
        BY <1>1, <2>1 DEF Places
      <3>2. CASE i <= m
        <4>1. i \in 1 .. m /\ s[i] = k
          BY <1>1, <1>2, <3>1, <3>2
        <4> QED
          BY <1>4, <4>1
      <3>3. CASE ~ (i <= m)
        <4>1. i - m \in 1 .. n /\ (i - m) + m = i
          BY <1>2, <3>1, <3>3
        <4>2. t[i - m] = k
          BY <1>1, <3>1, <3>3
        <4> QED
          BY <1>4, <4>1, <4>2
      <3> QED
        BY <3>2, <3>3
    <2>2. ASSUME NEW i \in A
          PROVE  i \in Places(u, k)
      <3>1. i \in 1 .. m + n /\ i <= m /\ s[i] = k
        BY <1>2, <1>4
      <3> QED
        BY <1>1, <3>1 DEF Places
    <2>3. ASSUME NEW i \in B
          PROVE  i \in Places(u, k)
      <3>1. PICK j \in 1 .. n : t[j] = k /\ i = j + m
        BY <1>4, <2>3
      <3>2. i \in 1 .. m + n /\ ~ (i <= m) /\ i - m = j
        BY <1>2, <3>1
      <3> QED
        BY <1>1, <3>1, <3>2 DEF Places
    <2> QED
      BY <2>1, <2>2, <2>3
  <1>7. Cardinality(A \cup B) = Cardinality(A) + Cardinality(B)
    BY <1>3, <1>5, DisjointSum
  <1> QED
    BY <1>3, <1>6, <1>7 DEF Times, u

LEMMA TimesTail ==
  ASSUME NEW s \in Seq(Hash), s # <<>>, NEW k
  PROVE  Times(s, k) = (IF s[1] = k THEN 1 ELSE 0) + Times(Tail(s), k)
  <1> DEFINE t == Tail(s)
             A == IF s[1] = k THEN {1} ELSE {}
             B == Moved(t, k, 1)
  <1>1. /\ t \in Seq(Hash) /\ Len(t) = Len(s) - 1 /\ \A i \in 1 .. Len(t) : t[i] = s[i + 1]
        /\ Len(s) \in Nat \ {0} /\ DOMAIN s = 1 .. Len(s) /\ DOMAIN t = 1 .. Len(t)
    BY HeadTailProperties
  <1> HIDE DEF t
  <1>2. IsFiniteSet(B) /\ Cardinality(B) = Times(t, k)
    BY <1>1, MovedIs
  <1>3. IsFiniteSet(A) /\ Cardinality(A) = IF s[1] = k THEN 1 ELSE 0
    BY FS_Singleton, FS_EmptySet
  <1>4. B = {i + 1 : i \in {j \in 1 .. Len(t) : t[j] = k}}
    BY <1>1 DEF Places, Moved
  <1>5. A \cap B = {}
    BY <1>1, <1>4
  <1> HIDE DEF B
  <1>6. Places(s, k) = A \cup B
    <2>1. ASSUME NEW i \in Places(s, k), i # 1
          PROVE  i \in B
      <3>1. i \in 1 .. Len(s) /\ s[i] = k
        BY <1>1, <2>1 DEF Places
      <3>2. i - 1 \in 1 .. Len(t) /\ (i - 1) + 1 = i
        BY <1>1, <2>1, <3>1
      <3>3. t[i - 1] = k
        BY <1>1, <3>1, <3>2
      <3> QED
        BY <1>4, <3>2, <3>3
    <2>2. ASSUME NEW i \in B
          PROVE  i \in Places(s, k)
      <3>1. PICK j \in 1 .. Len(t) : t[j] = k /\ i = j + 1
        BY <1>4, <2>2
      <3>2. j + 1 \in 1 .. Len(s) /\ s[j + 1] = k
        BY <1>1, <3>1
      <3> QED
        BY <1>1, <3>1, <3>2 DEF Places
    <2>3. 1 \in Places(s, k) <=> s[1] = k
      BY <1>1 DEF Places
    <2> QED
      BY <2>1, <2>2, <2>3
  <1> HIDE DEF A
  <1>7. Cardinality(A \cup B) = Cardinality(A) + Cardinality(B)
    BY <1>2, <1>3, <1>5, DisjointSum
  <1> QED
    BY <1>2, <1>3, <1>6, <1>7 DEF Times, t

\* Every member of a set is once in its sequence.
LEMMA SetToSeqIs ==
  ASSUME NEW S \in SUBSET Hash
  PROVE  SetToSeq(S) \in Seq(Hash) /\ \A k : Times(SetToSeq(S), k) = IF k \in S THEN 1 ELSE 0
  <1> DEFINE n == Cardinality(S)
             f == SetToSeq(S)
  <1>0. IsFiniteSet(S)
    BY TrieAssumption, FS_Subset
  <1>1. n \in Nat /\ ExistsBijection(1 .. n, S)
    BY <1>0, FS_CardinalityType
  <1>2. \E g \in [1 .. n -> S] : IsInjective(g)
    BY <1>1 DEF ExistsBijection, Bijection, Injection
  <1>3. f \in [1 .. n -> S] /\ IsInjective(f)
    BY <1>2 DEF SetToSeq
  <1> HIDE DEF f
  <1>4. f \in Injection(1 .. n, S)
    BY <1>3 DEF Injection
  <1>5. Cardinality(1 .. n) = n
    BY <1>1, FS_Interval
  <1>6. f \in Surjection(1 .. n, S)
    BY <1>0, <1>4, <1>5, FS_Injection
  <1> HIDE DEF n
  <1>7. f \in Seq(Hash)
    BY <1>1, <1>3
  <1>8. ASSUME NEW k
        PROVE  Times(f, k) = IF k \in S THEN 1 ELSE 0
    <2>1. CASE k \in S
      <3>1. PICK i \in 1 .. n : f[i] = k
        BY <1>6, <2>1 DEF Surjection
      <3>2. Places(f, k) = {i}
        BY <1>3, <3>1 DEF Places, IsInjective
      <3>3. Cardinality({i}) = 1
        BY FS_Singleton
      <3> QED
        BY <2>1, <3>2, <3>3 DEF Times
    <2>2. CASE k \notin S
      <3>1. Places(f, k) = {}
        BY <1>3, <2>2 DEF Places
      <3> QED
        BY <2>2, <3>1, FS_EmptySet DEF Times
    <2> QED
      BY <2>1, <2>2
  <1> QED
    BY <1>7, <1>8 DEF f

-----------------------------------------------------------------------------
(* What a Database refers to                                               *)

LEMMA CachedIs ==
  ASSUME NEW d \in Database
  PROVE  /\ Cached(d) \subseteq Hash /\ NoHash \in DOMAIN d.nodes /\ DOMAIN d.nodes = Cached(d) \cup {NoHash}
         /\ NoHash \notin Cached(d) /\ NoHash \notin Hash
         /\ d.nodes \in [DOMAIN d.nodes -> Node] /\ \A x \in DOMAIN d.nodes : d.nodes[x] \in Node
         /\ d.oldest \in Link /\ d.newest \in Link
  <1>1. d.nodes \in Nodes
    BY DEF Database
  <1> QED
    BY <1>1, NodesAre, TrieAssumption DEF Cached, Link, Database

LEMMA NodeIs ==
  ASSUME NEW n \in Node
  PROVE  /\ n.parents \in Nat /\ DOMAIN n.children \subseteq Hash
         /\ \A k \in DOMAIN n.children : n.children[k] \in Nat \ {0}
         /\ n.flushPrev \in Link /\ n.flushNext \in Link /\ n.children \in ChildCounts
  <1>1. n.parents \in Nat /\ n.children \in ChildCounts /\ n.flushPrev \in Link /\ n.flushNext \in Link
    BY DEF Node
  <1> QED
    BY <1>1 DEF ChildCounts

LEMMA RefsAre ==
  ASSUME NEW h \in Hash
  PROVE  /\ StorageOf[h] \in Link /\ CodeOf[h] \in Link /\ Refs(h) \subseteq Hash /\ ToSet(Kids[h]) \subseteq Hash
         /\ Kids[h] \in Seq(Hash) /\ Needs(h) = ToSet(Kids[h]) \cup Refs(h)
  <1>1. StorageOf[h] \in Link /\ CodeOf[h] \in Link /\ Kids[h] \in Seq(Hash)
    BY TrieAssumption DEF Link
  <1>2. ToSet(Kids[h]) \subseteq Hash
    BY <1>1 DEF ToSet
  <1> QED
    BY <1>1, <1>2 DEF Refs, Link, Needs

LEMMA ChildsAre ==
  ASSUME NEW d \in Database, NEW h \in Cached(d)
  PROVE  /\ childs(d, h) \in Seq(Hash)
         /\ \A k : Times(childs(d, h), k) = (IF k \in DOMAIN d.nodes[h].children THEN 1 ELSE 0) + Times(Kids[h], k)
         /\ ToSet(childs(d, h)) = DOMAIN d.nodes[h].children \cup ToSet(Kids[h])
  <1> DEFINE S == DOMAIN d.nodes[h].children
             s == SetToSeq(S)
             K == Kids[h]
  <1>1. S \in SUBSET Hash /\ h \in Hash
    BY CachedIs, NodeIs
  <1> HIDE DEF S
  <1>2. s \in Seq(Hash) /\ \A k : Times(s, k) = IF k \in S THEN 1 ELSE 0
    BY <1>1, SetToSeqIs
  <1>3. K \in Seq(Hash)
    BY <1>1, RefsAre
  <1>4. childs(d, h) = s \o K
    BY DEF childs, S
  <1> HIDE DEF s, K
  <1>5. s \o K \in Seq(Hash) /\ \A k : Times(s \o K, k) = Times(s, k) + Times(K, k)
    BY <1>2, <1>3, TimesConcat, ConcatProperties
  <1>6. \A k : Times(s \o K, k) = (IF k \in S THEN 1 ELSE 0) + Times(K, k)
    BY <1>2, <1>5
  <1>7. ASSUME NEW k
        PROVE  k \in ToSet(s \o K) <=> k \in S \cup ToSet(K)
    <2>1. \A t \in Seq(Hash) : k \in ToSet(t) <=> Times(t, k) # 0
      BY TimesIs DEF ToSet
    <2>2. Times(K, k) \in Nat
      BY <1>3, TimesIs
    <2>3. k \in ToSet(s \o K) <=> Times(s \o K, k) # 0
      BY <1>5, <2>1
    <2>4. k \in ToSet(K) <=> Times(K, k) # 0
      BY <1>3, <2>1
    <2>5. Times(s \o K, k) = (IF k \in S THEN 1 ELSE 0) + Times(K, k)
      BY <1>6
    <2>6. Times(s \o K, k) # 0 <=> k \in S \/ Times(K, k) # 0
      BY <2>2, <2>5
    <2> QED
      BY <2>3, <2>4, <2>6
  <1> QED
    BY <1>4, <1>5, <1>6, <1>7 DEF S, K

\* The uses of k by cached nodes: in which node, and where among its children.
UsesIn(d, x, k) == {x} \X Places(childs(d, x), k)

Uses(d, k) == UNION {UsesIn(d, x, k) : x \in Cached(d)}

\* How often the meta root refers to k.
Rooted(d, k) == IF k \in DOMAIN d.nodes[NoHash].children THEN d.nodes[NoHash].children[k] ELSE 0

LEMMA UsesInIs ==
  ASSUME NEW d \in Database, NEW x \in Cached(d), NEW k
  PROVE  IsFiniteSet(UsesIn(d, x, k)) /\ Cardinality(UsesIn(d, x, k)) = Times(childs(d, x), k)
  <1>1. childs(d, x) \in Seq(Hash)
    BY ChildsAre
  <1> DEFINE P == Places(childs(d, x), k)
  <1>2. IsFiniteSet(P) /\ Cardinality(P) = Times(childs(d, x), k) /\ Times(childs(d, x), k) \in Nat
    BY <1>1, TimesIs DEF Times
  <1>3. IsFiniteSet({x}) /\ Cardinality({x}) = 1
    BY FS_Singleton
  <1> HIDE DEF P
  <1>4. IsFiniteSet({x} \X P) /\ Cardinality({x} \X P) = Cardinality({x}) * Cardinality(P)
    BY <1>2, <1>3, FS_Product
  <1>5. Cardinality({x} \X P) = Times(childs(d, x), k)
    BY <1>2, <1>3, <1>4
  <1> QED
    BY <1>4, <1>5 DEF UsesIn, P

LEMMA UsesEmpty ==
  ASSUME NEW d \in Database, NEW k, Uses(d, k) = {}, NEW x \in Cached(d)
  PROVE  k \notin ToSet(childs(d, x))
  <1>1. childs(d, x) \in Seq(Hash)
    BY ChildsAre
  <1>2. UsesIn(d, x, k) = {}
    BY DEF Uses
  <1>3. Places(childs(d, x), k) = {}
    <2>1. ASSUME NEW i \in Places(childs(d, x), k)
          PROVE  FALSE
      <3>1. <<x, i>> \in UsesIn(d, x, k)
        BY DEF UsesIn
      <3> QED
        BY <1>2, <3>1
    <2> QED
      BY <2>1
  <1> QED
    BY <1>3 DEF Places, ToSet

LEMMA UsesNone ==
  ASSUME NEW d \in Database, NEW k, \A x \in Cached(d) : k \notin ToSet(childs(d, x))
  PROVE  Uses(d, k) = {}
  <1>1. ASSUME NEW x \in Cached(d)
        PROVE  UsesIn(d, x, k) = {}
    <2>1. Places(childs(d, x), k) = {}
      BY DEF Places, ToSet
    <2> QED
      BY <2>1 DEF UsesIn
  <1> QED
    BY <1>1 DEF Uses

\* d is e and one node more.
OneMore(d, e, c) ==
  /\ c \in Cached(d) /\ Cached(e) = Cached(d) \ {c}
  /\ \A x \in Cached(e) : e.nodes[x].children = d.nodes[x].children

LEMMA UsesMore ==
  ASSUME NEW d \in Database, NEW e \in Database, NEW c, OneMore(d, e, c), NEW k,
         IsFiniteSet(Uses(d, k)) \/ IsFiniteSet(Uses(e, k))
  PROVE  /\ IsFiniteSet(Uses(d, k)) /\ IsFiniteSet(Uses(e, k))
         /\ Cardinality(Uses(d, k)) = Cardinality(Uses(e, k)) + Times(childs(d, c), k)
  <1> DEFINE A == Uses(d, k)
             B == Uses(e, k)
             C == UsesIn(d, c, k)
  <1>1. IsFiniteSet(C) /\ Cardinality(C) = Times(childs(d, c), k)
    BY UsesInIs DEF OneMore
  <1>2. \A x \in Cached(e) : UsesIn(e, x, k) = UsesIn(d, x, k)
    BY DEF OneMore, UsesIn, childs
  <1>3. A = B \cup C
    BY <1>2 DEF Uses, OneMore
  <1>4. B \cap C = {}
    <2>1. ASSUME NEW x \in Cached(e), NEW u \in UsesIn(e, x, k)
          PROVE  u \notin C
      BY DEF UsesIn, OneMore
    <2> QED
      BY <2>1 DEF Uses
  <1>5. IsFiniteSet(B)
    <2>1. B \in SUBSET A
      BY <1>3
    <2> HIDE DEF A, B
    <2>2. IsFiniteSet(A) \/ IsFiniteSet(B)
      BY DEF A, B
    <2> QED
      BY <2>1, <2>2, FS_Subset
  <1> HIDE DEF A, B, C
  <1>6. IsFiniteSet(A) /\ Cardinality(A) = Cardinality(B) + Cardinality(C)
    BY <1>1, <1>3, <1>4, <1>5, DisjointSum
  <1> QED
    BY <1>1, <1>5, <1>6 DEF A, B

\* The same children, the same uses.
LEMMA UsesSame ==
  ASSUME NEW d \in Database, NEW e \in Database, Cached(e) = Cached(d), NEW k,
         \A x \in Cached(d) : DOMAIN e.nodes[x].children = DOMAIN d.nodes[x].children
  PROVE  Uses(e, k) = Uses(d, k)
  <1>1. \A x \in Cached(d) : UsesIn(e, x, k) = UsesIn(d, x, k)
    BY DEF UsesIn, childs
  <1> QED
    BY <1>1 DEF Uses

-----------------------------------------------------------------------------
(* The flush-list                                                          *)

\* Every node has a rank: the flush-list runs through the cached ones by rank.
\* Ranks stay as nodes leave; a new node has rank n, above all others.
Ranked(d, r, n) ==
  /\ r \in [Hash -> Nat] /\ n \in Nat
  /\ \A h \in Cached(d) : r[h] < n
  /\ \A h, k \in Cached(d) : r[h] = r[k] => h = k
  /\ Cached(d) = {} => d.oldest = NoHash
  /\ Cached(d) # {} => d.oldest \in Cached(d) /\ d.newest \in Cached(d)
  /\ \A h \in Cached(d) : r[d.oldest] <= r[h] /\ r[h] <= r[d.newest]
  /\ \A h \in Cached(d) :
       LET k == d.nodes[h].flushNext
       IN  IF h = d.newest THEN k = NoHash
           ELSE /\ k \in Cached(d) /\ r[h] < r[k] /\ d.nodes[k].flushPrev = h
                /\ \A x \in Cached(d) : r[x] <= r[h] \/ r[k] <= r[x]
  /\ \A h \in Cached(d) \ {d.oldest} :
       d.nodes[h].flushPrev \in Cached(d) /\ d.nodes[d.nodes[h].flushPrev].flushNext = h

\* Of the links in f only those of the nodes in P (to what came before) and N
\* (to what comes next) differ in g.
Relinked(f, g, P, N) ==
  /\ \A x \in DOMAIN g : x \notin P => g[x].flushPrev = f[x].flushPrev
  /\ \A x \in DOMAIN g : x \notin N => g[x].flushNext = f[x].flushNext

\* The oldest node leaves; what its successor says of it does not matter.
LEMMA OldestOut ==
  ASSUME NEW d \in Database, NEW e \in Database, NEW r, NEW n, Ranked(d, r, n), NEW h \in Cached(d),
         h = d.oldest, Cached(e) = Cached(d) \ {h}, e.oldest = d.nodes[h].flushNext, e.newest = d.newest,
         Relinked(d.nodes, e.nodes, {e.oldest}, {})
  PROVE  Ranked(e, r, n)
  <1>1. /\ Cached(d) \subseteq Hash /\ NoHash \notin Cached(d) /\ Cached(e) \subseteq DOMAIN e.nodes
        /\ d.oldest \in Cached(d) /\ d.newest \in Cached(d)
    BY CachedIs DEF Ranked
  <1>2. r \in [Hash -> Nat] /\ n \in Nat
    BY DEF Ranked
  <1>3. CASE h = d.newest
    <2>1. Cached(e) = {}
      BY <1>1, <1>2, <1>3 DEF Ranked
    <2>2. e.oldest = NoHash
      BY <1>3 DEF Ranked
    <2> QED
      BY <1>2, <2>1, <2>2 DEF Ranked
  <1>4. CASE h # d.newest
    <2> DEFINE k == d.nodes[h].flushNext
    <2>1. k \in Cached(d) /\ r[h] < r[k] /\ \A x \in Cached(d) : r[x] <= r[h] \/ r[k] <= r[x]
      BY <1>4 DEF Ranked
    <2>2. k \in Cached(e) /\ d.newest \in Cached(e) /\ e.oldest = k
      BY <1>1, <1>2, <1>4, <2>1
    <2> HIDE DEF k
    <2>3. \A x \in Cached(e) : r[k] <= r[x] /\ r[x] <= r[d.newest]
      BY <1>1, <1>2, <2>1 DEF Ranked
    <2>4. \A x \in Cached(e) : e.nodes[x].flushNext = d.nodes[x].flushNext
      BY <1>1 DEF Relinked
    <2>5. \A x \in Cached(e) \ {k} : e.nodes[x].flushPrev = d.nodes[x].flushPrev
      BY <1>1, <2>2 DEF Relinked
    <2>6. ASSUME NEW x \in Cached(e)
          PROVE  LET y == e.nodes[x].flushNext
                 IN  IF x = e.newest THEN y = NoHash
                     ELSE /\ y \in Cached(e) /\ r[x] < r[y] /\ e.nodes[y].flushPrev = x
                          /\ \A z \in Cached(e) : r[z] <= r[x] \/ r[y] <= r[z]
      <3> DEFINE y == d.nodes[x].flushNext
      <3>1. CASE x = d.newest
        BY <2>4, <3>1 DEF Ranked
      <3>2. CASE x # d.newest
        <4>1. /\ y \in Cached(d) /\ r[x] < r[y] /\ d.nodes[y].flushPrev = x
              /\ \A z \in Cached(d) : r[z] <= r[x] \/ r[y] <= r[z]
          BY <3>2 DEF Ranked
        <4>2. r[h] <= r[x] /\ r[k] <= r[x]
          BY <2>3 DEF Ranked
        <4>3. y # h /\ y # k
          BY <1>1, <1>2, <4>1, <4>2
        <4>4. y \in Cached(e) \ {k} /\ e.nodes[y].flushPrev = x
          BY <2>5, <4>1, <4>3
        <4> QED
          BY <2>4, <3>2, <4>1, <4>4
      <3> QED
        BY <3>1, <3>2
    <2>7. ASSUME NEW x \in Cached(e) \ {e.oldest}
          PROVE  e.nodes[x].flushPrev \in Cached(e) /\ e.nodes[e.nodes[x].flushPrev].flushNext = x
      <3> DEFINE p == d.nodes[x].flushPrev
      <3>1. p \in Cached(d) /\ d.nodes[p].flushNext = x /\ x # k /\ e.nodes[x].flushPrev = p
        BY <2>2, <2>5 DEF Ranked
      <3>2. p # h
        BY <3>1 DEF k
      <3> HIDE DEF p
      <3> QED
        BY <2>4, <3>1, <3>2
    <2>8. /\ \A x \in Cached(e) : r[x] < n
          /\ \A x, y \in Cached(e) : r[x] = r[y] => x = y
      BY DEF Ranked
    <2> QED
      BY <1>2, <2>2, <2>3, <2>6, <2>7, <2>8 DEF Ranked
  <1> QED
    BY <1>3, <1>4

\* The newest node leaves, and is not the oldest.
LEMMA NewestOut ==
  ASSUME NEW d \in Database, NEW e \in Database, NEW r, NEW n, Ranked(d, r, n), NEW h \in Cached(d),
         h # d.oldest, h = d.newest, Cached(e) = Cached(d) \ {h}, e.oldest = d.oldest,
         e.newest = d.nodes[h].flushPrev, Relinked(d.nodes, e.nodes, {}, {e.newest}),
         e.nodes[e.newest].flushNext = NoHash
  PROVE  Ranked(e, r, n)
  <1> DEFINE p == d.nodes[h].flushPrev
  <1>1. /\ Cached(d) \subseteq Hash /\ NoHash \notin Cached(d) /\ Cached(e) \subseteq DOMAIN e.nodes
        /\ d.oldest \in Cached(d) /\ d.oldest \in Cached(e)
    BY CachedIs DEF Ranked
  <1>2. r \in [Hash -> Nat] /\ n \in Nat
    BY DEF Ranked
  <1>3. p \in Cached(d) /\ d.nodes[p].flushNext = h
    BY DEF Ranked
  <1>4. p # h /\ p # d.newest
    <2>1. d.nodes[h].flushNext = NoHash
      BY DEF Ranked
    <2> QED
      BY <1>1, <1>3, <2>1
  <1>5. r[p] < r[h] /\ \A x \in Cached(d) : r[x] <= r[p] \/ r[h] <= r[x]
    BY <1>3, <1>4 DEF Ranked
  <1>6. p \in Cached(e) /\ e.newest = p
    BY <1>3, <1>4
  <1> HIDE DEF p
  <1>7. \A x \in Cached(e) : r[d.oldest] <= r[x] /\ r[x] <= r[p]
    <2> SUFFICES ASSUME NEW x \in Cached(e)
                 PROVE  r[d.oldest] <= r[x] /\ r[x] <= r[p]
      OBVIOUS
    <2>1. r[d.oldest] <= r[x] /\ r[x] <= r[h] /\ r[x] # r[h]
      BY DEF Ranked
    <2>2. r[x] <= r[p] \/ r[h] <= r[x]
      BY <1>5
    <2> QED
      BY <1>1, <1>2, <2>1, <2>2
  <1>8. \A x \in Cached(e) : e.nodes[x].flushPrev = d.nodes[x].flushPrev
    BY <1>1 DEF Relinked
  <1>9. \A x \in Cached(e) \ {p} : e.nodes[x].flushNext = d.nodes[x].flushNext
    BY <1>1, <1>6 DEF Relinked
  <1>10. \A x \in Cached(e) \ {p} : x # d.newest /\ d.nodes[x].flushNext # h
    <2> SUFFICES ASSUME NEW x \in Cached(e) \ {p}
                 PROVE  x # d.newest /\ d.nodes[x].flushNext # h
      OBVIOUS
    <2>1. x # d.newest
      OBVIOUS
    <2>2. ASSUME d.nodes[x].flushNext = h
          PROVE  FALSE
      <3>1. d.nodes[h].flushPrev = x
        BY <2>1, <2>2 DEF Ranked
      <3> QED
        BY <3>1 DEF p
    <2> QED
      BY <2>1, <2>2
  <1>11. ASSUME NEW x \in Cached(e)
         PROVE  LET y == e.nodes[x].flushNext
                IN  IF x = e.newest THEN y = NoHash
                    ELSE /\ y \in Cached(e) /\ r[x] < r[y] /\ e.nodes[y].flushPrev = x
                         /\ \A z \in Cached(e) : r[z] <= r[x] \/ r[y] <= r[z]
    <2>1. CASE x = p
      BY <1>6, <2>1
    <2>2. CASE x # p
      <3> DEFINE y == d.nodes[x].flushNext
      <3>1. x # d.newest /\ y # h
        BY <1>10, <2>2
      <3>2. /\ y \in Cached(d) /\ r[x] < r[y] /\ d.nodes[y].flushPrev = x
            /\ \A z \in Cached(d) : r[z] <= r[x] \/ r[y] <= r[z]
        BY <3>1 DEF Ranked
      <3>3. y \in Cached(e) /\ e.nodes[x].flushNext = y /\ e.nodes[y].flushPrev = x
        BY <1>8, <1>9, <2>2, <3>1, <3>2
      <3> QED
        BY <1>6, <2>2, <3>2, <3>3
    <2> QED
      BY <2>1, <2>2
  <1>12. ASSUME NEW x \in Cached(e) \ {e.oldest}
         PROVE  e.nodes[x].flushPrev \in Cached(e) /\ e.nodes[e.nodes[x].flushPrev].flushNext = x
    <2> DEFINE y == d.nodes[x].flushPrev
    <2>1. y \in Cached(d) /\ d.nodes[y].flushNext = x /\ e.nodes[x].flushPrev = y
      BY <1>8 DEF Ranked
    <2>2. y # h /\ y # p
      <3>1. d.nodes[h].flushNext = NoHash /\ x # NoHash /\ x # h
        BY <1>1 DEF Ranked
      <3> QED
        BY <1>3, <2>1, <3>1 DEF p
    <2> HIDE DEF y
    <2> QED
      BY <1>9, <2>1, <2>2
  <1>13. /\ \A x \in Cached(e) : r[x] < n
         /\ \A x, y \in Cached(e) : r[x] = r[y] => x = y
    BY DEF Ranked
  <1> QED
    BY <1>1, <1>2, <1>6, <1>7, <1>11, <1>12, <1>13 DEF Ranked

\* A node between two others leaves.
LEMMA MiddleOut ==
  ASSUME NEW d \in Database, NEW e \in Database, NEW r, NEW n, Ranked(d, r, n), NEW h \in Cached(d),
         h # d.oldest, h # d.newest, Cached(e) = Cached(d) \ {h}, e.oldest = d.oldest, e.newest = d.newest,
         NEW p, p = d.nodes[h].flushPrev, NEW q, q = d.nodes[h].flushNext, Relinked(d.nodes, e.nodes, {q}, {p}),
         p \in Cached(e) => e.nodes[p].flushNext = q, q \in Cached(e) => e.nodes[q].flushPrev = p
  PROVE  Ranked(e, r, n)
  <1>1. /\ Cached(d) \subseteq Hash /\ NoHash \notin Cached(d) /\ Cached(e) \subseteq DOMAIN e.nodes
        /\ d.oldest \in Cached(e) /\ d.newest \in Cached(e)
    BY CachedIs DEF Ranked
  <1>2. r \in [Hash -> Nat] /\ n \in Nat
    BY DEF Ranked
  <1>3. p \in Cached(d) /\ d.nodes[p].flushNext = h
    BY DEF Ranked
  <1>4. /\ q \in Cached(d) /\ r[h] < r[q] /\ d.nodes[q].flushPrev = h
        /\ \A x \in Cached(d) : r[x] <= r[h] \/ r[q] <= r[x]
    BY DEF Ranked
  <1>5. p # d.newest
    <2>1. d.nodes[d.newest].flushNext = NoHash
      BY <1>1 DEF Ranked
    <2> QED
      BY <1>1, <1>3, <2>1
  <1>6. r[p] < r[h] /\ \A x \in Cached(d) : r[x] <= r[p] \/ r[h] <= r[x]
    BY <1>3, <1>5 DEF Ranked
  <1>7. p \in Cached(e) /\ q \in Cached(e) /\ p # q /\ p # h /\ q # h
    BY <1>1, <1>2, <1>3, <1>4, <1>6
  <1>8. e.nodes[p].flushNext = q /\ e.nodes[q].flushPrev = p
    BY <1>7
  <1>9. \A x \in Cached(e) \ {q} : e.nodes[x].flushPrev = d.nodes[x].flushPrev
    BY <1>1 DEF Relinked
  <1>10. \A x \in Cached(e) \ {p} : e.nodes[x].flushNext = d.nodes[x].flushNext
    BY <1>1 DEF Relinked
  <1>11. ASSUME NEW x \in Cached(e)
         PROVE  LET y == e.nodes[x].flushNext
                IN  IF x = e.newest THEN y = NoHash
                    ELSE /\ y \in Cached(e) /\ r[x] < r[y] /\ e.nodes[y].flushPrev = x
                         /\ \A z \in Cached(e) : r[z] <= r[x] \/ r[y] <= r[z]
    <2>1. CASE x = p
      <3>1. r[p] < r[q]
        BY <1>1, <1>2, <1>3, <1>4, <1>6
      <3>2. ASSUME NEW z \in Cached(e)
            PROVE  r[z] <= r[p] \/ r[q] <= r[z]
        <4>1. r[z] # r[h]
          BY DEF Ranked
        <4>2. r[z] <= r[p] \/ r[h] <= r[z]
          BY <1>6
        <4>3. r[z] <= r[h] \/ r[q] <= r[z]
          BY <1>4
        <4> QED
          BY <1>1, <1>2, <4>1, <4>2, <4>3
      <3> QED
        BY <1>5, <1>7, <1>8, <2>1, <3>1, <3>2
    <2>2. CASE x # p
      <3> DEFINE y == d.nodes[x].flushNext
      <3>1. e.nodes[x].flushNext = y
        BY <1>10, <2>2
      <3>2. CASE x = d.newest
        BY <3>1, <3>2 DEF Ranked
      <3>3. CASE x # d.newest
        <4>1. /\ y \in Cached(d) /\ r[x] < r[y] /\ d.nodes[y].flushPrev = x
              /\ \A z \in Cached(d) : r[z] <= r[x] \/ r[y] <= r[z]
          BY <3>3 DEF Ranked
        <4>2. y # h /\ y # q
          BY <1>4, <2>2, <4>1
        <4>3. y \in Cached(e) /\ e.nodes[y].flushPrev = x
          BY <1>9, <4>1, <4>2
        <4> HIDE DEF y
        <4> QED
          BY <3>1, <3>3, <4>1, <4>3
      <3> QED
        BY <3>2, <3>3
    <2> QED
      BY <2>1, <2>2
  <1>12. ASSUME NEW x \in Cached(e) \ {e.oldest}
         PROVE  e.nodes[x].flushPrev \in Cached(e) /\ e.nodes[e.nodes[x].flushPrev].flushNext = x
    <2>1. CASE x = q
      BY <1>7, <1>8, <2>1
    <2>2. CASE x # q
      <3> DEFINE y == d.nodes[x].flushPrev
      <3>1. y \in Cached(d) /\ d.nodes[y].flushNext = x /\ e.nodes[x].flushPrev = y
        BY <1>9, <2>2 DEF Ranked
      <3>2. y # h /\ y # p
        BY <1>3, <2>2, <3>1
      <3> HIDE DEF y
      <3> QED
        BY <1>10, <3>1, <3>2
    <2> QED
      BY <2>1, <2>2
  <1>13. /\ \A x \in Cached(e) : r[x] < n
         /\ \A x, y \in Cached(e) : r[x] = r[y] => x = y
         /\ \A x \in Cached(e) : r[e.oldest] <= r[x] /\ r[x] <= r[e.newest]
    BY DEF Ranked
  <1> QED
    BY <1>1, <1>2, <1>11, <1>12, <1>13 DEF Ranked

\* A new node comes to the end.
LEMMA RankedIn ==
  ASSUME NEW d \in Database, NEW e \in Database, NEW r, NEW n, Ranked(d, r, n), NEW h \in Hash, h \notin Cached(d),
         Cached(e) = Cached(d) \cup {h}, e.newest = h, e.oldest = (IF d.oldest = NoHash THEN h ELSE d.oldest),
         e.nodes[h].flushPrev = d.newest, e.nodes[h].flushNext = NoHash,
         \A x \in Cached(d) : /\ e.nodes[x].flushPrev = d.nodes[x].flushPrev
                              /\ e.nodes[x].flushNext = IF x = d.newest THEN h ELSE d.nodes[x].flushNext
  PROVE  Ranked(e, [r EXCEPT ![h] = n], n + 1)
  <1> DEFINE s == [r EXCEPT ![h] = n]
  <1>1. Cached(d) \subseteq Hash /\ NoHash \notin Cached(d) /\ h # NoHash
    BY CachedIs
  <1>2. r \in [Hash -> Nat] /\ n \in Nat /\ \A x \in Cached(d) : r[x] < n
    BY DEF Ranked
  <1>3. s \in [Hash -> Nat] /\ n + 1 \in Nat /\ s[h] = n /\ \A x \in Cached(d) : s[x] = r[x]
    BY <1>1, <1>2
  <1> HIDE DEF s
  <1>4. /\ \A x \in Cached(e) : s[x] < n + 1 /\ s[x] <= s[h]
        /\ \A x \in Cached(d) : s[x] < s[h]
    BY <1>1, <1>2, <1>3
  <1>5. \A x, y \in Cached(e) : s[x] = s[y] => x = y
    <2> SUFFICES ASSUME NEW x \in Cached(e), NEW y \in Cached(e), s[x] = s[y]
                 PROVE  x = y
      OBVIOUS
    <2>1. x \in Cached(d) => r[x] < n /\ s[x] = r[x] /\ r[x] \in Nat
      BY <1>1, <1>2, <1>3
    <2>2. y \in Cached(d) => r[y] < n /\ s[y] = r[y] /\ r[y] \in Nat
      BY <1>1, <1>2, <1>3
    <2>3. CASE x \in Cached(d) /\ y \in Cached(d)
      BY <2>1, <2>2, <2>3 DEF Ranked
    <2>4. CASE x = h /\ y \in Cached(d)
      BY <1>2, <1>3, <2>2, <2>4
    <2>5. CASE y = h /\ x \in Cached(d)
      BY <1>2, <1>3, <2>1, <2>5
    <2> QED
      BY <2>3, <2>4, <2>5
  <1>6. CASE Cached(d) = {}
    <2>1. d.oldest = NoHash /\ Cached(e) = {h}
      BY <1>6 DEF Ranked
    <2> QED
      BY <1>3, <1>4, <1>5, <2>1 DEF Ranked
  <1>7. CASE Cached(d) # {}
    <2>1. d.oldest \in Cached(d) /\ d.newest \in Cached(d) /\ e.oldest = d.oldest
      BY <1>1, <1>7 DEF Ranked
    <2>2. \A x \in Cached(e) : s[e.oldest] <= s[x]
      <3> SUFFICES ASSUME NEW x \in Cached(e)
                   PROVE  s[e.oldest] <= s[x]
        OBVIOUS
      <3>1. CASE x = h
        BY <1>4, <2>1, <3>1
      <3>2. CASE x \in Cached(d)
        BY <1>3, <2>1, <3>2 DEF Ranked
      <3> QED
        BY <3>1, <3>2
    <2>3. ASSUME NEW x \in Cached(e)
          PROVE  LET y == e.nodes[x].flushNext
                 IN  IF x = e.newest THEN y = NoHash
                     ELSE /\ y \in Cached(e) /\ s[x] < s[y] /\ e.nodes[y].flushPrev = x
                          /\ \A z \in Cached(e) : s[z] <= s[x] \/ s[y] <= s[z]
      <3>1. CASE x = h
        BY <3>1
      <3>2. CASE x # h /\ x = d.newest
        <4>1. e.nodes[x].flushNext = h /\ x \in Cached(d) /\ e.nodes[h].flushPrev = x
          BY <2>1, <3>2
        <4>2. s[x] < s[h] /\ \A z \in Cached(d) : s[z] <= s[x]
          <5>1. \A z \in Cached(d) : r[z] <= r[d.newest]
            BY DEF Ranked
          <5> QED
            BY <1>3, <1>4, <3>2, <4>1, <5>1
        <4>3. s[h] <= s[h]
          BY <1>2, <1>3
        <4> QED
          BY <3>2, <4>1, <4>2, <4>3
      <3>3. CASE x # h /\ x # d.newest
        <4> DEFINE y == d.nodes[x].flushNext
        <4>1. x \in Cached(d) /\ e.nodes[x].flushNext = y
          BY <3>3
        <4>2. /\ y \in Cached(d) /\ r[x] < r[y] /\ d.nodes[y].flushPrev = x
              /\ \A z \in Cached(d) : r[z] <= r[x] \/ r[y] <= r[z]
          BY <3>3, <4>1 DEF Ranked
        <4> HIDE DEF y
        <4>3. s[x] < s[y] /\ e.nodes[y].flushPrev = x
          BY <1>3, <4>1, <4>2
        <4>4. \A z \in Cached(d) : s[z] <= s[x] \/ s[y] <= s[z]
          BY <1>3, <4>1, <4>2
        <4>5. s[y] <= s[h]
          BY <1>4, <4>2
        <4> QED
          BY <3>3, <4>1, <4>2, <4>3, <4>4, <4>5
      <3> QED
        BY <3>1, <3>2, <3>3
    <2>4. ASSUME NEW x \in Cached(e) \ {e.oldest}
          PROVE  e.nodes[x].flushPrev \in Cached(e) /\ e.nodes[e.nodes[x].flushPrev].flushNext = x
      <3>1. CASE x = h
        BY <2>1, <3>1
      <3>2. CASE x # h
        <4> DEFINE y == d.nodes[x].flushPrev
        <4>1. y \in Cached(d) /\ d.nodes[y].flushNext = x /\ e.nodes[x].flushPrev = y /\ x \in Cached(d)
          BY <2>1, <3>2 DEF Ranked
        <4>2. y # d.newest
          <5>1. d.nodes[d.newest].flushNext = NoHash
            BY <2>1 DEF Ranked
          <5> QED
            BY <1>1, <4>1, <5>1
        <4> HIDE DEF y
        <4> QED
          BY <4>1, <4>2
      <3> QED
        BY <3>1, <3>2
    <2> QED
      BY <1>3, <1>4, <1>5, <1>7, <2>1, <2>2, <2>3, <2>4 DEF Ranked
  <1> QED
    BY <1>6, <1>7 DEF s

\* The same links, the same order.
LEMMA RankedSame ==
  ASSUME NEW d \in Database, NEW e \in Database, NEW r, NEW n, Ranked(d, r, n), DOMAIN e.nodes = DOMAIN d.nodes,
         e.oldest = d.oldest, e.newest = d.newest,
         \A x \in Cached(d) : e.nodes[x].flushPrev = d.nodes[x].flushPrev /\ e.nodes[x].flushNext = d.nodes[x].flushNext
  PROVE  Ranked(e, r, n)
  <1>1. Cached(e) = Cached(d)
    BY DEF Cached
  <1>2. /\ r \in [Hash -> Nat] /\ n \in Nat /\ \A x \in Cached(e) : r[x] < n
        /\ \A x, y \in Cached(e) : r[x] = r[y] => x = y
        /\ Cached(e) = {} => e.oldest = NoHash
        /\ Cached(e) # {} => e.oldest \in Cached(e) /\ e.newest \in Cached(e)
        /\ \A x \in Cached(e) : r[e.oldest] <= r[x] /\ r[x] <= r[e.newest]
    BY <1>1 DEF Ranked
  <1>3. ASSUME NEW x \in Cached(e)
        PROVE  LET y == e.nodes[x].flushNext
               IN  IF x = e.newest THEN y = NoHash
                   ELSE /\ y \in Cached(e) /\ r[x] < r[y] /\ e.nodes[y].flushPrev = x
                        /\ \A z \in Cached(e) : r[z] <= r[x] \/ r[y] <= r[z]
    BY <1>1 DEF Ranked
  <1>4. ASSUME NEW x \in Cached(e) \ {e.oldest}
        PROVE  e.nodes[x].flushPrev \in Cached(e) /\ e.nodes[e.nodes[x].flushPrev].flushNext = x
    BY <1>1 DEF Ranked
  <1> QED
    BY <1>2, <1>3, <1>4 DEF Ranked

-----------------------------------------------------------------------------
(* Taking a node out                                                       *)

\* One link is set to another.
SetPrev(f, k, v) == [f EXCEPT ![k].flushPrev = v]
SetNext(f, k, v) == [f EXCEPT ![k].flushNext = v]

\* The counts are the same for all nodes of g.
Alike(f, g) == \A x \in DOMAIN g : g[x].parents = f[x].parents /\ g[x].children = f[x].children

LEMMA SetPrevIs ==
  ASSUME NEW f \in Nodes, NEW k, NEW v \in Link, NEW g, g = SetPrev(f, k, v)
  PROVE  /\ g \in Nodes /\ DOMAIN g = DOMAIN f /\ Alike(f, g)
         /\ \A x \in DOMAIN f : g[x].flushNext = f[x].flushNext /\ g[x].flushPrev = IF x = k THEN v ELSE f[x].flushPrev
  <1>1. DOMAIN f \in SUBSET Link /\ NoHash \in DOMAIN f /\ \A x \in DOMAIN f : f[x] \in Node
    BY NodesAre
  <1>2. DOMAIN g = DOMAIN f /\ g = [x \in DOMAIN f |-> g[x]]
    BY DEF SetPrev
  <1>3. ASSUME NEW x \in DOMAIN f
        PROVE  /\ g[x] \in Node /\ g[x].children = f[x].children /\ g[x].parents = f[x].parents
               /\ g[x].flushNext = f[x].flushNext /\ g[x].flushPrev = IF x = k THEN v ELSE f[x].flushPrev
    <2>1. g[x] = IF x = k THEN [f[x] EXCEPT !.flushPrev = v] ELSE f[x]
      BY DEF SetPrev
    <2> QED
      BY <1>1, <2>1 DEF Node
  <1>4. g \in [DOMAIN f -> Node]
    BY <1>2, <1>3
  <1> QED
    BY <1>1, <1>2, <1>3, <1>4, NodesIf DEF Alike

LEMMA SetNextIs ==
  ASSUME NEW f \in Nodes, NEW k, NEW v \in Link, NEW g, g = SetNext(f, k, v)
  PROVE  /\ g \in Nodes /\ DOMAIN g = DOMAIN f /\ Alike(f, g)
         /\ \A x \in DOMAIN f : g[x].flushPrev = f[x].flushPrev /\ g[x].flushNext = IF x = k THEN v ELSE f[x].flushNext
  <1>1. DOMAIN f \in SUBSET Link /\ NoHash \in DOMAIN f /\ \A x \in DOMAIN f : f[x] \in Node
    BY NodesAre
  <1>2. DOMAIN g = DOMAIN f /\ g = [x \in DOMAIN f |-> g[x]]
    BY DEF SetNext
  <1>3. ASSUME NEW x \in DOMAIN f
        PROVE  /\ g[x] \in Node /\ g[x].children = f[x].children /\ g[x].parents = f[x].parents
               /\ g[x].flushPrev = f[x].flushPrev /\ g[x].flushNext = IF x = k THEN v ELSE f[x].flushNext
    <2>1. g[x] = IF x = k THEN [f[x] EXCEPT !.flushNext = v] ELSE f[x]
      BY DEF SetNext
    <2> QED
      BY <1>1, <2>1 DEF Node
  <1>4. g \in [DOMAIN f -> Node]
    BY <1>2, <1>3
  <1> QED
    BY <1>1, <1>2, <1>3, <1>4, NodesIf DEF Alike

LEMMA DeletedIs ==
  ASSUME NEW d \in Database, NEW h \in Hash, NEW e, e = delete(d, h)
  PROVE  /\ e \in Database /\ DOMAIN e.nodes = DOMAIN d.nodes \ {h} /\ Cached(e) = Cached(d) \ {h}
         /\ e.oldest = d.oldest /\ e.newest = d.newest
         /\ \A x \in DOMAIN e.nodes : e.nodes[x] = d.nodes[x]
  <1> DEFINE g == Restrict(d.nodes, DOMAIN d.nodes \ {h})
  <1>1. e = [d EXCEPT !.nodes = g]
    BY DEF delete
  <1>2. d.nodes \in Nodes
    BY DEF Database
  <1>3. DOMAIN d.nodes \in SUBSET Link /\ NoHash \in DOMAIN d.nodes /\ \A x \in DOMAIN d.nodes : d.nodes[x] \in Node
    BY <1>2, NodesAre
  <1>4. g \in [DOMAIN d.nodes \ {h} -> Node] /\ \A x \in DOMAIN d.nodes \ {h} : g[x] = d.nodes[x]
    BY <1>3 DEF Restrict
  <1> HIDE DEF g
  <1>5. DOMAIN d.nodes \ {h} \in SUBSET Link /\ NoHash \in DOMAIN d.nodes \ {h}
    BY <1>3, TrieAssumption
  <1>6. g \in Nodes
    BY <1>4, <1>5, NodesIf
  <1>7. e \in Database /\ e.nodes = g /\ e.oldest = d.oldest /\ e.newest = d.newest
    BY <1>1, <1>6 DEF Database
  <1> QED
    BY <1>4, <1>7 DEF Cached

\* e is d without h, and is as well linked.
LeftWithout(d, e, h) ==
  /\ e \in Database /\ DOMAIN e.nodes = DOMAIN d.nodes \ {h} /\ Cached(e) = Cached(d) \ {h} /\ Alike(d.nodes, e.nodes)
  /\ \A r, n : Ranked(d, r, n) => Ranked(e, r, n)

LEMMA TakenIs ==
  ASSUME NEW d \in Database, NEW h \in Cached(d), NEW e, e = delete(unlink(d, h), h)
  PROVE  LeftWithout(d, e, h)
  <1> DEFINE f == d.nodes
             u == unlink(d, h)
             p == f[h].flushPrev
             q == f[h].flushNext
  <1>1. f \in Nodes /\ d.oldest \in Link /\ d.newest \in Link /\ h \in Hash /\ h \in DOMAIN f /\ NoHash \in Link
    BY CachedIs DEF Database, Link
  <1>2. p \in Link /\ q \in Link
    BY <1>1, NodesAre, NodeIs
  <1>3. ASSUME u \in Database, DOMAIN u.nodes = DOMAIN f
        PROVE  /\ e \in Database /\ DOMAIN e.nodes = DOMAIN f \ {h} /\ Cached(e) = Cached(d) \ {h}
               /\ e.oldest = u.oldest /\ e.newest = u.newest /\ \A x \in DOMAIN e.nodes : e.nodes[x] = u.nodes[x]
    <2> HIDE DEF u
    <2>1. Cached(u) = Cached(d)
      BY <1>3 DEF Cached, f
    <2>2. e = delete(u, h)
      BY DEF u
    <2>3. /\ e \in Database /\ DOMAIN e.nodes = DOMAIN u.nodes \ {h} /\ Cached(e) = Cached(u) \ {h}
          /\ e.oldest = u.oldest /\ e.newest = u.newest /\ \A x \in DOMAIN e.nodes : e.nodes[x] = u.nodes[x]
      BY <1>1, <1>3, <2>2, DeletedIs
    <2> QED
      BY <1>3, <2>1, <2>3
  <1> HIDE DEF p, q, f
  <1>4. CASE h = d.oldest
    <2> DEFINE g == SetPrev(f, q, NoHash)
    <2>1. u = [d EXCEPT !.nodes = g, !.oldest = q, !.newest = d.newest]
      BY <1>4 DEF unlink, Database, SetPrev, p, q, f
    <2>2. g = SetPrev(f, q, NoHash)
      OBVIOUS
    <2> HIDE DEF g, u
    <2>3. /\ g \in Nodes /\ DOMAIN g = DOMAIN f /\ Alike(f, g)
          /\ \A x \in DOMAIN f : g[x].flushNext = f[x].flushNext /\ (x # q => g[x].flushPrev = f[x].flushPrev)
      BY <1>1, <2>2, SetPrevIs
    <2>4. u \in Database /\ u.nodes = g /\ u.oldest = q /\ u.newest = d.newest
      BY <1>1, <1>2, <2>1, <2>3 DEF Database
    <2>5. /\ e \in Database /\ DOMAIN e.nodes = DOMAIN f \ {h} /\ Cached(e) = Cached(d) \ {h}
          /\ e.oldest = q /\ e.newest = d.newest /\ \A x \in DOMAIN e.nodes : e.nodes[x] = g[x]
      BY <1>3, <2>3, <2>4
    <2>6. Alike(f, e.nodes)
      BY <2>3, <2>5 DEF Alike
    <2>7. Relinked(f, e.nodes, {e.oldest}, {})
      BY <2>3, <2>5 DEF Relinked
    <2>8. \A r, n : Ranked(d, r, n) => Ranked(e, r, n)
      BY <1>4, <2>5, <2>7, OldestOut DEF f, q
    <2> QED
      BY <2>5, <2>6, <2>8 DEF LeftWithout, f
  <1>5. CASE h # d.oldest /\ h = d.newest
    <2> DEFINE g == SetNext(f, p, NoHash)
    <2>1. u = [d EXCEPT !.nodes = g, !.oldest = d.oldest, !.newest = p]
      BY <1>5 DEF unlink, Database, SetNext, p, q, f
    <2>2. g = SetNext(f, p, NoHash)
      OBVIOUS
    <2> HIDE DEF g, u
    <2>3. /\ g \in Nodes /\ DOMAIN g = DOMAIN f /\ Alike(f, g)
          /\ \A x \in DOMAIN f : /\ g[x].flushPrev = f[x].flushPrev
                                 /\ g[x].flushNext = IF x = p THEN NoHash ELSE f[x].flushNext
      BY <1>1, <2>2, SetNextIs
    <2>4. u \in Database /\ u.nodes = g /\ u.oldest = d.oldest /\ u.newest = p
      BY <1>1, <1>2, <2>1, <2>3 DEF Database
    <2>5. /\ e \in Database /\ DOMAIN e.nodes = DOMAIN f \ {h} /\ Cached(e) = Cached(d) \ {h}
          /\ e.oldest = d.oldest /\ e.newest = p /\ \A x \in DOMAIN e.nodes : e.nodes[x] = g[x]
      BY <1>3, <2>3, <2>4
    <2>6. Alike(f, e.nodes)
      BY <2>3, <2>5 DEF Alike
    <2>7. Relinked(f, e.nodes, {}, {e.newest})
      BY <2>3, <2>5 DEF Relinked
    <2>8. ASSUME NEW r, NEW n, Ranked(d, r, n)
          PROVE  Ranked(e, r, n)
      <3>1. p \in Cached(d) /\ p # h
        <4>1. p \in Cached(d) /\ f[p].flushNext = h /\ f[h].flushNext = NoHash
          BY <1>5, <2>8 DEF Ranked, f, p
        <4> QED
          BY <1>1, <4>1, CachedIs
      <3>2. p \in DOMAIN e.nodes
        BY <2>5, <3>1 DEF Cached, f
      <3>3. e.nodes[e.newest].flushNext = NoHash
        BY <2>3, <2>5, <3>2
      <3> QED
        BY <1>5, <2>5, <2>7, <2>8, <3>3, NewestOut DEF f, p
    <2> QED
      BY <2>5, <2>6, <2>8 DEF LeftWithout, f
  <1>6. CASE h # d.oldest /\ h # d.newest
    <2> DEFINE g == SetNext(f, p, q)
               k == SetPrev(g, q, p)
    <2>1. u = [d EXCEPT !.nodes = k, !.oldest = d.oldest, !.newest = d.newest]
      BY <1>6 DEF unlink, Database, SetPrev, SetNext, p, q, f
    <2>2. g = SetNext(f, p, q)
      OBVIOUS
    <2>3. k = SetPrev(g, q, p)
      OBVIOUS
    <2> HIDE DEF g, k, u
    <2>4. /\ g \in Nodes /\ DOMAIN g = DOMAIN f /\ Alike(f, g)
          /\ \A x \in DOMAIN f : g[x].flushPrev = f[x].flushPrev /\ g[x].flushNext = IF x = p THEN q ELSE f[x].flushNext
      BY <1>1, <1>2, <2>2, SetNextIs
    <2>5. /\ k \in Nodes /\ DOMAIN k = DOMAIN g /\ Alike(g, k)
          /\ \A x \in DOMAIN g : k[x].flushNext = g[x].flushNext /\ k[x].flushPrev = IF x = q THEN p ELSE g[x].flushPrev
      BY <1>2, <2>3, <2>4, SetPrevIs
    <2>6. u \in Database /\ u.nodes = k /\ u.oldest = d.oldest /\ u.newest = d.newest
      BY <1>1, <2>1, <2>5 DEF Database
    <2>7. /\ e \in Database /\ DOMAIN e.nodes = DOMAIN f \ {h} /\ Cached(e) = Cached(d) \ {h}
          /\ e.oldest = d.oldest /\ e.newest = d.newest /\ \A x \in DOMAIN e.nodes : e.nodes[x] = k[x]
      BY <1>3, <2>4, <2>5, <2>6
    <2>8. Alike(f, e.nodes)
      BY <2>4, <2>5, <2>7 DEF Alike
    <2>9. Relinked(f, e.nodes, {q}, {p})
      BY <2>4, <2>5, <2>7 DEF Relinked
    <2>10. Cached(e) \subseteq DOMAIN e.nodes /\ Cached(e) \subseteq DOMAIN f
      BY <2>7 DEF Cached
    <2>11. p \in Cached(e) => e.nodes[p].flushNext = q
      BY <2>4, <2>5, <2>7, <2>10
    <2>12. q \in Cached(e) => e.nodes[q].flushPrev = p
      BY <2>4, <2>5, <2>7, <2>10
    <2>13. ASSUME NEW r, NEW n, Ranked(d, r, n)
           PROVE  Ranked(e, r, n)
      <3>1. p = d.nodes[h].flushPrev /\ q = d.nodes[h].flushNext /\ Relinked(d.nodes, e.nodes, {q}, {p})
        BY <2>9 DEF p, q, f
      <3> QED
        BY <1>6, <2>7, <2>11, <2>12, <2>13, <3>1, MiddleOut
    <2> QED
      BY <2>7, <2>8, <2>13 DEF LeftWithout, f
  <1> QED
    BY <1>4, <1>5, <1>6

-----------------------------------------------------------------------------
(* What is true of every Database                                          *)

\* A cached node has what it needs, on the disk or cached and older; what its
\* account refers to is on the disk or among its children, so that commit finds
\* it.  The referenced roots are there.
Whole(d, D, r) ==
  /\ \A h \in Cached(d) :
       /\ DOMAIN d.nodes[h].children \subseteq Refs(h)
       /\ Refs(h) \subseteq D \cup DOMAIN d.nodes[h].children
       /\ \A k \in Needs(h) \ D : k \in Cached(d) /\ r[k] < r[h]
  /\ DOMAIN d.nodes[NoHash].children \subseteq Cached(d) \cup D

\* A node that is not on the disk has a parent for each use, and w[k] more.
Counted(d, D, w) ==
  \A k \in Hash :
     /\ IsFiniteSet(Uses(d, k))
     /\ k \in Cached(d) \ D => d.nodes[k].parents >= Rooted(d, k) + Cardinality(Uses(d, k)) + w[k]

\* What is true of a Database when the nodes in D are on the disk and w are
\* references that are about to be given up.
IntactBy(d, D, w, r, n) == d \in Database /\ Ranked(d, r, n) /\ Whole(d, D, r) /\ Counted(d, D, w)

Intact(d, D, w) == \E r, n : IntactBy(d, D, w, r, n)

Nothing == [k \in Hash |-> 0]

LEMMA RootedIs ==
  ASSUME NEW d \in Database, NEW k
  PROVE  Rooted(d, k) \in Nat /\ (k \in DOMAIN d.nodes[NoHash].children <=> Rooted(d, k) # 0)
  <1>1. \A x \in DOMAIN d.nodes[NoHash].children : d.nodes[NoHash].children[x] \in Nat \ {0}
    BY CachedIs, NodeIs
  <1> QED
    BY <1>1 DEF Rooted

LEMMA UsesCount ==
  ASSUME NEW d, NEW k, IsFiniteSet(Uses(d, k))
  PROVE  Cardinality(Uses(d, k)) \in Nat
  BY FS_CardinalityType

LEMMA IntactNew ==
  ASSUME NEW D \in SUBSET Hash
  PROVE  NewDatabase \in Database /\ Intact(NewDatabase, D, Nothing)
  <1> DEFINE d == NewDatabase
             r == [k \in Hash |-> 0]
  <1>1. d \in Database /\ Cached(d) = {} /\ DOMAIN d.nodes[NoHash].children = {} /\ d.oldest = NoHash
    BY NewDatabaseIs DEF NewDatabase
  <1> HIDE DEF d
  <1>2. r \in [Hash -> Nat]
    OBVIOUS
  <1> HIDE DEF r
  <1>3. Ranked(d, r, 0)
    BY <1>1, <1>2 DEF Ranked
  <1>4. Whole(d, D, r)
    BY <1>1 DEF Whole
  <1>5. \A k \in Hash : Uses(d, k) = {}
    BY <1>1 DEF Uses
  <1>6. Counted(d, D, Nothing)
    BY <1>1, <1>5, FS_EmptySet DEF Counted
  <1>7. IntactBy(d, D, Nothing, r, 0)
    BY <1>1, <1>3, <1>4, <1>6 DEF IntactBy
  <1> QED
    BY <1>1, <1>7 DEF Intact, d

\* The disk has grown, and there is less to give up.
LEMMA IntactGrows ==
  ASSUME NEW d, NEW D, NEW E, D \subseteq E, NEW w, Intact(d, D, w)
  PROVE  Intact(d, E, w)
  <1>1. PICK r, n : IntactBy(d, D, w, r, n)
    BY DEF Intact
  <1>2. d \in Database /\ Ranked(d, r, n)
    BY <1>1 DEF IntactBy
  <1>3. Whole(d, E, r)
    BY <1>1 DEF IntactBy, Whole
  <1>4. Counted(d, E, w)
    BY <1>1 DEF IntactBy, Counted
  <1>5. IntactBy(d, E, w, r, n)
    BY <1>2, <1>3, <1>4 DEF IntactBy
  <1> QED
    BY <1>5 DEF Intact

LEMMA IntactLess ==
  ASSUME NEW d, NEW D, NEW w \in [Hash -> Nat], NEW v \in [Hash -> Nat], \A k \in Hash : v[k] <= w[k], Intact(d, D, w)
  PROVE  Intact(d, D, v)
  <1>1. PICK r, n : IntactBy(d, D, w, r, n)
    BY DEF Intact
  <1>2. d \in Database /\ Ranked(d, r, n) /\ Whole(d, D, r) /\ Counted(d, D, w)
    BY <1>1 DEF IntactBy
  <1>3. Counted(d, D, v)
    <2> SUFFICES ASSUME NEW k \in Hash
                 PROVE  /\ IsFiniteSet(Uses(d, k))
                        /\ k \in Cached(d) \ D =>
                             d.nodes[k].parents >= Rooted(d, k) + Cardinality(Uses(d, k)) + v[k]
      BY DEF Counted
    <2>1. IsFiniteSet(Uses(d, k))
      BY <1>2 DEF Counted
    <2>2. Cardinality(Uses(d, k)) \in Nat /\ Rooted(d, k) \in Nat /\ v[k] \in Nat /\ w[k] \in Nat /\ v[k] <= w[k]
      BY <1>2, <2>1, UsesCount, RootedIs
    <2>3. ASSUME k \in Cached(d) \ D
          PROVE  d.nodes[k].parents >= Rooted(d, k) + Cardinality(Uses(d, k)) + v[k]
      <3>1. d.nodes[k].parents >= Rooted(d, k) + Cardinality(Uses(d, k)) + w[k]
        BY <1>2, <2>3 DEF Counted
      <3>2. d.nodes[k].parents \in Nat
        BY <1>2, <2>3, CachedIs, NodeIs
      <3> QED
        BY <2>2, <3>1, <3>2
    <2> QED
      BY <2>1, <2>3
  <1>4. IntactBy(d, D, v, r, n)
    BY <1>2, <1>3 DEF IntactBy
  <1> QED
    BY <1>4 DEF Intact

LEMMA WholeNeeds ==
  ASSUME NEW d \in Database, NEW D, NEW r, Whole(d, D, r), NEW x \in Cached(d)
  PROVE  Needs(x) \subseteq D \cup ToSet(childs(d, x)) /\ ToSet(childs(d, x)) \subseteq Needs(x)
  <1>1. x \in Hash
    BY CachedIs
  <1>2. ToSet(childs(d, x)) = DOMAIN d.nodes[x].children \cup ToSet(Kids[x])
    BY ChildsAre
  <1>3. Needs(x) = ToSet(Kids[x]) \cup Refs(x)
    BY <1>1, RefsAre
  <1>4. Refs(x) \subseteq D \cup DOMAIN d.nodes[x].children /\ DOMAIN d.nodes[x].children \subseteq Refs(x)
    BY DEF Whole
  <1> QED
    BY <1>2, <1>3, <1>4

\* Nothing needs c any more.
Unneeded(d, D, c) == c \in D \/ (Rooted(d, c) = 0 /\ \A x \in Cached(d) \ {c} : c \notin Needs(x))

LEMMA IntactOut ==
  ASSUME NEW d, NEW D \in SUBSET Hash, NEW w \in [Hash -> Nat], NEW v \in [Hash -> Nat], NEW c \in Cached(d),
         Intact(d, D, w), NEW e, LeftWithout(d, e, c), Unneeded(d, D, c),
         \A k \in Cached(e) \ D : v[k] <= w[k] + Times(childs(d, c), k)
  PROVE  Intact(e, D, v)
  <1>1. PICK r, n : IntactBy(d, D, w, r, n)
    BY DEF Intact
  <1>2. d \in Database /\ Ranked(d, r, n) /\ Whole(d, D, r) /\ Counted(d, D, w)
    BY <1>1 DEF IntactBy
  <1>3. e \in Database /\ Cached(e) = Cached(d) \ {c} /\ Alike(d.nodes, e.nodes) /\ Ranked(e, r, n)
    BY <1>2 DEF LeftWithout
  <1>4. /\ NoHash \in DOMAIN e.nodes /\ Cached(e) \subseteq DOMAIN e.nodes /\ Cached(d) \subseteq Hash
        /\ \A x \in DOMAIN e.nodes : e.nodes[x].children = d.nodes[x].children /\ e.nodes[x].parents = d.nodes[x].parents
    BY <1>2, <1>3, CachedIs DEF Alike
  <1>5. Whole(e, D, r)
    <2>1. ASSUME NEW h \in Cached(e)
          PROVE  /\ DOMAIN e.nodes[h].children \subseteq Refs(h)
                 /\ Refs(h) \subseteq D \cup DOMAIN e.nodes[h].children
                 /\ \A k \in Needs(h) \ D : k \in Cached(e) /\ r[k] < r[h]
      <3>1. \A k \in Needs(h) \ D : k \in Cached(d) /\ r[k] < r[h]
        BY <1>2, <1>3 DEF Whole
      <3>2. \A k \in Needs(h) \ D : k # c
        BY <1>3 DEF Unneeded
      <3> QED
        BY <1>2, <1>3, <1>4, <3>1, <3>2 DEF Whole
    <2>2. DOMAIN e.nodes[NoHash].children \subseteq Cached(e) \cup D
      <3>1. c \in D \/ c \notin DOMAIN d.nodes[NoHash].children
        BY <1>2, RootedIs DEF Unneeded
      <3> QED
        BY <1>2, <1>3, <1>4, <3>1 DEF Whole
    <2> QED
      BY <2>1, <2>2 DEF Whole
  <1>6. Counted(e, D, v)
    <2> SUFFICES ASSUME NEW k \in Hash
                 PROVE  /\ IsFiniteSet(Uses(e, k))
                        /\ k \in Cached(e) \ D =>
                             e.nodes[k].parents >= Rooted(e, k) + Cardinality(Uses(e, k)) + v[k]
      BY DEF Counted
    <2>1. OneMore(d, e, c)
      BY <1>3, <1>4 DEF OneMore
    <2>2. /\ IsFiniteSet(Uses(d, k)) /\ IsFiniteSet(Uses(e, k))
          /\ Cardinality(Uses(d, k)) = Cardinality(Uses(e, k)) + Times(childs(d, c), k)
      <3>1. IsFiniteSet(Uses(d, k))
        BY <1>2 DEF Counted
      <3> QED
        BY <1>2, <1>3, <2>1, <3>1, UsesMore
    <2>3. Cardinality(Uses(e, k)) \in Nat /\ Times(childs(d, c), k) \in Nat /\ Rooted(d, k) \in Nat
      BY <1>2, <2>2, UsesCount, RootedIs, ChildsAre, TimesIs
    <2>4. Rooted(e, k) = Rooted(d, k)
      BY <1>4 DEF Rooted
    <2>5. ASSUME k \in Cached(e) \ D
          PROVE  e.nodes[k].parents >= Rooted(e, k) + Cardinality(Uses(e, k)) + v[k]
      <3>1. d.nodes[k].parents >= Rooted(d, k) + Cardinality(Uses(d, k)) + w[k]
        BY <1>2, <1>3, <2>5 DEF Counted
      <3>2. e.nodes[k].parents = d.nodes[k].parents /\ e.nodes[k].parents \in Nat
        BY <1>3, <1>4, <2>5, CachedIs, NodeIs
      <3>3. v[k] <= w[k] + Times(childs(d, c), k) /\ v[k] \in Nat /\ w[k] \in Nat
        BY <2>5
      <3> QED
        BY <2>2, <2>3, <2>4, <3>1, <3>2, <3>3
    <2> QED
      BY <2>2, <2>5
  <1>7. IntactBy(e, D, v, r, n)
    BY <1>3, <1>5, <1>6 DEF IntactBy
  <1> QED
    BY <1>7 DEF Intact

-----------------------------------------------------------------------------
(* insert and Reference                                                    *)

LEMMA CountParentsIs ==
  ASSUME NEW f \in Nodes, NEW h \in Hash, NEW g, g = countParents(f, h)
  PROVE  /\ g \in Nodes /\ DOMAIN g = DOMAIN f
         /\ \A x \in DOMAIN f : /\ g[x].children = f[x].children /\ g[x].parents = f[x].parents + Times(Kids[h], x)
                                /\ g[x].flushPrev = f[x].flushPrev /\ g[x].flushNext = f[x].flushNext
  <1>1. DOMAIN g = DOMAIN f /\ g = [x \in DOMAIN f |-> g[x]]
    BY DEF countParents
  <1>2. ASSUME NEW x \in DOMAIN f
        PROVE  /\ g[x] \in Node
               /\ g[x].children = f[x].children /\ g[x].parents = f[x].parents + Times(Kids[h], x)
               /\ g[x].flushPrev = f[x].flushPrev /\ g[x].flushNext = f[x].flushNext
    <2> DEFINE n == Times(Kids[h], x)
    <2>1. n \in Nat
      BY RefsAre, TimesIs
    <2>2. g[x] = [f[x] EXCEPT !.parents = @ + n]
      BY DEF countParents, Times, Places
    <2> HIDE DEF n
    <2>3. f[x] \in Node
      BY NodesAre
    <2> QED
      BY <2>1, <2>2, <2>3 DEF Node, n
  <1>3. g \in [DOMAIN f -> Node]
    BY <1>1, <1>2
  <1>4. DOMAIN f \in SUBSET Link /\ NoHash \in DOMAIN f
    BY NodesAre
  <1> QED
    BY <1>1, <1>2, <1>3, <1>4, NodesIf

LEMMA NodeSet ==
  ASSUME NEW f \in Nodes, NEW h \in Link, NEW n \in Node, NEW g, g = SetAt(f, h, n)
  PROVE  g \in Nodes
  <1>1. DOMAIN f \cup {h} \in SUBSET Link /\ NoHash \in DOMAIN f
    BY NodesAre
  <1>2. \A x \in DOMAIN f : f[x] \in Node
    BY NodesAre
  <1>3. g \in [DOMAIN f \cup {h} -> Node]
    BY <1>2 DEF SetAt
  <1> QED
    BY <1>1, <1>3, NodesIf

LEMMA LinkIs ==
  ASSUME NEW d \in Database, NEW h \in Hash, NEW e, e = link(d, h)
  PROVE  /\ e \in Database /\ DOMAIN e.nodes = DOMAIN d.nodes /\ Alike(d.nodes, e.nodes)
         /\ e.newest = h /\ e.oldest = (IF d.oldest = NoHash THEN h ELSE d.oldest)
         /\ \A x \in DOMAIN d.nodes :
              /\ e.nodes[x].flushPrev = d.nodes[x].flushPrev
              /\ e.nodes[x].flushNext = IF d.oldest # NoHash /\ x = d.newest THEN h ELSE d.nodes[x].flushNext
  <1>1. d.nodes \in Nodes /\ d.oldest \in Link /\ d.newest \in Link /\ h \in Link
    BY DEF Database, Link
  <1>2. CASE d.oldest = NoHash
    BY <1>1, <1>2 DEF link, Database, Alike
  <1>3. CASE d.oldest # NoHash
    <2> DEFINE g == SetNext(d.nodes, d.newest, h)
    <2>1. e = [d EXCEPT !.nodes = g, !.newest = h]
      BY <1>3 DEF link, Database, SetNext
    <2>2. g = SetNext(d.nodes, d.newest, h)
      OBVIOUS
    <2> HIDE DEF g
    <2>3. /\ g \in Nodes /\ DOMAIN g = DOMAIN d.nodes /\ Alike(d.nodes, g)
          /\ \A x \in DOMAIN d.nodes :
               /\ g[x].flushPrev = d.nodes[x].flushPrev
               /\ g[x].flushNext = IF x = d.newest THEN h ELSE d.nodes[x].flushNext
      BY <1>1, <2>2, SetNextIs
    <2>4. e \in Database /\ e.nodes = g /\ e.newest = h /\ e.oldest = d.oldest
      BY <1>1, <2>1, <2>3 DEF Database
    <2> QED
      BY <1>3, <2>3, <2>4
  <1> QED
    BY <1>2, <1>3

LEMMA InsertIs ==
  ASSUME NEW d \in Database, NEW h \in Hash, h \notin Cached(d), NEW e, e = insert(d, h)
  PROVE  /\ e \in Database /\ DOMAIN e.nodes = DOMAIN d.nodes \cup {h} /\ Cached(e) = Cached(d) \cup {h}
         /\ \A x \in DOMAIN d.nodes : /\ e.nodes[x].children = d.nodes[x].children
                                      /\ e.nodes[x].parents = d.nodes[x].parents + Times(Kids[h], x)
         /\ e.nodes[h].parents = 0 /\ DOMAIN e.nodes[h].children = {}
         /\ \A r, n : Ranked(d, r, n) => Ranked(e, [r EXCEPT ![h] = n], n + 1)
  <1>1. /\ d.nodes \in Nodes /\ d.oldest \in Link /\ d.newest \in Link /\ h \in Link /\ h # NoHash
        /\ h \notin DOMAIN d.nodes /\ Cached(d) \subseteq DOMAIN d.nodes
    BY CachedIs DEF Database, Link
  <1> DEFINE c == countParents(d.nodes, h)
             m == cachedNode(d.newest)
             g == SetAt(c, h, m)
             b == [d EXCEPT !.nodes = g]
  <1>2. /\ c \in Nodes /\ DOMAIN c = DOMAIN d.nodes
        /\ \A x \in DOMAIN d.nodes :
             /\ c[x].children = d.nodes[x].children /\ c[x].parents = d.nodes[x].parents + Times(Kids[h], x)
             /\ c[x].flushPrev = d.nodes[x].flushPrev /\ c[x].flushNext = d.nodes[x].flushNext
    <2>1. c = countParents(d.nodes, h)
      OBVIOUS
    <2> HIDE DEF c
    <2> QED
      BY <1>1, <2>1, CountParentsIs
  <1>3. /\ m \in Node /\ DOMAIN m.children = {} /\ m.parents = 0 /\ m.flushPrev = d.newest /\ m.flushNext = NoHash
    <2>1. m \in Node /\ DOMAIN m.children = {}
      BY <1>1, CachedNodeIs
    <2> QED
      BY <2>1 DEF cachedNode
  <1>4. e = link(b, h)
    BY <1>1 DEF insert
  <1> HIDE DEF c, m
  <1>5. g \in Nodes
    <2>1. g = SetAt(c, h, m)
      OBVIOUS
    <2> HIDE DEF g
    <2> QED
      BY <1>1, <1>2, <1>3, <2>1, NodeSet
  <1>6. DOMAIN g = DOMAIN d.nodes \cup {h} /\ g[h] = m /\ \A x \in DOMAIN d.nodes : g[x] = c[x]
    BY <1>1, <1>2 DEF SetAt
  <1> HIDE DEF g
  <1>7. b \in Database /\ b.nodes = g /\ b.oldest = d.oldest /\ b.newest = d.newest
    BY <1>1, <1>5 DEF Database
  <1> HIDE DEF b
  <1>8. /\ e \in Database /\ DOMAIN e.nodes = DOMAIN b.nodes /\ Alike(b.nodes, e.nodes)
        /\ e.newest = h /\ e.oldest = (IF b.oldest = NoHash THEN h ELSE b.oldest)
        /\ \A x \in DOMAIN b.nodes :
              /\ e.nodes[x].flushPrev = b.nodes[x].flushPrev
              /\ e.nodes[x].flushNext = IF b.oldest # NoHash /\ x = b.newest THEN h ELSE b.nodes[x].flushNext
    BY <1>4, <1>7, LinkIs
  <1>9. DOMAIN e.nodes = DOMAIN d.nodes \cup {h} /\ Cached(e) = Cached(d) \cup {h}
    BY <1>1, <1>6, <1>7, <1>8 DEF Cached
  <1>10. \A x \in DOMAIN d.nodes : /\ e.nodes[x].children = d.nodes[x].children
                                   /\ e.nodes[x].parents = d.nodes[x].parents + Times(Kids[h], x)
    BY <1>2, <1>6, <1>7, <1>8, <1>9 DEF Alike
  <1>11. e.nodes[h].parents = 0 /\ DOMAIN e.nodes[h].children = {}
    BY <1>3, <1>6, <1>7, <1>8, <1>9 DEF Alike
  <1>12. ASSUME NEW r, NEW n, Ranked(d, r, n)
         PROVE  Ranked(e, [r EXCEPT ![h] = n], n + 1)
    <2>1. /\ Cached(d) # {} => d.oldest \in Cached(d) /\ d.newest \in Cached(d)
          /\ Cached(d) = {} => d.oldest = NoHash
      BY <1>12 DEF Ranked
    <2>2. d.oldest # NoHash => d.newest # h /\ Cached(d) # {}
      BY <2>1
    <2>3. Cached(d) # {} => d.oldest # NoHash
      BY <2>1, CachedIs
    <2>4. e.nodes[h].flushPrev = d.newest /\ e.nodes[h].flushNext = NoHash
      BY <1>3, <1>6, <1>7, <1>8, <2>2
    <2>5. \A x \in Cached(d) : /\ e.nodes[x].flushPrev = d.nodes[x].flushPrev
                               /\ e.nodes[x].flushNext = IF x = d.newest THEN h ELSE d.nodes[x].flushNext
      BY <1>1, <1>2, <1>6, <1>7, <1>8, <2>3
    <2>6. e \in Database /\ e.newest = h /\ e.oldest = (IF d.oldest = NoHash THEN h ELSE d.oldest)
      BY <1>7, <1>8
    <2> QED
      BY <1>9, <1>12, <2>4, <2>5, <2>6, RankedIn
  <1> QED
    BY <1>8, <1>9, <1>10, <1>11, <1>12

\* What Reference does: child c of p, which is not there or already has it.
Idle(d, c, p) == c \notin DOMAIN d.nodes \/ (p # NoHash /\ c \in DOMAIN d.nodes[p].children)

LEMMA ReferenceIs ==
  ASSUME NEW d \in Database, NEW c \in Hash, NEW p \in DOMAIN d.nodes, ~ Idle(d, c, p), NEW e, e = Reference(d, c, p)
  PROVE  /\ e \in Database /\ DOMAIN e.nodes = DOMAIN d.nodes /\ Cached(e) = Cached(d)
         /\ \A r, n : Ranked(d, r, n) => Ranked(e, r, n)
         /\ \A x \in DOMAIN d.nodes :
              /\ e.nodes[x].parents = d.nodes[x].parents + IF x = c THEN 1 ELSE 0
              /\ x # p => e.nodes[x].children = d.nodes[x].children
         /\ DOMAIN e.nodes[p].children = DOMAIN d.nodes[p].children \cup {c}
         /\ \A k \in DOMAIN d.nodes[p].children : k # c => e.nodes[p].children[k] = d.nodes[p].children[k]
         /\ e.nodes[p].children[c] = IF c \in DOMAIN d.nodes[p].children THEN d.nodes[p].children[c] + 1 ELSE 1
  <1>1. /\ d.nodes \in Nodes /\ d.oldest \in Link /\ d.newest \in Link /\ c \in DOMAIN d.nodes
        /\ DOMAIN d.nodes \in SUBSET Link /\ NoHash \in DOMAIN d.nodes /\ \A x \in DOMAIN d.nodes : d.nodes[x] \in Node
    <2>1. d.nodes \in Nodes /\ d.oldest \in Link /\ d.newest \in Link
      BY DEF Database
    <2> QED
      BY <2>1, NodesAre DEF Idle
  <1> DEFINE counts == d.nodes[p].children
             count == IF c \in DOMAIN counts THEN counts[c] + 1 ELSE 1
             new == SetAt(counts, c, count)
             f == [d.nodes EXCEPT ![c].parents = @ + 1]
             g == [f EXCEPT ![p].children = new]
  <1>2. e = [d EXCEPT !.nodes = g]
    BY DEF Reference, Database, Idle
  <1>3. counts \in ChildCounts
    BY <1>1, NodeIs
  <1>4. /\ new \in ChildCounts /\ DOMAIN new = DOMAIN counts \cup {c} /\ new[c] = count
        /\ \A k \in DOMAIN counts : k # c => new[k] = counts[k]
    <2> HIDE DEF counts
    <2>1. PICK S \in SUBSET Hash : counts \in [S -> Nat \ {0}]
      BY <1>3 DEF ChildCounts
    <2>2. count \in Nat \ {0}
      BY <2>1
    <2> HIDE DEF count
    <2>3. /\ new \in [S \cup {c} -> Nat \ {0}] /\ new[c] = count
          /\ \A k \in DOMAIN counts : k # c => new[k] = counts[k]
      BY <2>1, <2>2 DEF SetAt
    <2>4. S \cup {c} \in SUBSET Hash
      OBVIOUS
    <2> QED
      BY <2>1, <2>3, <2>4 DEF ChildCounts
  <1>5. ASSUME NEW x \in DOMAIN d.nodes
        PROVE  /\ f[x] \in Node /\ f[x].children = d.nodes[x].children
               /\ f[x].parents = d.nodes[x].parents + IF x = c THEN 1 ELSE 0
               /\ f[x].flushPrev = d.nodes[x].flushPrev /\ f[x].flushNext = d.nodes[x].flushNext
    <2>1. d.nodes[x] \in Node
      BY <1>1
    <2>2. f[x] = IF x = c THEN [d.nodes[x] EXCEPT !.parents = @ + 1] ELSE d.nodes[x]
      OBVIOUS
    <2> QED
      BY <2>1, <2>2 DEF Node
  <1>6. DOMAIN f = DOMAIN d.nodes /\ f = [x \in DOMAIN d.nodes |-> f[x]]
    OBVIOUS
  <1> HIDE DEF f, new
  <1>7. ASSUME NEW x \in DOMAIN d.nodes
        PROVE  /\ g[x] \in Node /\ g[x].children = (IF x = p THEN new ELSE d.nodes[x].children)
               /\ g[x].parents = d.nodes[x].parents + IF x = c THEN 1 ELSE 0
               /\ g[x].flushPrev = d.nodes[x].flushPrev /\ g[x].flushNext = d.nodes[x].flushNext
    <2>1. g[x] = IF x = p THEN [f[x] EXCEPT !.children = new] ELSE f[x]
      BY <1>6
    <2> HIDE DEF g
    <2> QED
      BY <1>4, <1>5, <2>1 DEF Node
  <1>8. DOMAIN g = DOMAIN d.nodes /\ g = [x \in DOMAIN d.nodes |-> g[x]]
    BY <1>6
  <1> HIDE DEF g
  <1>9. g \in [DOMAIN d.nodes -> Node]
    BY <1>7, <1>8
  <1>10. g \in Nodes
    BY <1>1, <1>9, NodesIf
  <1>11. e \in Database /\ e.nodes = g /\ e.oldest = d.oldest /\ e.newest = d.newest
    BY <1>1, <1>2, <1>10 DEF Database
  <1>12. Cached(e) = Cached(d) /\ Cached(d) \subseteq DOMAIN d.nodes
    BY <1>8, <1>11 DEF Cached
  <1>13. \A r, n : Ranked(d, r, n) => Ranked(e, r, n)
    <2>1. \A x \in Cached(d) : e.nodes[x].flushPrev = d.nodes[x].flushPrev /\ e.nodes[x].flushNext = d.nodes[x].flushNext
      BY <1>7, <1>11, <1>12
    <2> QED
      BY <1>8, <1>11, <2>1, RankedSame
  <1> QED
    BY <1>4, <1>7, <1>8, <1>11, <1>12, <1>13

-----------------------------------------------------------------------------
(* Storing nodes and referring to them                                     *)

\* A new child of p is one more use.
LEMMA UsesGain ==
  ASSUME NEW d \in Database, NEW e \in Database, Cached(e) = Cached(d), NEW p \in Cached(d), NEW c,
         \A x \in Cached(d) \ {p} : e.nodes[x].children = d.nodes[x].children,
         c \notin DOMAIN d.nodes[p].children, DOMAIN e.nodes[p].children = DOMAIN d.nodes[p].children \cup {c},
         NEW k, IsFiniteSet(Uses(d, k))
  PROVE  /\ IsFiniteSet(Uses(e, k))
         /\ Cardinality(Uses(e, k)) = Cardinality(Uses(d, k)) + IF k = c THEN 1 ELSE 0
  <1> DEFINE m == delete(d, p)
  <1>1. p \in Hash
    BY CachedIs
  <1>2. /\ m \in Database /\ Cached(m) = Cached(d) \ {p} /\ Cached(m) \subseteq DOMAIN m.nodes
        /\ \A x \in DOMAIN m.nodes : m.nodes[x] = d.nodes[x]
    BY <1>1, DeletedIs DEF Cached
  <1> HIDE DEF m
  <1>3. OneMore(d, m, p)
    BY <1>2 DEF OneMore
  <1>4. OneMore(e, m, p)
    BY <1>2 DEF OneMore
  <1>5. /\ IsFiniteSet(Uses(d, k)) /\ IsFiniteSet(Uses(m, k))
        /\ Cardinality(Uses(d, k)) = Cardinality(Uses(m, k)) + Times(childs(d, p), k)
    BY <1>2, <1>3, UsesMore
  <1>6. /\ IsFiniteSet(Uses(e, k))
        /\ Cardinality(Uses(e, k)) = Cardinality(Uses(m, k)) + Times(childs(e, p), k)
    BY <1>2, <1>4, <1>5, UsesMore
  <1>7. /\ Times(childs(d, p), k) = (IF k \in DOMAIN d.nodes[p].children THEN 1 ELSE 0) + Times(Kids[p], k)
        /\ Times(childs(e, p), k) = (IF k \in DOMAIN e.nodes[p].children THEN 1 ELSE 0) + Times(Kids[p], k)
    BY ChildsAre
  <1>8. Cardinality(Uses(m, k)) \in Nat /\ Times(Kids[p], k) \in Nat
    BY <1>1, <1>5, UsesCount, RefsAre, TimesIs
  <1>9. CASE k = c
    BY <1>5, <1>6, <1>7, <1>8, <1>9
  <1>10. CASE k # c
    BY <1>5, <1>6, <1>7, <1>8, <1>10
  <1> QED
    BY <1>9, <1>10

LEMMA CountedReferenced ==
  ASSUME NEW d \in Database, NEW D, Counted(d, D, Nothing), NEW c \in Hash, NEW p \in DOMAIN d.nodes, ~ Idle(d, c, p),
         NEW e, e = Reference(d, c, p)
  PROVE  Counted(e, D, Nothing)
  <1>1. /\ e \in Database /\ DOMAIN e.nodes = DOMAIN d.nodes /\ Cached(e) = Cached(d)
        /\ \A x \in DOMAIN d.nodes :
             /\ e.nodes[x].parents = d.nodes[x].parents + IF x = c THEN 1 ELSE 0
             /\ x # p => e.nodes[x].children = d.nodes[x].children
        /\ DOMAIN e.nodes[p].children = DOMAIN d.nodes[p].children \cup {c}
        /\ \A k \in DOMAIN d.nodes[p].children : k # c => e.nodes[p].children[k] = d.nodes[p].children[k]
        /\ e.nodes[p].children[c] = IF c \in DOMAIN d.nodes[p].children THEN d.nodes[p].children[c] + 1 ELSE 1
    BY ReferenceIs
  <1>2. NoHash \in DOMAIN d.nodes /\ Cached(d) \subseteq DOMAIN d.nodes /\ NoHash \notin Cached(d)
    BY CachedIs
  <1> SUFFICES ASSUME NEW k \in Hash
               PROVE  /\ IsFiniteSet(Uses(e, k))
                      /\ k \in Cached(e) \ D =>
                           e.nodes[k].parents >= Rooted(e, k) + Cardinality(Uses(e, k)) + Nothing[k]
    BY DEF Counted
  <1>3. IsFiniteSet(Uses(d, k)) /\ Rooted(d, k) \in Nat /\ Nothing[k] = 0
    BY RootedIs DEF Counted, Nothing
  <1>4. Cardinality(Uses(d, k)) \in Nat
    BY <1>3, UsesCount
  <1>5. k \in Cached(d) \ D => /\ d.nodes[k].parents \in Nat
                               /\ d.nodes[k].parents >= Rooted(d, k) + Cardinality(Uses(d, k))
    <2>1. k \in Cached(d) \ D => d.nodes[k].parents >= Rooted(d, k) + Cardinality(Uses(d, k)) + Nothing[k]
      BY DEF Counted
    <2>2. k \in Cached(d) => d.nodes[k].parents \in Nat
      BY CachedIs, NodeIs
    <2> QED
      BY <1>3, <1>4, <2>1, <2>2
  <1>6. /\ IsFiniteSet(Uses(e, k))
        /\ Rooted(e, k) + Cardinality(Uses(e, k))
             = Rooted(d, k) + Cardinality(Uses(d, k)) + IF k = c THEN 1 ELSE 0
    <2>1. CASE p = NoHash
      <3>1. Uses(e, k) = Uses(d, k)
        <4>1. \A x \in Cached(d) : DOMAIN e.nodes[x].children = DOMAIN d.nodes[x].children
          BY <1>1, <1>2, <2>1
        <4> QED
          BY <1>1, <4>1, UsesSame
      <3>2. Rooted(e, k) = Rooted(d, k) + IF k = c THEN 1 ELSE 0
        BY <1>1, <1>3, <2>1 DEF Rooted
      <3> QED
        BY <1>3, <1>4, <3>1, <3>2
    <2>2. CASE p # NoHash
      <3>1. p \in Cached(d) /\ c \notin DOMAIN d.nodes[p].children
        BY <2>2 DEF Cached, Idle
      <3>2. \A x \in Cached(d) \ {p} : e.nodes[x].children = d.nodes[x].children
        BY <1>1, <1>2
      <3>3. /\ IsFiniteSet(Uses(e, k))
            /\ Cardinality(Uses(e, k)) = Cardinality(Uses(d, k)) + IF k = c THEN 1 ELSE 0
        BY <1>1, <1>3, <3>1, <3>2, UsesGain
      <3>4. Rooted(e, k) = Rooted(d, k)
        BY <1>1, <1>2, <2>2 DEF Rooted
      <3> QED
        BY <1>3, <1>4, <3>3, <3>4
    <2> QED
      BY <2>1, <2>2
  <1>7. ASSUME k \in Cached(e) \ D
        PROVE  e.nodes[k].parents >= Rooted(e, k) + Cardinality(Uses(e, k)) + Nothing[k]
    <2>1. e.nodes[k].parents = d.nodes[k].parents + IF k = c THEN 1 ELSE 0
      BY <1>1, <1>2, <1>7
    <2>2. d.nodes[k].parents \in Nat /\ d.nodes[k].parents >= Rooted(d, k) + Cardinality(Uses(d, k))
      BY <1>1, <1>5, <1>7
    <2>3. Rooted(e, k) + Cardinality(Uses(e, k)) + Nothing[k]
            = Rooted(d, k) + Cardinality(Uses(d, k)) + IF k = c THEN 1 ELSE 0
      BY <1>3, <1>4, <1>6
    <2> QED
      BY <1>3, <1>4, <2>1, <2>2, <2>3
  <1> QED
    BY <1>6, <1>7

\* The root of a world is referenced.
LEMMA IntactReferenced ==
  ASSUME NEW d, NEW D \in SUBSET Hash, Intact(d, D, Nothing), NEW c \in Cached(d) \cup D, NEW e, e = Reference(d, c, NoHash)
  PROVE  Intact(e, D, Nothing)
  <1>1. PICK r, n : IntactBy(d, D, Nothing, r, n)
    BY DEF Intact
  <1>2. d \in Database /\ Ranked(d, r, n) /\ Whole(d, D, r) /\ Counted(d, D, Nothing)
    BY <1>1 DEF IntactBy
  <1>3. c \in Hash /\ NoHash \in DOMAIN d.nodes /\ Cached(d) \subseteq DOMAIN d.nodes /\ NoHash \notin Cached(d)
    BY <1>2, CachedIs
  <1>4. CASE c \notin DOMAIN d.nodes
    BY <1>4 DEF Reference
  <1>5. CASE c \in DOMAIN d.nodes
    <2>1. ~ Idle(d, c, NoHash)
      BY <1>5 DEF Idle
    <2>2. /\ e \in Database /\ Cached(e) = Cached(d) /\ \A q, m : Ranked(d, q, m) => Ranked(e, q, m)
          /\ \A x \in DOMAIN d.nodes : x # NoHash => e.nodes[x].children = d.nodes[x].children
          /\ DOMAIN e.nodes[NoHash].children = DOMAIN d.nodes[NoHash].children \cup {c}
      BY <1>2, <1>3, <2>1, ReferenceIs
    <2>3. Counted(e, D, Nothing)
      BY <1>2, <1>3, <2>1, CountedReferenced
    <2>4. \A x \in Cached(d) : e.nodes[x].children = d.nodes[x].children
      BY <1>3, <2>2
    <2>5. Whole(e, D, r)
      BY <1>2, <2>2, <2>4 DEF Whole
    <2>6. IntactBy(e, D, Nothing, r, n)
      BY <1>2, <2>2, <2>3, <2>5 DEF IntactBy
    <2> QED
      BY <2>6 DEF Intact
  <1> QED
    BY <1>4, <1>5

\* e is d with the new node h, which does not yet have all its children.
Building(d, e, D, h, r, n) ==
  /\ e \in Database /\ DOMAIN e.nodes = DOMAIN d.nodes \cup {h} /\ Cached(e) = Cached(d) \cup {h}
  /\ \A x \in DOMAIN d.nodes : e.nodes[x].children = d.nodes[x].children
  /\ DOMAIN e.nodes[h].children \subseteq Refs(h)
  /\ Ranked(e, r, n) /\ Counted(e, D, Nothing)

LEMMA BuildingStarts ==
  ASSUME NEW d, NEW D \in SUBSET Hash, NEW r, NEW n, IntactBy(d, D, Nothing, r, n), NEW h \in Hash, h \notin Cached(d),
         Needs(h) \subseteq Cached(d) \cup D, NEW e, e = insert(d, h)
  PROVE  Building(d, e, D, h, [r EXCEPT ![h] = n], n + 1)
  <1>1. d \in Database /\ Ranked(d, r, n) /\ Whole(d, D, r) /\ Counted(d, D, Nothing)
    BY DEF IntactBy
  <1>2. /\ e \in Database /\ DOMAIN e.nodes = DOMAIN d.nodes \cup {h} /\ Cached(e) = Cached(d) \cup {h}
        /\ \A x \in DOMAIN d.nodes : /\ e.nodes[x].children = d.nodes[x].children
                                     /\ e.nodes[x].parents = d.nodes[x].parents + Times(Kids[h], x)
        /\ e.nodes[h].parents = 0 /\ DOMAIN e.nodes[h].children = {}
        /\ \A q, m : Ranked(d, q, m) => Ranked(e, [q EXCEPT ![h] = m], m + 1)
    BY <1>1, InsertIs
  <1>3. NoHash \in DOMAIN d.nodes /\ Cached(d) \subseteq DOMAIN d.nodes
    BY <1>1, CachedIs
  <1>4. OneMore(e, d, h)
    BY <1>2, <1>3 DEF OneMore
  <1>5. \A k : Times(childs(e, h), k) = 0 + Times(Kids[h], k)
    BY <1>2, ChildsAre
  <1>6. Counted(e, D, Nothing)
    <2> SUFFICES ASSUME NEW k \in Hash
                 PROVE  /\ IsFiniteSet(Uses(e, k))
                        /\ k \in Cached(e) \ D =>
                             e.nodes[k].parents >= Rooted(e, k) + Cardinality(Uses(e, k)) + Nothing[k]
      BY DEF Counted
    <2>1. Times(Kids[h], k) \in Nat /\ Nothing[k] = 0
      BY RefsAre, TimesIs DEF Nothing
    <2>2. IsFiniteSet(Uses(d, k))
      BY <1>1 DEF Counted
    <2>3. IsFiniteSet(Uses(e, k)) /\ Cardinality(Uses(e, k)) = Cardinality(Uses(d, k)) + Times(Kids[h], k)
      <3>1. IsFiniteSet(Uses(e, k)) /\ Cardinality(Uses(e, k)) = Cardinality(Uses(d, k)) + Times(childs(e, h), k)
        BY <1>1, <1>2, <1>4, <2>2, UsesMore
      <3>2. Times(childs(e, h), k) = Times(Kids[h], k)
        BY <1>5, <2>1
      <3> QED
        BY <3>1, <3>2
    <2>4. Cardinality(Uses(d, k)) \in Nat /\ Rooted(d, k) \in Nat
      BY <1>1, <2>2, UsesCount, RootedIs
    <2>5. Rooted(e, k) = Rooted(d, k)
      BY <1>2, <1>3 DEF Rooted
    <2>6. CASE k \in Cached(d) \ D
      <3>1. d.nodes[k].parents >= Rooted(d, k) + Cardinality(Uses(d, k)) + Nothing[k] /\ d.nodes[k].parents \in Nat
        BY <1>1, <2>6, CachedIs, NodeIs DEF Counted
      <3>2. e.nodes[k].parents = d.nodes[k].parents + Times(Kids[h], k)
        BY <1>2, <1>3, <2>6
      <3> QED
        BY <2>1, <2>3, <2>4, <2>5, <3>1, <3>2
    <2>7. CASE k = h /\ k \notin D
      <3>1. \A x \in Cached(d) : k \notin ToSet(childs(d, x))
        <4> SUFFICES ASSUME NEW x \in Cached(d), k \in ToSet(childs(d, x))
                     PROVE  FALSE
          OBVIOUS
        <4>1. k \in Needs(x)
          BY <1>1, WholeNeeds
        <4> QED
          BY <1>1, <2>7, <4>1 DEF Whole
      <3>2. Uses(d, k) = {}
        BY <1>1, <3>1, UsesNone
      <3>3. Cardinality(Uses(d, k)) = 0
        BY <3>2, FS_EmptySet
      <3>4. Rooted(d, k) = 0
        BY <1>1, <2>7 DEF Rooted, Whole
      <3>5. Times(Kids[h], k) = 0
        <4>1. k \notin Needs(h)
          BY <2>7
        <4>2. k \notin ToSet(Kids[h]) /\ Kids[h] \in Seq(Hash)
          BY <4>1, RefsAre
        <4> QED
          BY <4>2, TimesIs DEF ToSet
      <3> QED
        BY <1>2, <2>1, <2>3, <2>5, <2>7, <3>3, <3>4, <3>5
    <2> QED
      BY <1>2, <2>3, <2>6, <2>7
  <1> QED
    BY <1>1, <1>2, <1>6 DEF Building

LEMMA BuildingRefers ==
  ASSUME NEW d \in Database, NEW D, NEW h \in Hash, h \notin Cached(d), NEW r, NEW n, NEW b, Building(d, b, D, h, r, n),
         NEW c \in Link, c = NoHash \/ c \in Refs(h), NEW e, e = referTo(b, c, h)
  PROVE  /\ Building(d, e, D, h, r, n) /\ DOMAIN b.nodes[h].children \subseteq DOMAIN e.nodes[h].children
         /\ c \in DOMAIN d.nodes \ {NoHash} => c \in DOMAIN e.nodes[h].children
  <1>1. b \in Database /\ h \in DOMAIN b.nodes /\ h \notin DOMAIN d.nodes /\ DOMAIN d.nodes \subseteq DOMAIN b.nodes
    BY CachedIs DEF Building
  <1>2. CASE c = NoHash
    BY <1>2 DEF referTo
  <1>3. CASE c # NoHash /\ Idle(b, c, h)
    <2>1. e = b
      BY <1>3 DEF referTo, Reference, Idle
    <2>2. c \in DOMAIN d.nodes => c \in DOMAIN b.nodes[h].children
      BY <1>1, <1>3 DEF Idle
    <2> QED
      BY <2>1, <2>2
  <1>4. CASE c # NoHash /\ ~ Idle(b, c, h)
    <2>1. c \in Hash /\ e = Reference(b, c, h) /\ c \in Refs(h)
      BY <1>4 DEF referTo, Link
    <2>2. /\ e \in Database /\ DOMAIN e.nodes = DOMAIN b.nodes /\ Cached(e) = Cached(b)
          /\ \A q, m : Ranked(b, q, m) => Ranked(e, q, m)
          /\ \A x \in DOMAIN b.nodes : x # h => e.nodes[x].children = b.nodes[x].children
          /\ DOMAIN e.nodes[h].children = DOMAIN b.nodes[h].children \cup {c}
      BY <1>1, <1>4, <2>1, ReferenceIs
    <2>3. Counted(e, D, Nothing)
      BY <1>1, <1>4, <2>1, CountedReferenced DEF Building
    <2>4. \A x \in DOMAIN d.nodes : e.nodes[x].children = d.nodes[x].children
      BY <1>1, <2>2 DEF Building
    <2> QED
      BY <2>1, <2>2, <2>3, <2>4 DEF Building
  <1> QED
    BY <1>2, <1>3, <1>4

LEMMA IntactStored ==
  ASSUME NEW d, NEW D \in SUBSET Hash, Intact(d, D, Nothing), NEW h \in Hash, h \notin Cached(d),
         Needs(h) \subseteq Cached(d) \cup D, NEW e, e = stored(d, h)
  PROVE  Intact(e, D, Nothing)
  <1>1. PICK r, n : IntactBy(d, D, Nothing, r, n)
    BY DEF Intact
  <1>2. d \in Database /\ Ranked(d, r, n) /\ Whole(d, D, r) /\ Counted(d, D, Nothing)
    BY <1>1 DEF IntactBy
  <1> DEFINE a == insert(d, h)
             b == referTo(a, StorageOf[h], h)
             s == [r EXCEPT ![h] = n]
  <1>3. e = referTo(b, CodeOf[h], h)
    BY DEF stored
  <1>4. Building(d, a, D, h, s, n + 1)
    BY <1>1, BuildingStarts
  <1>5. /\ StorageOf[h] \in Link /\ (StorageOf[h] = NoHash \/ StorageOf[h] \in Refs(h))
        /\ CodeOf[h] \in Link /\ (CodeOf[h] = NoHash \/ CodeOf[h] \in Refs(h))
    BY RefsAre DEF Refs
  <1>6. b = referTo(a, StorageOf[h], h)
    OBVIOUS
  <1>7. s \in [Hash -> Nat] /\ s[h] = n /\ \A x \in Cached(d) : s[x] = r[x] /\ r[x] < n
    <2>1. r \in [Hash -> Nat] /\ n \in Nat /\ \A x \in Cached(d) : r[x] < n
      BY <1>2 DEF Ranked
    <2> QED
      BY <1>2, <2>1, CachedIs
  <1> HIDE DEF a, b, s
  <1>8. /\ Building(d, b, D, h, s, n + 1)
        /\ StorageOf[h] \in DOMAIN d.nodes \ {NoHash} => StorageOf[h] \in DOMAIN b.nodes[h].children
    BY <1>2, <1>4, <1>5, <1>6, BuildingRefers
  <1>9. /\ Building(d, e, D, h, s, n + 1) /\ DOMAIN b.nodes[h].children \subseteq DOMAIN e.nodes[h].children
        /\ CodeOf[h] \in DOMAIN d.nodes \ {NoHash} => CodeOf[h] \in DOMAIN e.nodes[h].children
    BY <1>2, <1>3, <1>5, <1>8, BuildingRefers
  <1>10. Refs(h) \cap Cached(d) \subseteq DOMAIN e.nodes[h].children
    BY <1>8, <1>9 DEF Refs, Cached
  <1>11. /\ e \in Database /\ Cached(e) = Cached(d) \cup {h} /\ Ranked(e, s, n + 1) /\ Counted(e, D, Nothing)
         /\ \A x \in DOMAIN d.nodes : e.nodes[x].children = d.nodes[x].children
         /\ DOMAIN e.nodes[h].children \subseteq Refs(h)
    BY <1>9 DEF Building
  <1>12. NoHash \in DOMAIN d.nodes /\ Cached(d) \subseteq DOMAIN d.nodes /\ Refs(h) \subseteq Needs(h)
    BY <1>2, CachedIs, RefsAre
  <1>13. Whole(e, D, s)
    <2>1. ASSUME NEW x \in Cached(d)
          PROVE  /\ DOMAIN e.nodes[x].children \subseteq Refs(x)
                 /\ Refs(x) \subseteq D \cup DOMAIN e.nodes[x].children
                 /\ \A k \in Needs(x) \ D : k \in Cached(e) /\ s[k] < s[x]
      <3>1. \A k \in Needs(x) \ D : k \in Cached(d) /\ r[k] < r[x]
        BY <1>2 DEF Whole
      <3>2. \A k \in Needs(x) \ D : k \in Cached(e) /\ s[k] < s[x]
        BY <1>7, <1>11, <3>1
      <3> QED
        BY <1>2, <1>11, <1>12, <3>2 DEF Whole
    <2>2. \A k \in Needs(h) \ D : k \in Cached(e) /\ s[k] < s[h]
      BY <1>7, <1>11
    <2>3. Refs(h) \subseteq D \cup DOMAIN e.nodes[h].children
      BY <1>10, <1>12
    <2>4. DOMAIN e.nodes[NoHash].children \subseteq Cached(e) \cup D
      BY <1>2, <1>11, <1>12 DEF Whole
    <2> QED
      BY <1>11, <2>1, <2>2, <2>3, <2>4 DEF Whole
  <1>14. IntactBy(e, D, Nothing, s, n + 1)
    BY <1>11, <1>13 DEF IntactBy
  <1> QED
    BY <1>14 DEF Intact

-----------------------------------------------------------------------------
(* uncache                                                                 *)

LEMMA VisitsIs == Visits \in Nat \ {0}
  <1> DEFINE P(h) == {h} \X (1 .. Len(Kids[h]) + 2)
             PP == {P(h) : h \in Hash}
  <1>1. ASSUME NEW h \in Hash
        PROVE  IsFiniteSet(P(h))
    <2>1. Len(Kids[h]) + 2 \in Nat
      BY RefsAre
    <2>2. IsFiniteSet(1 .. Len(Kids[h]) + 2)
      BY <2>1, FS_Interval
    <2>3. IsFiniteSet({h})
      BY FS_Singleton
    <2> QED
      BY <2>2, <2>3, FS_Product
  <1>2. IsFiniteSet(PP)
    <2> DEFINE f == [h \in Hash |-> P(h)]
    <2>1. f \in Surjection(Hash, PP)
      BY DEF Surjection
    <2> HIDE DEF P, PP, f
    <2> QED
      BY <2>1, TrieAssumption, FS_Surjection
  <1>3. \A S \in PP : IsFiniteSet(S)
    BY <1>1
  <1>4. Visits = 1 + Cardinality(UNION PP)
    BY DEF Visits
  <1> HIDE DEF PP
  <1>5. IsFiniteSet(UNION PP)
    BY <1>2, <1>3, FS_UNION
  <1>6. Cardinality(UNION PP) \in Nat
    BY <1>5, FS_CardinalityType
  <1> QED
    BY <1>4, <1>6

\* f is the "after" of uncache, for its first N visits.
IsAfter(f, N, start) == f = [j \in 0 .. N |-> IF j = 0 THEN start ELSE uncacheOnce(f[j - 1])]

LEMMA AfterExists ==
  ASSUME NEW start, NEW N \in Nat
  PROVE  \E f : IsAfter(f, N, start)
  <1> DEFINE S == {m \in Nat : \E f : IsAfter(f, m, start)}
  <1>1. 0 \in S
    <2>1. IsAfter([j \in 0 .. 0 |-> start], 0, start)
      BY DEF IsAfter
    <2> QED
      BY <2>1
  <1>2. ASSUME NEW m \in Nat, m \in S
        PROVE  m + 1 \in S
    <2>1. PICK f : IsAfter(f, m, start)
      BY <1>2
    <2> DEFINE g == [j \in 0 .. m + 1 |-> IF j = m + 1 THEN uncacheOnce(f[m]) ELSE f[j]]
    <2>2. ASSUME NEW j \in 0 .. m + 1
          PROVE  g[j] = IF j = 0 THEN start ELSE uncacheOnce(g[j - 1])
      <3>1. CASE j = m + 1
        <4>1. j # 0 /\ j - 1 = m /\ m \in 0 .. m + 1 /\ m # m + 1
          BY <3>1
        <4>2. g[j - 1] = f[m] /\ g[j] = uncacheOnce(f[m])
          BY <3>1, <4>1
        <4> HIDE DEF g
        <4> QED
          BY <4>1, <4>2
      <3>2. CASE j # m + 1
        <4>1. j \in 0 .. m /\ g[j] = f[j]
          BY <3>2
        <4>2. j # 0 => j - 1 \in 0 .. m /\ g[j - 1] = f[j - 1]
          BY <3>2
        <4>3. f[j] = IF j = 0 THEN start ELSE uncacheOnce(f[j - 1])
          BY <2>1, <4>1 DEF IsAfter
        <4> HIDE DEF g
        <4> QED
          BY <4>1, <4>2, <4>3
      <3> QED
        BY <3>1, <3>2
    <2>3. g = [j \in 0 .. m + 1 |-> g[j]]
      OBVIOUS
    <2> HIDE DEF g
    <2>4. IsAfter(g, m + 1, start)
      BY <2>2, <2>3 DEF IsAfter
    <2> QED
      BY <2>4
  <1>3. N \in S
    <2> HIDE DEF S
    <2> QED
      BY <1>1, <1>2, Induction
  <1> QED
    BY <1>3

\* Nodes on the disk, which has all that they need, go out of d; D is the disk.
LEMMA UncacheOnceIs ==
  ASSUME NEW D \in SUBSET Hash, \A k \in D : Needs(k) \subseteq D,
         NEW a, Intact(a.db, D, Nothing), a.todo \in Seq(D), NEW b, b = uncacheOnce(a)
  PROVE  Intact(b.db, D, Nothing) /\ b.todo \in Seq(D)
  <1> DEFINE d == a.db
             h == Head(a.todo)
             rest == Tail(a.todo)
  <1>1. CASE a.todo = <<>>
    BY <1>1 DEF uncacheOnce
  <1>2. CASE a.todo # <<>>
    <2>1. h \in D /\ rest \in Seq(D) /\ h \in Hash
      BY <1>2
    <2>2. CASE h \notin DOMAIN d.nodes
      BY <1>2, <2>1, <2>2 DEF uncacheOnce
    <2>3. CASE h \in DOMAIN d.nodes
      <3> DEFINE e == delete(unlink(d, h), h)
                 c == childs(d, h)
      <3>1. b = [db |-> e, todo |-> c \o rest]
        BY <1>2, <2>3 DEF uncacheOnce
      <3>2. Intact(d, D, Nothing)
        OBVIOUS
      <3> HIDE DEF d, h, rest
      <3>3. PICK r, n : d \in Database /\ Whole(d, D, r)
        BY <3>2 DEF Intact, IntactBy
      <3>4. h \in Cached(d)
        BY <2>1, <2>3, <3>3, CachedIs
      <3>5. LeftWithout(d, e, h)
        BY <3>3, <3>4, TakenIs
      <3>6. Nothing \in [Hash -> Nat]
        BY DEF Nothing
      <3>7. \A k \in Cached(e) \ D : Nothing[k] <= Nothing[k] + Times(c, k)
        <4> SUFFICES ASSUME NEW k \in Cached(e) \ D
                     PROVE  Nothing[k] <= Nothing[k] + Times(c, k)
          OBVIOUS
        <4>1. Times(c, k) \in Nat
          BY <3>3, <3>4, ChildsAre, TimesIs
        <4>2. k \in Hash
          BY <3>3, <3>5, CachedIs DEF LeftWithout
        <4> QED
          BY <3>6, <4>1, <4>2
      <3>8. Unneeded(d, D, h)
        BY <2>1 DEF Unneeded
      <3> HIDE DEF e
      <3>9. Intact(e, D, Nothing)
        BY <3>2, <3>4, <3>5, <3>6, <3>7, <3>8, IntactOut
      <3>10. c \in Seq(Hash) /\ ToSet(c) \subseteq D
        BY <2>1, <3>3, <3>4, ChildsAre, WholeNeeds
      <3> HIDE DEF c
      <3>11. c \in Seq(D)
        <4>1. \A i \in 1 .. Len(c) : c[i] \in D
          BY <3>10 DEF ToSet
        <4> QED
          BY <3>10, <4>1
      <3>12. c \o rest \in Seq(D)
        BY <2>1, <3>11, ConcatProperties
      <3> QED
        BY <3>1, <3>9, <3>12
    <2> QED
      BY <2>2, <2>3
  <1> QED
    BY <1>1, <1>2

LEMMA IntactUncached ==
  ASSUME NEW d, NEW D \in SUBSET Hash, \A k \in D : Needs(k) \subseteq D, Intact(d, D, Nothing), NEW h \in D
  PROVE  Intact(uncache(d, h), D, Nothing)
  <1> DEFINE start == [db |-> d, todo |-> <<h>>]
             F == CHOOSE f : IsAfter(f, Visits, start)
  <1>1. Visits \in Nat
    BY VisitsIs
  <1>2. IsAfter(F, Visits, start)
    <2>1. \E f : IsAfter(f, Visits, start)
      BY <1>1, AfterExists
    <2> QED
      BY <2>1, Zenon
  <1>3. uncache(d, h) = F[Visits].db
    BY Zenon DEF uncache, IsAfter
  <1>4. Intact(start.db, D, Nothing) /\ start.todo \in Seq(D)
    OBVIOUS
  <1> HIDE DEF F, start
  <1>5. F[0] = start /\ \A j \in 1 .. Visits : F[j] = uncacheOnce(F[j - 1])
    BY <1>1, <1>2 DEF IsAfter
  <1> DEFINE S == {j \in Nat : j <= Visits => Intact(F[j].db, D, Nothing) /\ F[j].todo \in Seq(D)}
  <1>6. 0 \in S
    BY <1>4, <1>5
  <1>7. ASSUME NEW j \in Nat, j \in S
        PROVE  j + 1 \in S
    <2> SUFFICES ASSUME j + 1 <= Visits
                 PROVE  Intact(F[j + 1].db, D, Nothing) /\ F[j + 1].todo \in Seq(D)
      OBVIOUS
    <2>1. Intact(F[j].db, D, Nothing) /\ F[j].todo \in Seq(D)
      BY <1>1, <1>7
    <2>2. F[j + 1] = uncacheOnce(F[j])
      <3>1. j + 1 \in 1 .. Visits /\ (j + 1) - 1 = j
        BY <1>1
      <3> QED
        BY <1>5, <3>1
    <2> QED
      BY <2>1, <2>2, UncacheOnceIs
  <1>8. Visits \in S
    <2> HIDE DEF S
    <2> QED
      BY <1>1, <1>6, <1>7, Induction
  <1> QED
    BY <1>1, <1>3, <1>8

-----------------------------------------------------------------------------
(* dereference                                                             *)

\* How often each node is about to be given up.
Weight(ks) == [k \in Hash |-> Times(ks, k)]

\* The calls to come are for ks, from parents that are gone from N.
CallsFor(todo, ks, N) ==
  /\ todo \in Seq(Hash \X Link) /\ ks \in Seq(Hash) /\ Len(todo) = Len(ks)
  /\ \A i \in 1 .. Len(ks) : todo[i][1] = ks[i] /\ todo[i][2] \notin N

LEMMA WeightIs ==
  ASSUME NEW ks \in Seq(Hash)
  PROVE  Weight(ks) \in [Hash -> Nat] /\ \A k \in Hash : Weight(ks)[k] = Times(ks, k)
  <1>1. \A k \in Hash : Times(ks, k) \in Nat
    BY TimesIs
  <1> QED
    BY <1>1 DEF Weight

LEMMA CallsTail ==
  ASSUME NEW todo \in Seq(Hash \X Link), NEW ks \in Seq(Hash), Len(todo) = Len(ks), ks # <<>>, NEW N,
         \A i \in 1 .. Len(ks) : todo[i][1] = ks[i], \A i \in 2 .. Len(ks) : todo[i][2] \notin N
  PROVE  CallsFor(Tail(todo), Tail(ks), N)
  <1>1. todo # <<>> /\ Len(ks) \in Nat \ {0}
    OBVIOUS
  <1> DEFINE s == Tail(todo)
             t == Tail(ks)
  <1>2. s \in Seq(Hash \X Link) /\ Len(s) = Len(todo) - 1 /\ \A i \in 1 .. Len(s) : s[i] = todo[i + 1]
    BY <1>1, HeadTailProperties
  <1>3. t \in Seq(Hash) /\ Len(t) = Len(ks) - 1 /\ \A i \in 1 .. Len(t) : t[i] = ks[i + 1]
    BY HeadTailProperties
  <1> HIDE DEF s, t
  <1>4. ASSUME NEW i \in 1 .. Len(t)
        PROVE  s[i][1] = t[i] /\ s[i][2] \notin N
    <2>1. i + 1 \in 1 .. Len(ks) /\ i + 1 \in 2 .. Len(ks) /\ i \in 1 .. Len(s)
      BY <1>1, <1>2, <1>3
    <2>2. s[i] = todo[i + 1] /\ t[i] = ks[i + 1]
      BY <1>2, <1>3, <2>1
    <2> QED
      BY <2>1, <2>2
  <1>5. CallsFor(s, t, N)
    BY <1>2, <1>3, <1>4 DEF CallsFor
  <1> QED
    BY <1>5 DEF s, t

LEMMA CallsMore ==
  ASSUME NEW todo, NEW ks, NEW N, CallsFor(todo, ks, N), NEW below \in Seq(Hash), NEW c \in Hash, c \notin N
  PROVE  CallsFor([i \in DOMAIN below |-> <<below[i], c>>] \o todo, below \o ks, N)
  <1> DEFINE new == [i \in DOMAIN below |-> <<below[i], c>>]
             n == Len(below)
  <1>1. n \in Nat /\ DOMAIN below = 1 .. n /\ \A i \in 1 .. n : below[i] \in Hash
    OBVIOUS
  <1>2. c \in Link
    BY DEF Link
  <1>3. new \in Seq(Hash \X Link) /\ Len(new) = n /\ \A i \in 1 .. n : new[i] = <<below[i], c>>
    <2>1. \A i \in 1 .. n : <<below[i], c>> \in Hash \X Link
      BY <1>1, <1>2
    <2>2. new \in [1 .. n -> Hash \X Link] /\ DOMAIN new = 1 .. n
      BY <1>1, <2>1
    <2>3. \A i \in 1 .. n : new[i] = <<below[i], c>>
      BY <1>1
    <2> HIDE DEF new, n
    <2>4. new \in Seq(Hash \X Link)
      BY <1>1, <2>2
    <2> QED
      BY <1>1, <2>2, <2>3, <2>4
  <1>4. todo \in Seq(Hash \X Link) /\ ks \in Seq(Hash) /\ Len(todo) = Len(ks) /\ Len(ks) \in Nat
    BY DEF CallsFor
  <1> HIDE DEF new
  <1> DEFINE s == new \o todo
             t == below \o ks
  <1>5. /\ s \in Seq(Hash \X Link) /\ Len(s) = n + Len(ks)
        /\ \A i \in 1 .. n + Len(ks) : s[i] = IF i <= n THEN new[i] ELSE todo[i - n]
    <2> DEFINE P == Hash \X Link
    <2>1. new \in Seq(P) /\ todo \in Seq(P)
      BY <1>3, <1>4
    <2> HIDE DEF P
    <2>2. /\ s \in Seq(P) /\ Len(s) = Len(new) + Len(todo)
          /\ \A i \in 1 .. Len(new) + Len(todo) : s[i] = IF i <= Len(new) THEN new[i] ELSE todo[i - Len(new)]
      BY <2>1, ConcatProperties
    <2> QED
      BY <1>3, <1>4, <2>2 DEF P
  <1>6. /\ t \in Seq(Hash) /\ Len(t) = n + Len(ks)
        /\ \A i \in 1 .. n + Len(ks) : t[i] = IF i <= n THEN below[i] ELSE ks[i - n]
    BY <1>4, ConcatProperties
  <1> HIDE DEF s, t, n
  <1>7. ASSUME NEW i \in 1 .. Len(t)
        PROVE  s[i][1] = t[i] /\ s[i][2] \notin N
    <2>1. CASE i <= n
      <3>1. i \in 1 .. n /\ s[i] = new[i] /\ t[i] = below[i]
        BY <1>1, <1>5, <1>6, <2>1
      <3> QED
        BY <1>3, <3>1
    <2>2. CASE ~ (i <= n)
      <3>1. i - n \in 1 .. Len(ks) /\ s[i] = todo[i - n] /\ t[i] = ks[i - n]
        BY <1>1, <1>4, <1>5, <1>6, <2>2
      <3> QED
        BY <3>1 DEF CallsFor
    <2> QED
      BY <2>1, <2>2
  <1>8. CallsFor(s, t, N)
    BY <1>5, <1>6, <1>7 DEF CallsFor
  <1> QED
    BY <1>8 DEF s, t, new

LEMMA CallsGone ==
  ASSUME NEW todo, NEW ks, NEW N, CallsFor(todo, ks, N), NEW M \in SUBSET N
  PROVE  CallsFor(todo, ks, M)
  BY DEF CallsFor

\* The reference that is given up is taken off the parents of the node.
Lowered(d, c) == [d EXCEPT !.nodes[c].parents = IF @ > 0 THEN @ - 1 ELSE 0]

LEMMA IntactLowered ==
  ASSUME NEW d, NEW D \in SUBSET Hash, NEW ks \in Seq(Hash), ks # <<>>, Intact(d, D, Weight(ks)),
         ks[1] \in Cached(d), NEW e, e = Lowered(d, ks[1])
  PROVE  Intact(e, D, Weight(Tail(ks))) /\ e \in Database /\ DOMAIN e.nodes = DOMAIN d.nodes
  <1> DEFINE c == ks[1]
             t == Tail(ks)
             w == Weight(ks)
             v == Weight(t)
             g == [d.nodes EXCEPT ![c].parents = IF @ > 0 THEN @ - 1 ELSE 0]
  <1>1. PICK r, n : IntactBy(d, D, w, r, n)
    BY DEF Intact
  <1>2. d \in Database /\ Ranked(d, r, n) /\ Whole(d, D, r) /\ Counted(d, D, w)
    BY <1>1 DEF IntactBy
  <1>3. t \in Seq(Hash)
    BY HeadTailProperties
  <1>4. w \in [Hash -> Nat] /\ v \in [Hash -> Nat] /\ \A k \in Hash : w[k] = v[k] + IF c = k THEN 1 ELSE 0
    <2>1. \A k \in Hash : Times(ks, k) = (IF c = k THEN 1 ELSE 0) + Times(t, k) /\ Times(t, k) \in Nat
      BY <1>3, TimesTail, TimesIs
    <2>2. /\ w \in [Hash -> Nat] /\ \A k \in Hash : w[k] = Times(ks, k)
          /\ v \in [Hash -> Nat] /\ \A k \in Hash : v[k] = Times(t, k)
      BY <1>3, WeightIs
    <2> HIDE DEF w, v, t, c
    <2> QED
      BY <2>1, <2>2
  <1>5. c \in Cached(d)
    OBVIOUS
  <1>6. e = [d EXCEPT !.nodes = g]
    BY <1>2 DEF Database, Lowered
  <1> HIDE DEF c, t, w, v
  <1>7. /\ Cached(d) \subseteq Hash /\ Cached(d) \subseteq DOMAIN d.nodes /\ NoHash \in DOMAIN d.nodes
        /\ NoHash \notin Cached(d) /\ d.nodes \in Nodes /\ DOMAIN d.nodes \in SUBSET Link
    <2>1. d.nodes \in Nodes
      BY <1>2 DEF Database
    <2> QED
      BY <1>2, <2>1, CachedIs, NodesAre
  <1>8. DOMAIN g = DOMAIN d.nodes /\ g = [x \in DOMAIN d.nodes |-> g[x]]
    OBVIOUS
  <1>9. ASSUME NEW x \in DOMAIN d.nodes
        PROVE  /\ g[x] \in Node /\ g[x].children = d.nodes[x].children
               /\ g[x].flushPrev = d.nodes[x].flushPrev /\ g[x].flushNext = d.nodes[x].flushNext
               /\ x # c => g[x].parents = d.nodes[x].parents
               /\ x = c => g[x].parents = IF d.nodes[x].parents > 0 THEN d.nodes[x].parents - 1 ELSE 0
    <2> DEFINE m == d.nodes[x]
               p == IF m.parents > 0 THEN m.parents - 1 ELSE 0
    <2>1. m \in Node /\ m.parents \in Nat
      BY <1>2, CachedIs, NodeIs
    <2>2. p \in Nat
      BY <2>1
    <2>3. g[x] = IF x = c THEN [m EXCEPT !.parents = p] ELSE m
      OBVIOUS
    <2> HIDE DEF m, p, g
    <2>4. /\ g[x] \in Node /\ g[x].children = m.children /\ g[x].flushPrev = m.flushPrev /\ g[x].flushNext = m.flushNext
          /\ (x # c => g[x].parents = m.parents) /\ (x = c => g[x].parents = p)
      BY <2>1, <2>2, <2>3 DEF Node
    <2> QED
      BY <2>4 DEF m, p
  <1> HIDE DEF g
  <1>10. g \in Nodes
    <2>1. g \in [DOMAIN d.nodes -> Node]
      BY <1>8, <1>9
    <2> QED
      BY <1>7, <2>1, NodesIf
  <1>11. e \in Database /\ e.nodes = g /\ e.oldest = d.oldest /\ e.newest = d.newest /\ Cached(e) = Cached(d)
    BY <1>2, <1>6, <1>8, <1>10 DEF Database, Cached
  <1>12. Ranked(e, r, n)
    <2>1. \A x \in Cached(d) : e.nodes[x].flushPrev = d.nodes[x].flushPrev /\ e.nodes[x].flushNext = d.nodes[x].flushNext
      BY <1>7, <1>9, <1>11
    <2> QED
      BY <1>2, <1>8, <1>11, <2>1, RankedSame
  <1>13. \A x \in DOMAIN d.nodes : e.nodes[x].children = d.nodes[x].children
    BY <1>9, <1>11
  <1>14. Whole(e, D, r)
    BY <1>2, <1>7, <1>11, <1>13 DEF Whole
  <1>15. Counted(e, D, v)
    <2> SUFFICES ASSUME NEW k \in Hash
                 PROVE  /\ IsFiniteSet(Uses(e, k))
                        /\ k \in Cached(e) \ D =>
                             e.nodes[k].parents >= Rooted(e, k) + Cardinality(Uses(e, k)) + v[k]
      BY DEF Counted
    <2>1. Uses(e, k) = Uses(d, k)
      BY <1>2, <1>7, <1>11, <1>13, UsesSame
    <2>2. Rooted(e, k) = Rooted(d, k)
      BY <1>7, <1>13 DEF Rooted
    <2>3. IsFiniteSet(Uses(d, k)) /\ Rooted(d, k) \in Nat
      BY <1>2, RootedIs DEF Counted
    <2>4. Cardinality(Uses(d, k)) \in Nat
      BY <2>3, UsesCount
    <2>5. ASSUME k \in Cached(d) \ D
          PROVE  e.nodes[k].parents >= Rooted(d, k) + Cardinality(Uses(d, k)) + v[k]
      <3>1. d.nodes[k].parents >= Rooted(d, k) + Cardinality(Uses(d, k)) + w[k] /\ d.nodes[k].parents \in Nat
        BY <1>2, <2>5, CachedIs, NodeIs DEF Counted
      <3>2. w[k] = v[k] + (IF c = k THEN 1 ELSE 0) /\ v[k] \in Nat
        BY <1>4
      <3>3. k \in DOMAIN d.nodes /\ e.nodes[k] = g[k]
        BY <1>7, <1>11, <2>5
      <3>4. CASE c = k
        <4>1. e.nodes[k].parents = IF d.nodes[k].parents > 0 THEN d.nodes[k].parents - 1 ELSE 0
          BY <1>9, <3>3, <3>4
        <4> QED
          BY <2>3, <2>4, <3>1, <3>2, <3>4, <4>1
      <3>5. CASE c # k
        <4>1. e.nodes[k].parents = d.nodes[k].parents
          BY <1>9, <3>3, <3>5
        <4> QED
          BY <2>3, <2>4, <3>1, <3>2, <3>5, <4>1
      <3> QED
        BY <3>4, <3>5
    <2> QED
      BY <1>11, <2>1, <2>2, <2>3, <2>5
  <1>16. IntactBy(e, D, v, r, n)
    BY <1>11, <1>12, <1>14, <1>15 DEF IntactBy
  <1>17. Intact(e, D, v)
    BY <1>16 DEF Intact
  <1> QED
    BY <1>8, <1>11, <1>17 DEF v, t
\* The calls to come give up what is still counted.
Due(a, D) == \E ks : CallsFor(a.todo, ks, DOMAIN a.db.nodes) /\ Intact(a.db, D, Weight(ks))

LEMMA DueIf ==
  ASSUME NEW a, NEW D, NEW ks, CallsFor(a.todo, ks, DOMAIN a.db.nodes), Intact(a.db, D, Weight(ks))
  PROVE  Due(a, D)
  BY DEF Due

\* What has no parents is not needed.
LEMMA NoParents ==
  ASSUME NEW d, NEW D, NEW w \in [Hash -> Nat], Intact(d, D, w), NEW c \in Cached(d), ~ (d.nodes[c].parents > 0)
  PROVE  Unneeded(d, D, c)
  <1>1. PICK r, n : IntactBy(d, D, w, r, n)
    BY DEF Intact
  <1>2. d \in Database /\ Whole(d, D, r) /\ Counted(d, D, w)
    BY <1>1 DEF IntactBy
  <1> SUFFICES ASSUME c \notin D
               PROVE  Rooted(d, c) = 0 /\ \A x \in Cached(d) \ {c} : c \notin Needs(x)
    BY DEF Unneeded
  <1>3. c \in Hash
    BY <1>2, CachedIs
  <1>4. IsFiniteSet(Uses(d, c)) /\ Rooted(d, c) \in Nat /\ w[c] \in Nat
    BY <1>2, <1>3, RootedIs DEF Counted
  <1>5. Cardinality(Uses(d, c)) \in Nat
    BY <1>4, UsesCount
  <1>6. d.nodes[c].parents \in Nat
    BY <1>2, CachedIs, NodeIs
  <1>7. d.nodes[c].parents >= Rooted(d, c) + Cardinality(Uses(d, c)) + w[c]
    BY <1>2, <1>3 DEF Counted
  <1>8. Rooted(d, c) = 0 /\ Cardinality(Uses(d, c)) = 0
    BY <1>4, <1>5, <1>6, <1>7
  <1>9. Uses(d, c) = {}
    BY <1>4, <1>8, FS_EmptySet
  <1>10. ASSUME NEW x \in Cached(d)
         PROVE  c \notin Needs(x)
    <2>1. c \notin ToSet(childs(d, x))
      BY <1>2, <1>9, UsesEmpty
    <2>2. Needs(x) \subseteq D \cup ToSet(childs(d, x))
      BY <1>2, WholeNeeds
    <2> QED
      BY <2>1, <2>2
  <1> QED
    BY <1>8, <1>10

\* One call, when r is the Database that "release" leaves.
LEMMA DereferenceOnceIs ==
  ASSUME NEW D \in SUBSET Hash, NEW a, NEW ks \in Seq(Hash), ks # <<>>,
         a.todo \in Seq(Hash \X Link), Len(a.todo) = Len(ks), \A i \in 1 .. Len(ks) : a.todo[i][1] = ks[i],
         \A i \in 2 .. Len(ks) : a.todo[i][2] \notin DOMAIN a.db.nodes,
         NEW r, r = release(a.db, ks[1], a.todo[1][2]), DOMAIN r.nodes = DOMAIN a.db.nodes,
         Intact(r, D, Weight(ks)), NEW b, b = dereferenceOnce(a)
  PROVE  Due(b, D)
  <1> DEFINE c == ks[1]
             t == Tail(ks)
             rest == Tail(a.todo)
             one == [r EXCEPT !.nodes[c].parents = IF @ > 0 THEN @ - 1 ELSE 0]
             below == childs(one, c)
             e == delete(unlink(one, c), c)
  <1>1. a.todo # <<>> /\ a.todo[1][1] = c /\ c \in Hash
    OBVIOUS
  <1>2. t \in Seq(Hash) /\ \A k : Times(ks, k) = (IF c = k THEN 1 ELSE 0) + Times(t, k)
    BY HeadTailProperties, TimesTail
  <1>3. CallsFor(rest, t, DOMAIN r.nodes)
    BY CallsTail
  <1>4. b = IF c \notin DOMAIN a.db.nodes THEN [db |-> r, todo |-> rest]
            ELSE IF one.nodes[c].parents > 0 THEN [db |-> one, todo |-> rest]
            ELSE [db |-> e, todo |-> [i \in DOMAIN below |-> <<below[i], c>>] \o rest]
    BY <1>1 DEF dereferenceOnce
  <1>5. PICK q, m : r \in Database /\ Ranked(r, q, m)
    BY DEF Intact, IntactBy
  <1>6. Weight(ks) \in [Hash -> Nat] /\ Weight(t) \in [Hash -> Nat] /\ \A k \in Hash : Weight(t)[k] <= Weight(ks)[k]
    <2>1. /\ Weight(ks) \in [Hash -> Nat] /\ \A k \in Hash : Weight(ks)[k] = Times(ks, k)
          /\ Weight(t) \in [Hash -> Nat] /\ \A k \in Hash : Weight(t)[k] = Times(t, k)
      BY <1>2, WeightIs
    <2>2. \A k \in Hash : Times(ks, k) \in Nat /\ Times(t, k) \in Nat /\ Times(t, k) <= Times(ks, k)
      <3>1. \A k \in Hash : Times(t, k) \in Nat
        BY <1>2, TimesIs
      <3> HIDE DEF t, c
      <3> QED
        BY <1>2, <3>1
    <2> HIDE DEF t
    <2> QED
      BY <2>1, <2>2
  <1>7. CASE c \notin DOMAIN a.db.nodes
    <2>1. b.db = r /\ b.todo = rest
      <3> HIDE DEF t, rest, c, e, one, below
      <3> QED
        BY <1>4, <1>7
    <2>2. Intact(r, D, Weight(t))
      <3> HIDE DEF t
      <3> QED
        BY <1>6, IntactLess
    <2> HIDE DEF t, rest
    <2> QED
      BY <1>3, <2>1, <2>2, DueIf
  <1>8. CASE c \in DOMAIN a.db.nodes
    <2>1. c \in Cached(r)
      BY <1>1, <1>5, <1>8, CachedIs DEF Cached
    <2>2. Intact(one, D, Weight(t)) /\ one \in Database /\ DOMAIN one.nodes = DOMAIN r.nodes
      <3>1. one = Lowered(r, ks[1]) /\ ks[1] \in Cached(r)
        BY <2>1 DEF Lowered
      <3> HIDE DEF one, c, e, below, rest
      <3> QED
        BY <3>1, IntactLowered DEF t
    <2> HIDE DEF one, t, rest, c, below
    <2>3. CASE one.nodes[c].parents > 0
      <3>1. b.db = one /\ b.todo = rest
        BY <1>4, <1>8, <2>3
      <3> QED
        BY <1>3, <2>2, <3>1, DueIf
    <2>4. CASE ~ (one.nodes[c].parents > 0)
      <3> DEFINE todo == [i \in DOMAIN below |-> <<below[i], c>>] \o rest
                 ls == below \o t
      <3>1. b.db = e /\ b.todo = todo
        BY <1>4, <1>8, <2>4
      <3>2. c \in Cached(one)
        BY <2>1, <2>2 DEF Cached
      <3>3. LeftWithout(one, e, c)
        BY <2>2, <3>2, TakenIs
      <3>4. Unneeded(one, D, c)
        BY <1>6, <2>2, <2>4, <3>2, NoParents
      <3>5. below \in Seq(Hash)
        BY <2>2, <3>2, ChildsAre DEF below
      <3>6. ls \in Seq(Hash) /\ \A k : Times(ls, k) = Times(below, k) + Times(t, k)
        BY <1>2, <3>5, TimesConcat, ConcatProperties
      <3> HIDE DEF ls, e
      <3>7. Weight(ls) \in [Hash -> Nat] /\ \A k \in Hash : Weight(ls)[k] = Times(ls, k) /\ Weight(t)[k] = Times(t, k)
        BY <1>2, <3>6, WeightIs
      <3>8. ASSUME NEW k \in Cached(e) \ D
            PROVE  Weight(ls)[k] <= Weight(t)[k] + Times(childs(one, c), k)
        <4>1. k \in Hash
          BY <2>2, <3>3, CachedIs DEF LeftWithout
        <4>2. Times(below, k) \in Nat /\ Times(t, k) \in Nat
          BY <1>2, <3>5, TimesIs
        <4>3. Weight(ls)[k] = Times(below, k) + Times(t, k) /\ Weight(t)[k] = Times(t, k)
          BY <3>6, <3>7, <4>1
        <4>4. Weight(ls)[k] <= Weight(t)[k] + Times(below, k)
          BY <4>2, <4>3
        <4> QED
          BY <4>4 DEF below
      <3>9. Intact(e, D, Weight(ls))
        BY <1>6, <2>2, <3>2, <3>3, <3>4, <3>7, <3>8, IntactOut
      <3>10. DOMAIN e.nodes \subseteq DOMAIN r.nodes /\ c \notin DOMAIN e.nodes
        <4>1. e \in Database /\ Cached(e) = Cached(one) \ {c}
          BY <2>2, <3>3 DEF LeftWithout
        <4>2. /\ DOMAIN e.nodes = Cached(e) \cup {NoHash} /\ DOMAIN one.nodes = Cached(one) \cup {NoHash}
              /\ NoHash \notin Cached(one)
          BY <2>2, <4>1, CachedIs
        <4> QED
          BY <2>2, <3>2, <4>1, <4>2
      <3>11. CallsFor(rest, t, DOMAIN e.nodes)
        BY <1>3, <3>10, CallsGone
      <3>12. CallsFor(todo, ls, DOMAIN e.nodes)
        <4>1. c \in Hash
          BY <1>1
        <4> QED
          BY <3>5, <3>10, <3>11, <4>1, CallsMore DEF ls
      <3> HIDE DEF todo
      <3> QED
        BY <3>1, <3>9, <3>12, DueIf
    <2> QED
      BY <2>3, <2>4
  <1> QED
    BY <1>7, <1>8

\* From the second call on the parents are gone, and "release" does nothing.
LEMMA DueNext ==
  ASSUME NEW D \in SUBSET Hash, NEW a, Due(a, D), NEW b, b = dereferenceOnce(a)
  PROVE  Due(b, D)
  <1>1. PICK ks : CallsFor(a.todo, ks, DOMAIN a.db.nodes) /\ Intact(a.db, D, Weight(ks))
    BY DEF Due
  <1>2. /\ a.todo \in Seq(Hash \X Link) /\ ks \in Seq(Hash) /\ Len(a.todo) = Len(ks)
        /\ \A i \in 1 .. Len(ks) : a.todo[i][1] = ks[i] /\ a.todo[i][2] \notin DOMAIN a.db.nodes
    BY <1>1 DEF CallsFor
  <1>3. CASE ks = <<>>
    <2>1. a.todo = <<>>
      BY <1>2, <1>3
    <2>2. b = a
      BY <2>1 DEF dereferenceOnce
    <2> QED
      BY <2>2
  <1>4. CASE ks # <<>>
    <2>1. 1 \in 1 .. Len(ks)
      BY <1>2, <1>4
    <2>2. a.db = release(a.db, ks[1], a.todo[1][2])
      BY <1>2, <2>1 DEF release
    <2>3. \A i \in 2 .. Len(ks) : a.todo[i][2] \notin DOMAIN a.db.nodes
      <3>1. Len(ks) \in Nat
        BY <1>2
      <3>2. \A i \in 2 .. Len(ks) : i \in 1 .. Len(ks)
        BY <3>1
      <3> QED
        BY <1>2, <3>2
    <2>4. \A i \in 1 .. Len(ks) : a.todo[i][1] = ks[i]
      BY <1>2
    <2> QED
      BY <1>1, <1>2, <1>4, <2>2, <2>3, <2>4, DereferenceOnceIs
  <1> QED
    BY <1>3, <1>4
\* The first call takes one reference off the meta root.
LEMMA IntactReleased ==
  ASSUME NEW d, NEW D \in SUBSET Hash, Intact(d, D, Nothing), NEW h \in DOMAIN d.nodes[NoHash].children,
         NEW e, e = release(d, h, NoHash)
  PROVE  DOMAIN e.nodes = DOMAIN d.nodes /\ Intact(e, D, Weight(<<h>>)) /\ h \in Hash
  <1>1. PICK r, n : IntactBy(d, D, Nothing, r, n)
    BY DEF Intact
  <1>2. d \in Database /\ Ranked(d, r, n) /\ Whole(d, D, r) /\ Counted(d, D, Nothing)
    BY <1>1 DEF IntactBy
  <1> DEFINE counts == d.nodes[NoHash].children
             fewer == IF counts[h] = 1 THEN Restrict(counts, DOMAIN counts \ {h}) ELSE [counts EXCEPT ![h] = @ - 1]
             g == [d.nodes EXCEPT ![NoHash].children = fewer]
             w == Weight(<<h>>)
  <1>3. /\ Cached(d) \subseteq Hash /\ Cached(d) \subseteq DOMAIN d.nodes /\ NoHash \in DOMAIN d.nodes
        /\ NoHash \notin Cached(d) /\ d.nodes \in Nodes /\ DOMAIN d.nodes \in SUBSET Link
    <2>1. d.nodes \in Nodes
      BY <1>2 DEF Database
    <2> QED
      BY <1>2, <2>1, CachedIs, NodesAre
  <1>4. counts \in ChildCounts /\ h \in Hash
    BY <1>2, <1>3, CachedIs, NodeIs
  <1>5. h \in DOMAIN counts
    OBVIOUS
  <1>6. e = [d EXCEPT !.nodes = g]
    <2>1. e = [d EXCEPT !.nodes[NoHash].children = fewer]
      BY <1>3, <1>5 DEF release
    <2> HIDE DEF fewer
    <2> QED
      BY <1>2, <2>1 DEF Database
  <1>7. fewer \in ChildCounts
    <2>1. PICK S \in SUBSET Hash : counts \in [S -> Nat \ {0}]
      BY <1>4 DEF ChildCounts
    <2> HIDE DEF counts
    <2>2. CASE counts[h] = 1
      <3>1. fewer \in [S \ {h} -> Nat \ {0}]
        BY <2>1, <2>2 DEF Restrict
      <3> HIDE DEF fewer
      <3>2. S \ {h} \in SUBSET Hash
        OBVIOUS
      <3> QED
        BY <3>1, <3>2 DEF ChildCounts
    <2>3. CASE counts[h] # 1
      <3>1. counts[h] \in Nat \ {0} /\ counts[h] - 1 \in Nat \ {0}
        BY <1>5, <2>1, <2>3
      <3>2. fewer = [counts EXCEPT ![h] = counts[h] - 1]
        BY <2>3
      <3> HIDE DEF fewer
      <3>3. fewer \in [S -> Nat \ {0}]
        BY <2>1, <3>1, <3>2
      <3> QED
        BY <3>3 DEF ChildCounts
    <2> QED
      BY <2>2, <2>3
  <1>8. ASSUME NEW k
        PROVE  (IF k \in DOMAIN fewer THEN fewer[k] ELSE 0) = Rooted(d, k) - IF k = h THEN 1 ELSE 0
    <2>1. Rooted(d, k) = (IF k \in DOMAIN counts THEN counts[k] ELSE 0) /\ Rooted(d, k) \in Nat
      BY <1>2, RootedIs DEF Rooted
    <2> HIDE DEF counts
    <2>2. CASE counts[h] = 1
      <3>1. DOMAIN fewer = DOMAIN counts \ {h} /\ \A x \in DOMAIN fewer : fewer[x] = counts[x]
        BY <2>2 DEF Restrict
      <3> HIDE DEF fewer
      <3> QED
        BY <1>5, <2>1, <2>2, <3>1
    <2>3. CASE counts[h] # 1
      <3>1. /\ DOMAIN fewer = DOMAIN counts
            /\ \A x \in DOMAIN counts : fewer[x] = IF x = h THEN counts[x] - 1 ELSE counts[x]
        BY <2>3
      <3> HIDE DEF fewer
      <3> QED
        BY <1>5, <2>1, <3>1
    <2> QED
      BY <2>2, <2>3
  <1>9. DOMAIN fewer \subseteq DOMAIN counts
    <2> HIDE DEF counts
    <2> QED
      BY DEF Restrict
  <1> HIDE DEF fewer
  <1>10. ASSUME NEW x \in DOMAIN d.nodes
         PROVE  /\ g[x] \in Node /\ g[x].parents = d.nodes[x].parents
                /\ g[x].flushPrev = d.nodes[x].flushPrev /\ g[x].flushNext = d.nodes[x].flushNext
                /\ g[x].children = IF x = NoHash THEN fewer ELSE d.nodes[x].children
    <2>1. d.nodes[x] \in Node
      BY <1>2, CachedIs
    <2>2. g[x] = IF x = NoHash THEN [d.nodes[x] EXCEPT !.children = fewer] ELSE d.nodes[x]
      OBVIOUS
    <2> HIDE DEF g
    <2> QED
      BY <1>7, <2>1, <2>2 DEF Node
  <1>11. DOMAIN g = DOMAIN d.nodes /\ g = [x \in DOMAIN d.nodes |-> g[x]]
    OBVIOUS
  <1> HIDE DEF g
  <1>12. g \in Nodes
    <2>1. g \in [DOMAIN d.nodes -> Node]
      BY <1>10, <1>11
    <2> QED
      BY <1>3, <2>1, NodesIf
  <1>13. e \in Database /\ e.nodes = g /\ e.oldest = d.oldest /\ e.newest = d.newest /\ Cached(e) = Cached(d)
    BY <1>2, <1>6, <1>11, <1>12 DEF Database, Cached
  <1>14. Ranked(e, r, n)
    <2>1. \A x \in Cached(d) : e.nodes[x].flushPrev = d.nodes[x].flushPrev /\ e.nodes[x].flushNext = d.nodes[x].flushNext
      BY <1>3, <1>10, <1>13
    <2> QED
      BY <1>2, <1>11, <1>13, <2>1, RankedSame
  <1>15. \A x \in Cached(d) : e.nodes[x].children = d.nodes[x].children /\ e.nodes[x].parents = d.nodes[x].parents
    BY <1>3, <1>10, <1>13
  <1>16. e.nodes[NoHash].children = fewer
    BY <1>3, <1>10, <1>13
  <1>17. Whole(e, D, r)
    BY <1>2, <1>9, <1>13, <1>15, <1>16 DEF Whole
  <1>18. \A k \in Hash : w[k] = IF k = h THEN 1 ELSE 0
    <2> SUFFICES ASSUME NEW k \in Hash
                 PROVE  w[k] = IF k = h THEN 1 ELSE 0
      OBVIOUS
    <2>1. <<h>> \in Seq(Hash) /\ <<h>> # <<>> /\ <<h>>[1] = h /\ Tail(<<h>>) = <<>>
      BY <1>4
    <2>2. Times(<<h>>, k) = (IF h = k THEN 1 ELSE 0) + Times(<<>>, k)
      BY <2>1, TimesTail
    <2>3. Times(<<>>, k) = 0
      <3>1. Places(<<>>, k) = {}
        BY DEF Places
      <3> QED
        BY <3>1, FS_EmptySet DEF Times
    <2>4. w[k] = Times(<<h>>, k)
      BY <2>1, WeightIs
    <2> QED
      BY <2>2, <2>3, <2>4
  <1> HIDE DEF w
  <1>19. Counted(e, D, w)
    <2> SUFFICES ASSUME NEW k \in Hash
                 PROVE  /\ IsFiniteSet(Uses(e, k))
                        /\ k \in Cached(e) \ D =>
                             e.nodes[k].parents >= Rooted(e, k) + Cardinality(Uses(e, k)) + w[k]
      BY DEF Counted
    <2>1. Uses(e, k) = Uses(d, k)
      BY <1>2, <1>13, <1>15, UsesSame
    <2>2. Rooted(e, k) = Rooted(d, k) - (IF k = h THEN 1 ELSE 0) /\ Rooted(d, k) \in Nat
      BY <1>2, <1>8, <1>16, RootedIs DEF Rooted
    <2>3. IsFiniteSet(Uses(d, k))
      BY <1>2 DEF Counted
    <2>4. Cardinality(Uses(d, k)) \in Nat
      BY <2>3, UsesCount
    <2>5. k \in Cached(d) \ D => d.nodes[k].parents >= Rooted(d, k) + Cardinality(Uses(d, k)) + Nothing[k]
      BY <1>2 DEF Counted
    <2>6. Nothing[k] = 0 /\ w[k] = IF k = h THEN 1 ELSE 0
      BY <1>18 DEF Nothing
    <2>7. ASSUME k \in Cached(d) \ D
          PROVE  e.nodes[k].parents >= Rooted(e, k) + Cardinality(Uses(d, k)) + w[k]
      <3>1. e.nodes[k].parents = d.nodes[k].parents /\ d.nodes[k].parents \in Nat
        BY <1>2, <1>15, <2>7, CachedIs, NodeIs
      <3> QED
        BY <2>2, <2>4, <2>5, <2>6, <2>7, <3>1
    <2> QED
      BY <1>13, <2>1, <2>3, <2>7
  <1>20. IntactBy(e, D, w, r, n)
    BY <1>13, <1>14, <1>17, <1>19 DEF IntactBy
  <1>21. Intact(e, D, w)
    BY <1>20 DEF Intact
  <1> QED
    BY <1>4, <1>11, <1>13, <1>21 DEF w

\* f is the "after" of dereference, for its first N visits.
IsDereferenced(f, N, start) == f = [j \in 0 .. N |-> IF j = 0 THEN start ELSE dereferenceOnce(f[j - 1])]

LEMMA DereferencedExists ==
  ASSUME NEW start, NEW N \in Nat
  PROVE  \E f : IsDereferenced(f, N, start)
  <1> DEFINE S == {m \in Nat : \E f : IsDereferenced(f, m, start)}
  <1>1. 0 \in S
    <2>1. IsDereferenced([j \in 0 .. 0 |-> start], 0, start)
      BY DEF IsDereferenced
    <2> QED
      BY <2>1
  <1>2. ASSUME NEW m \in Nat, m \in S
        PROVE  m + 1 \in S
    <2>1. PICK f : IsDereferenced(f, m, start)
      BY <1>2
    <2> DEFINE g == [j \in 0 .. m + 1 |-> IF j = m + 1 THEN dereferenceOnce(f[m]) ELSE f[j]]
    <2>2. ASSUME NEW j \in 0 .. m + 1
          PROVE  g[j] = IF j = 0 THEN start ELSE dereferenceOnce(g[j - 1])
      <3>1. CASE j = m + 1
        <4>1. j # 0 /\ j - 1 = m /\ m \in 0 .. m + 1 /\ m # m + 1
          BY <3>1
        <4>2. g[j - 1] = f[m] /\ g[j] = dereferenceOnce(f[m])
          BY <3>1, <4>1
        <4> HIDE DEF g
        <4> QED
          BY <4>1, <4>2
      <3>2. CASE j # m + 1
        <4>1. j \in 0 .. m /\ g[j] = f[j]
          BY <3>2
        <4>2. j # 0 => j - 1 \in 0 .. m /\ g[j - 1] = f[j - 1]
          BY <3>2
        <4>3. f[j] = IF j = 0 THEN start ELSE dereferenceOnce(f[j - 1])
          BY <2>1, <4>1 DEF IsDereferenced
        <4> HIDE DEF g
        <4> QED
          BY <4>1, <4>2, <4>3
      <3> QED
        BY <3>1, <3>2
    <2>3. g = [j \in 0 .. m + 1 |-> g[j]]
      OBVIOUS
    <2> HIDE DEF g
    <2>4. IsDereferenced(g, m + 1, start)
      BY <2>2, <2>3 DEF IsDereferenced
    <2> QED
      BY <2>4
  <1>3. N \in S
    <2> HIDE DEF S
    <2> QED
      BY <1>1, <1>2, Induction
  <1> QED
    BY <1>3


LEMMA IntactDereferenced ==
  ASSUME NEW d, NEW D \in SUBSET Hash, Intact(d, D, Nothing), NEW h \in DOMAIN d.nodes[NoHash].children
  PROVE  Intact(dereference(d, h, NoHash), D, Nothing)
  <1> DEFINE start == [db |-> d, todo |-> <<<<h, NoHash>>>>]
             F == CHOOSE f : IsDereferenced(f, Visits, start)
             r == release(d, h, NoHash)
  <1>1. Visits \in Nat \ {0}
    BY VisitsIs
  <1>2. IsDereferenced(F, Visits, start)
    <2>1. \E f : IsDereferenced(f, Visits, start)
      BY <1>1, DereferencedExists
    <2> QED
      BY <2>1, Zenon
  <1>3. dereference(d, h, NoHash) = F[Visits].db
    BY Zenon DEF dereference, IsDereferenced
  <1>4. DOMAIN r.nodes = DOMAIN d.nodes /\ Intact(r, D, Weight(<<h>>)) /\ h \in Hash
    BY IntactReleased
  <1>5. /\ start.db = d /\ start.todo \in Seq(Hash \X Link) /\ Len(start.todo) = 1
        /\ start.todo[1] = <<h, NoHash>>
    BY <1>4 DEF Link
  <1> HIDE DEF F, start
  <1>6. F[0] = start /\ \A j \in 1 .. Visits : F[j] = dereferenceOnce(F[j - 1])
    BY <1>1, <1>2 DEF IsDereferenced
  <1>7. Due(F[1], D)
    <2> DEFINE ks == <<h>>
    <2>1. ks \in Seq(Hash) /\ ks # <<>> /\ Len(ks) = 1 /\ ks[1] = h
      BY <1>4
    <2>2. r = release(start.db, ks[1], start.todo[1][2])
      BY <1>5, <2>1
    <2>3. \A i \in 1 .. Len(ks) : start.todo[i][1] = ks[i]
      BY <1>5, <2>1
    <2>4. \A i \in 2 .. Len(ks) : start.todo[i][2] \notin DOMAIN start.db.nodes
      BY <2>1
    <2>5. F[1] = dereferenceOnce(start)
      <3>1. 1 \in 1 .. Visits /\ 1 - 1 = 0
        BY <1>1
      <3> QED
        BY <1>6, <3>1
    <2>6. DOMAIN r.nodes = DOMAIN start.db.nodes /\ Intact(r, D, Weight(ks))
      BY <1>4, <1>5
    <2> HIDE DEF ks, r
    <2> QED
      BY <1>5, <2>1, <2>2, <2>3, <2>4, <2>5, <2>6, DereferenceOnceIs
  <1> DEFINE S == {j \in Nat : j + 1 <= Visits => Due(F[j + 1], D)}
  <1>8. 0 \in S
    BY <1>7
  <1>9. ASSUME NEW j \in Nat, j \in S
        PROVE  j + 1 \in S
    <2> SUFFICES ASSUME (j + 1) + 1 <= Visits
                 PROVE  Due(F[(j + 1) + 1], D)
      OBVIOUS
    <2>1. Due(F[j + 1], D)
      BY <1>1, <1>9
    <2>2. F[(j + 1) + 1] = dereferenceOnce(F[j + 1])
      <3>1. (j + 1) + 1 \in 1 .. Visits /\ ((j + 1) + 1) - 1 = j + 1
        BY <1>1
      <3> QED
        BY <1>6, <3>1
    <2> QED
      BY <2>1, <2>2, DueNext
  <1>10. Visits - 1 \in S
    <2>1. Visits - 1 \in Nat
      BY <1>1
    <2> HIDE DEF S
    <2> QED
      BY <1>8, <1>9, <2>1, Induction
  <1>11. Due(F[Visits], D)
    <2>1. (Visits - 1) + 1 = Visits /\ Visits <= Visits
      BY <1>1
    <2> QED
      BY <1>10, <2>1
  <1>12. PICK ks : CallsFor(F[Visits].todo, ks, DOMAIN F[Visits].db.nodes) /\ Intact(F[Visits].db, D, Weight(ks))
    BY <1>11 DEF Due
  <1>13. Nothing \in [Hash -> Nat] /\ Weight(ks) \in [Hash -> Nat] /\ \A k \in Hash : Nothing[k] <= Weight(ks)[k]
    <2>1. ks \in Seq(Hash)
      BY <1>12 DEF CallsFor
    <2>2. Weight(ks) \in [Hash -> Nat]
      BY <2>1, WeightIs
    <2>3. Nothing \in [Hash -> Nat] /\ \A k \in Hash : Nothing[k] = 0
      BY DEF Nothing
    <2> QED
      BY <2>2, <2>3
  <1> QED
    BY <1>3, <1>12, <1>13, IntactLess
-----------------------------------------------------------------------------
(* The oldest nodes                                                        *)

NextPlace(d, h) == IF h = NoHash THEN NoHash ELSE d.nodes[h].flushNext

\* f is the "place" of Oldest.
IsPlace(f, N, d) == f = [i \in 0 .. N |-> IF i = 0 THEN d.oldest ELSE NextPlace(d, f[i - 1])]

LEMMA PlaceExists ==
  ASSUME NEW d, NEW N \in Nat
  PROVE  \E f : IsPlace(f, N, d)
  <1> DEFINE S == {m \in Nat : \E f : IsPlace(f, m, d)}
  <1>1. 0 \in S
    <2>1. IsPlace([j \in 0 .. 0 |-> d.oldest], 0, d)
      BY DEF IsPlace
    <2> QED
      BY <2>1
  <1>2. ASSUME NEW m \in Nat, m \in S
        PROVE  m + 1 \in S
    <2>1. PICK f : IsPlace(f, m, d)
      BY <1>2
    <2> DEFINE g == [j \in 0 .. m + 1 |-> IF j = m + 1 THEN NextPlace(d, f[m]) ELSE f[j]]
    <2>2. ASSUME NEW j \in 0 .. m + 1
          PROVE  g[j] = IF j = 0 THEN d.oldest ELSE NextPlace(d, g[j - 1])
      <3>1. CASE j = m + 1
        <4>1. j # 0 /\ j - 1 = m /\ m \in 0 .. m + 1 /\ m # m + 1
          BY <3>1
        <4>2. g[j - 1] = f[m] /\ g[j] = NextPlace(d, f[m])
          BY <3>1, <4>1
        <4> HIDE DEF g
        <4> QED
          BY <4>1, <4>2
      <3>2. CASE j # m + 1
        <4>1. j \in 0 .. m /\ g[j] = f[j]
          BY <3>2
        <4>2. j # 0 => j - 1 \in 0 .. m /\ g[j - 1] = f[j - 1]
          BY <3>2
        <4>3. f[j] = IF j = 0 THEN d.oldest ELSE NextPlace(d, f[j - 1])
          BY <2>1, <4>1 DEF IsPlace
        <4> HIDE DEF g
        <4> QED
          BY <4>1, <4>2, <4>3
      <3> QED
        BY <3>1, <3>2
    <2>3. g = [j \in 0 .. m + 1 |-> g[j]]
      OBVIOUS
    <2> HIDE DEF g
    <2>4. IsPlace(g, m + 1, d)
      BY <2>2, <2>3 DEF IsPlace
    <2> QED
      BY <2>4
  <1>3. N \in S
    <2> HIDE DEF S
    <2> QED
      BY <1>1, <1>2, Induction
  <1> QED
    BY <1>3


\* What is passed before place i.
Passed(f, i) == {f[j] : j \in 0 .. i - 1}

\* The oldest come before some node, or are all.
LEMMA PassedIs ==
  ASSUME NEW d \in Database, NEW r, NEW m, Ranked(d, r, m), NEW N \in Nat, NEW f, IsPlace(f, N, d), NEW i \in 0 .. N
  PROVE  \/ f[i] = NoHash /\ Passed(f, i) \ {NoHash} = Cached(d)
         \/ /\ f[i] \in Cached(d) /\ Passed(f, i) = {h \in Cached(d) : r[h] < r[f[i]]}
            /\ IsFiniteSet(Passed(f, i)) /\ Cardinality(Passed(f, i)) = i
  <1> DEFINE All(j) == f[j] = NoHash /\ Passed(f, j) \ {NoHash} = Cached(d)
             Some(j) == /\ f[j] \in Cached(d) /\ Passed(f, j) = {h \in Cached(d) : r[h] < r[f[j]]}
                        /\ IsFiniteSet(Passed(f, j)) /\ Cardinality(Passed(f, j)) = j
             S == {j \in Nat : j <= N => All(j) \/ Some(j)}
  <1>1. /\ NoHash \notin Cached(d) /\ Cached(d) \subseteq Hash
        /\ r \in [Hash -> Nat] /\ \A h, k \in Cached(d) : r[h] = r[k] => h = k
        /\ Cached(d) = {} => d.oldest = NoHash
        /\ Cached(d) # {} => d.oldest \in Cached(d)
        /\ \A h \in Cached(d) : r[d.oldest] <= r[h] /\ r[h] <= r[d.newest]
    BY CachedIs DEF Ranked
  <1>2. f[0] = d.oldest /\ \A j \in 1 .. N : f[j] = NextPlace(d, f[j - 1])
    BY DEF IsPlace
  <1>3. Passed(f, 0) = {}
    BY DEF Passed
  <1>4. 0 \in S
    <2>1. CASE Cached(d) = {}
      <3>1. All(0)
        BY <1>1, <1>2, <1>3, <2>1
      <3> QED
        BY <3>1
    <2>2. CASE Cached(d) # {}
      <3>1. f[0] \in Cached(d) /\ \A h \in Cached(d) : ~ (r[h] < r[f[0]])
        BY <1>1, <1>2, <2>2
      <3>2. Some(0)
        BY <1>3, <3>1, FS_EmptySet
      <3> HIDE DEF Some, All
      <3> QED
        BY <3>2
    <2> QED
      BY <2>1, <2>2
  <1>5. ASSUME NEW j \in Nat, j \in S
        PROVE  j + 1 \in S
    <2> SUFFICES ASSUME j + 1 <= N
                 PROVE  All(j + 1) \/ Some(j + 1)
      OBVIOUS
    <2>1. All(j) \/ Some(j)
      <3> HIDE DEF All, Some
      <3> QED
        BY <1>5
    <2>2. f[j + 1] = NextPlace(d, f[j])
      <3>1. j + 1 \in 1 .. N /\ (j + 1) - 1 = j
        OBVIOUS
      <3> QED
        BY <1>2, <3>1
    <2>3. Passed(f, j + 1) = Passed(f, j) \cup {f[j]}
      <3>1. \A x \in Nat : x \in 0 .. (j + 1) - 1 <=> x \in 0 .. j - 1 \/ x = j
        OBVIOUS
      <3>2. 0 .. (j + 1) - 1 = (0 .. j - 1) \cup {j}
        BY <3>1
      <3> QED
        BY <3>2 DEF Passed
    <2>4. CASE All(j)
      <3>1. f[j + 1] = NoHash
        BY <2>2, <2>4 DEF NextPlace
      <3>2. Passed(f, j + 1) \ {NoHash} = Cached(d)
        BY <2>3, <2>4
      <3> QED
        BY <3>1, <3>2
    <2>5. CASE Some(j)
      <3> DEFINE h == f[j]
                 k == d.nodes[h].flushNext
                 P == Passed(f, j)
      <3>1. /\ h \in Cached(d) /\ P = {x \in Cached(d) : r[x] < r[h]} /\ IsFiniteSet(P) /\ Cardinality(P) = j
            /\ f[j + 1] = k /\ Passed(f, j + 1) = P \cup {h}
        BY <1>1, <2>2, <2>3, <2>5 DEF NextPlace
      <3>2. IF h = d.newest THEN k = NoHash
            ELSE k \in Cached(d) /\ r[h] < r[k] /\ \A x \in Cached(d) : r[x] <= r[h] \/ r[k] <= r[x]
        <4>1. h \in Cached(d)
          BY <2>5
        <4> QED
          BY <4>1 DEF Ranked
      <3> HIDE DEF h, k, P, All, Some
      <3>3. \A x \in Cached(d) : r[x] \in Nat
        BY <1>1
      <3>4. CASE h = d.newest
        <4>1. \A x \in Cached(d) : r[x] < r[h] \/ x = h
          BY <1>1, <3>1, <3>3, <3>4
        <4>2. P \cup {h} = Cached(d)
          BY <3>1, <4>1
        <4>3. All(j + 1)
          BY <1>1, <3>1, <3>2, <3>4, <4>2 DEF All
        <4> QED
          BY <4>3
      <3>5. CASE h # d.newest
        <4>1. k \in Cached(d) /\ r[h] < r[k] /\ \A x \in Cached(d) : r[x] <= r[h] \/ r[k] <= r[x]
          BY <3>2, <3>5
        <4>2. \A x \in Cached(d) : r[x] < r[k] <=> r[x] < r[h] \/ x = h
          BY <1>1, <3>1, <3>3, <4>1
        <4>3. P \cup {h} = {x \in Cached(d) : r[x] < r[k]}
          BY <3>1, <4>2
        <4>4. h \notin P
          BY <3>1, <3>3
        <4>5. IsFiniteSet(P \cup {h}) /\ Cardinality(P \cup {h}) = j + 1
          BY <3>1, <4>4, FS_AddElement
        <4>6. Some(j + 1)
          BY <3>1, <4>1, <4>3, <4>5 DEF Some
        <4> QED
          BY <4>6
      <3> QED
        BY <3>4, <3>5
    <2> HIDE DEF All, Some
    <2> QED
      BY <2>1, <2>4, <2>5
  <1>6. i \in S
    <2> HIDE DEF S
    <2> QED
      BY <1>4, <1>5, Induction
  <1>7. All(i) \/ Some(i)
    <2> HIDE DEF All, Some
    <2> QED
      BY <1>6
  <1> QED
    BY <1>7

LEMMA OldestPlaces ==
  ASSUME NEW d, NEW N \in Nat
  PROVE  \E f : IsPlace(f, N, d) /\ Oldest(d, N) = Passed(f, N) \ {NoHash}
  <1> DEFINE F == CHOOSE f : IsPlace(f, N, d)
  <1>1. IsPlace(F, N, d)
    <2>1. \E f : IsPlace(f, N, d)
      BY PlaceExists
    <2> QED
      BY <2>1, Zenon
  <1>2. Oldest(d, N) = Passed(F, N) \ {NoHash}
    BY Zenon DEF Oldest, IsPlace, NextPlace, Passed
  <1> QED
    BY <1>1, <1>2

LEMMA OldestIs ==
  ASSUME NEW d \in Database, NEW r, NEW m, Ranked(d, r, m), NEW N \in Nat
  PROVE  \/ Oldest(d, N) = Cached(d)
         \/ /\ \E c \in Cached(d) : Oldest(d, N) = {h \in Cached(d) : r[h] < r[c]}
            /\ Cardinality(Oldest(d, N)) = N
  <1>1. PICK f : IsPlace(f, N, d) /\ Oldest(d, N) = Passed(f, N) \ {NoHash}
    BY OldestPlaces
  <1>2. N \in 0 .. N
    OBVIOUS
  <1>3. \/ f[N] = NoHash /\ Passed(f, N) \ {NoHash} = Cached(d)
        \/ /\ f[N] \in Cached(d) /\ Passed(f, N) = {h \in Cached(d) : r[h] < r[f[N]]}
           /\ IsFiniteSet(Passed(f, N)) /\ Cardinality(Passed(f, N)) = N
    BY <1>1, <1>2, PassedIs
  <1>4. CASE f[N] = NoHash /\ Passed(f, N) \ {NoHash} = Cached(d)
    BY <1>1, <1>4
  <1>5. CASE /\ f[N] \in Cached(d) /\ Passed(f, N) = {h \in Cached(d) : r[h] < r[f[N]]}
             /\ Cardinality(Passed(f, N)) = N
    <2>1. NoHash \notin Cached(d)
      BY CachedIs
    <2>2. Oldest(d, N) = Passed(f, N)
      BY <1>1, <1>5, <2>1
    <2> QED
      BY <1>5, <2>2
  <1> QED
    BY <1>3, <1>4, <1>5

\* What the oldest nodes need is as old, or on the disk.
LEMMA OldestNeed ==
  ASSUME NEW d, NEW D, NEW w, Intact(d, D, w), NEW N \in Nat
  PROVE  Oldest(d, N) \subseteq Cached(d) /\ \A h \in Oldest(d, N) : Needs(h) \subseteq D \cup Oldest(d, N)
  <1>1. PICK r, m : IntactBy(d, D, w, r, m)
    BY DEF Intact
  <1>2. d \in Database /\ Ranked(d, r, m) /\ Whole(d, D, r)
    BY <1>1 DEF IntactBy
  <1>3. /\ \A h \in Cached(d) : r[h] \in Nat
        /\ \A h \in Cached(d) : \A k \in Needs(h) \ D : k \in Cached(d) /\ r[k] < r[h]
    <2>1. r \in [Hash -> Nat]
      BY <1>2 DEF Ranked
    <2> QED
      BY <1>2, <2>1, CachedIs DEF Whole
  <1>4. CASE Oldest(d, N) = Cached(d)
    BY <1>3, <1>4
  <1>5. CASE \E c \in Cached(d) : Oldest(d, N) = {h \in Cached(d) : r[h] < r[c]}
    <2>1. PICK c \in Cached(d) : Oldest(d, N) = {h \in Cached(d) : r[h] < r[c]}
      BY <1>5
    <2>2. ASSUME NEW h \in Oldest(d, N), NEW k \in Needs(h) \ D
          PROVE  k \in Oldest(d, N)
      <3>1. h \in Cached(d) /\ r[h] < r[c]
        BY <2>1
      <3>2. k \in Cached(d) /\ r[k] < r[h]
        BY <1>3, <2>2, <3>1
      <3>3. r[k] < r[c]
        BY <1>3, <3>1, <3>2
      <3> QED
        BY <2>1, <3>2, <3>3
    <2> QED
      BY <2>1, <2>2
  <1> QED
    BY <1>2, <1>4, <1>5, OldestIs

\* The flush-list runs through exactly the cached nodes, both ways.
LEMMA FlushListIs ==
  ASSUME NEW d, NEW D, NEW w, Intact(d, D, w)
  PROVE  /\ Oldest(d, Cardinality(Hash) + 1) = Cached(d)
         /\ \A h \in Cached(d) : d.nodes[h].flushNext # NoHash => d.nodes[d.nodes[h].flushNext].flushPrev = h
         /\ Cached(d) # {} => d.newest \in Cached(d) /\ d.nodes[d.newest].flushNext = NoHash
  <1>1. PICK r, m : d \in Database /\ Ranked(d, r, m)
    BY DEF Intact, IntactBy
  <1> DEFINE N == Cardinality(Hash) + 1
  <1>2. IsFiniteSet(Hash)
    BY TrieAssumption
  <1>3. Cardinality(Hash) \in Nat
    BY <1>2, FS_CardinalityType
  <1>4. Oldest(d, N) = Cached(d)
    <2>1. \/ Oldest(d, N) = Cached(d)
          \/ /\ \E c \in Cached(d) : Oldest(d, N) = {h \in Cached(d) : r[h] < r[c]}
             /\ Cardinality(Oldest(d, N)) = N
      BY <1>1, <1>3, OldestIs
    <2>2. ASSUME \E c \in Cached(d) : Oldest(d, N) = {h \in Cached(d) : r[h] < r[c]}, Cardinality(Oldest(d, N)) = N
          PROVE  FALSE
      <3>1. Oldest(d, N) \in SUBSET Hash
        <4>1. Oldest(d, N) \subseteq Cached(d)
          BY <2>2
        <4> QED
          BY <1>1, <4>1, CachedIs
      <3> DEFINE A == Oldest(d, N)
                 c == Cardinality(Hash)
      <3>2. A \in SUBSET Hash /\ Cardinality(A) = c + 1 /\ c \in Nat
        BY <1>3, <2>2, <3>1
      <3> HIDE DEF A, N
      <3>3. Cardinality(A) <= c
        BY <1>2, <3>2, FS_Subset
      <3> QED
        BY <3>2, <3>3
    <2> QED
      BY <2>1, <2>2
  <1>5. \A h \in Cached(d) :
          LET k == d.nodes[h].flushNext
          IN  IF h = d.newest THEN k = NoHash ELSE d.nodes[k].flushPrev = h
    BY <1>1 DEF Ranked
  <1>6. Cached(d) # {} => d.newest \in Cached(d)
    BY <1>1 DEF Ranked
  <1> QED
    BY <1>4, <1>5, <1>6
-----------------------------------------------------------------------------
(* Cap                                                                     *)

CapOnce(d) == IF d.oldest = NoHash THEN d ELSE delete([d EXCEPT !.oldest = d.nodes[d.oldest].flushNext], d.oldest)

\* f is the "after" of Cap.
IsCapped(f, N, d) == f = [i \in 0 .. N |-> IF i = 0 THEN d ELSE CapOnce(f[i - 1])]

LEMMA CappedExists ==
  ASSUME NEW start, NEW N \in Nat
  PROVE  \E f : IsCapped(f, N, start)
  <1> DEFINE S == {m \in Nat : \E f : IsCapped(f, m, start)}
  <1>1. 0 \in S
    <2>1. IsCapped([j \in 0 .. 0 |-> start], 0, start)
      BY DEF IsCapped
    <2> QED
      BY <2>1
  <1>2. ASSUME NEW m \in Nat, m \in S
        PROVE  m + 1 \in S
    <2>1. PICK f : IsCapped(f, m, start)
      BY <1>2
    <2> DEFINE g == [j \in 0 .. m + 1 |-> IF j = m + 1 THEN CapOnce(f[m]) ELSE f[j]]
    <2>2. ASSUME NEW j \in 0 .. m + 1
          PROVE  g[j] = IF j = 0 THEN start ELSE CapOnce(g[j - 1])
      <3>1. CASE j = m + 1
        <4>1. j # 0 /\ j - 1 = m /\ m \in 0 .. m + 1 /\ m # m + 1
          BY <3>1
        <4>2. g[j - 1] = f[m] /\ g[j] = CapOnce(f[m])
          BY <3>1, <4>1
        <4> HIDE DEF g
        <4> QED
          BY <4>1, <4>2
      <3>2. CASE j # m + 1
        <4>1. j \in 0 .. m /\ g[j] = f[j]
          BY <3>2
        <4>2. j # 0 => j - 1 \in 0 .. m /\ g[j - 1] = f[j - 1]
          BY <3>2
        <4>3. f[j] = IF j = 0 THEN start ELSE CapOnce(f[j - 1])
          BY <2>1, <4>1 DEF IsCapped
        <4> HIDE DEF g
        <4> QED
          BY <4>1, <4>2, <4>3
      <3> QED
        BY <3>1, <3>2
    <2>3. g = [j \in 0 .. m + 1 |-> g[j]]
      OBVIOUS
    <2> HIDE DEF g
    <2>4. IsCapped(g, m + 1, start)
      BY <2>2, <2>3 DEF IsCapped
    <2> QED
      BY <2>4
  <1>3. N \in S
    <2> HIDE DEF S
    <2> QED
      BY <1>1, <1>2, Induction
  <1> QED
    BY <1>3


LEMMA CapOnceIs ==
  ASSUME NEW d \in Database, NEW h \in Cached(d), h = d.oldest, NEW e, e = CapOnce(d)
  PROVE  /\ LeftWithout(d, e, h) /\ e.oldest = d.nodes[h].flushNext
         /\ \A x \in DOMAIN e.nodes : e.nodes[x] = d.nodes[x]
  <1> DEFINE k == d.nodes[h].flushNext
             u == [d EXCEPT !.oldest = k]
  <1>1. h \in Hash /\ h # NoHash /\ h \in DOMAIN d.nodes /\ k \in Link
    BY CachedIs, NodeIs DEF Cached
  <1>2. e = delete(u, h)
    BY <1>1 DEF CapOnce
  <1> HIDE DEF k
  <1>3. u \in Database /\ u.nodes = d.nodes /\ u.oldest = k /\ u.newest = d.newest /\ Cached(u) = Cached(d)
    BY <1>1 DEF Database, Cached
  <1> HIDE DEF u
  <1>4. /\ e \in Database /\ DOMAIN e.nodes = DOMAIN u.nodes \ {h} /\ Cached(e) = Cached(u) \ {h}
        /\ e.oldest = u.oldest /\ e.newest = u.newest /\ \A x \in DOMAIN e.nodes : e.nodes[x] = u.nodes[x]
    BY <1>1, <1>2, <1>3, DeletedIs
  <1>5. \A x \in DOMAIN e.nodes : e.nodes[x] = d.nodes[x]
    BY <1>3, <1>4
  <1>6. Alike(d.nodes, e.nodes)
    BY <1>5 DEF Alike
  <1>7. Relinked(d.nodes, e.nodes, {e.oldest}, {})
    BY <1>5 DEF Relinked
  <1>8. e.oldest = d.nodes[h].flushNext /\ e.newest = d.newest /\ Cached(e) = Cached(d) \ {h}
    BY <1>3, <1>4 DEF k
  <1>9. ASSUME NEW r, NEW n, Ranked(d, r, n)
        PROVE  Ranked(e, r, n)
    BY <1>4, <1>7, <1>8, <1>9, OldestOut
  <1> QED
    BY <1>3, <1>4, <1>5, <1>6, <1>8, <1>9 DEF LeftWithout

\* One turn of Cap's loop; D are the nodes that are on the disk by then.
LEMMA IntactCapOnce ==
  ASSUME NEW d, NEW D \in SUBSET Hash, Intact(d, D, Nothing), NEW h \in D, h = d.oldest, NEW e, e = CapOnce(d)
  PROVE  /\ Intact(e, D, Nothing) /\ e.oldest = d.nodes[h].flushNext /\ h \in Cached(d) /\ Cached(e) = Cached(d) \ {h}
         /\ \A x \in Cached(e) : e.nodes[x] = d.nodes[x]
  <1>1. PICK r, n : d \in Database /\ Ranked(d, r, n)
    BY DEF Intact, IntactBy
  <1>2. h \in Hash /\ h # NoHash
    BY <1>1, CachedIs
  <1>3. h \in Cached(d)
    BY <1>1, <1>2 DEF Ranked
  <1>4. /\ LeftWithout(d, e, h) /\ e.oldest = d.nodes[h].flushNext
        /\ \A x \in DOMAIN e.nodes : e.nodes[x] = d.nodes[x]
    BY <1>1, <1>3, CapOnceIs
  <1>5. Nothing \in [Hash -> Nat]
    BY DEF Nothing
  <1>6. Unneeded(d, D, h)
    BY DEF Unneeded
  <1>7. ASSUME NEW k \in Cached(e) \ D
        PROVE  Nothing[k] <= Nothing[k] + Times(childs(d, h), k)
    <2>1. Times(childs(d, h), k) \in Nat
      BY <1>1, <1>3, ChildsAre, TimesIs
    <2>2. k \in Hash
      BY <1>4, CachedIs DEF LeftWithout
    <2> QED
      BY <1>5, <2>1, <2>2
  <1>8. Intact(e, D, Nothing)
    BY <1>3, <1>4, <1>5, <1>6, <1>7, IntactOut
  <1>9. Cached(e) = Cached(d) \ {h} /\ Cached(e) \subseteq DOMAIN e.nodes
    BY <1>4 DEF LeftWithout, Cached
  <1> QED
    BY <1>3, <1>4, <1>8, <1>9

\* What the oldest node says of the one before it does not matter.
LEMMA RankedOldest ==
  ASSUME NEW d \in Database, NEW e \in Database, NEW r, NEW n, Ranked(d, r, n), Cached(e) = Cached(d),
         e.oldest = d.oldest, e.newest = d.newest,
         \A x \in Cached(d) : e.nodes[x].flushNext = d.nodes[x].flushNext,
         \A x \in Cached(d) \ {d.oldest} : e.nodes[x].flushPrev = d.nodes[x].flushPrev
  PROVE  Ranked(e, r, n)
  <1>1. /\ r \in [Hash -> Nat] /\ n \in Nat
        /\ \A h \in Cached(d) : r[h] < n
        /\ \A h, k \in Cached(d) : r[h] = r[k] => h = k
        /\ Cached(d) = {} => d.oldest = NoHash
        /\ Cached(d) # {} => d.oldest \in Cached(d) /\ d.newest \in Cached(d)
        /\ \A h \in Cached(d) : r[d.oldest] <= r[h] /\ r[h] <= r[d.newest]
    BY DEF Ranked
  <1>2. \A x \in Cached(d) : r[x] \in Nat
    BY <1>1, CachedIs
  <1>3. ASSUME NEW h \in Cached(d)
        PROVE  LET k == e.nodes[h].flushNext
               IN  IF h = e.newest THEN k = NoHash
                   ELSE /\ k \in Cached(e) /\ r[h] < r[k] /\ e.nodes[k].flushPrev = h
                        /\ \A x \in Cached(e) : r[x] <= r[h] \/ r[k] <= r[x]
    <2> DEFINE k == d.nodes[h].flushNext
    <2>1. CASE h = d.newest
      BY <2>1 DEF Ranked
    <2>2. CASE h # d.newest
      <3>1. /\ k \in Cached(d) /\ r[h] < r[k] /\ d.nodes[k].flushPrev = h
            /\ \A x \in Cached(d) : r[x] <= r[h] \/ r[k] <= r[x]
        BY <2>2 DEF Ranked
      <3>2. e.nodes[h].flushNext = k
        OBVIOUS
      <3> HIDE DEF k
      <3>3. k # d.oldest
        BY <1>1, <1>2, <3>1
      <3>4. e.nodes[k].flushPrev = h
        BY <3>1, <3>3
      <3> QED
        BY <2>2, <3>1, <3>2, <3>4
    <2> QED
      BY <2>1, <2>2
  <1>4. ASSUME NEW h \in Cached(d) \ {d.oldest}
        PROVE  e.nodes[h].flushPrev \in Cached(e) /\ e.nodes[e.nodes[h].flushPrev].flushNext = h
    <2>1. d.nodes[h].flushPrev \in Cached(d) /\ d.nodes[d.nodes[h].flushPrev].flushNext = h
      BY DEF Ranked
    <2> QED
      BY <2>1
  <1> QED
    BY <1>1, <1>3, <1>4 DEF Ranked

\* The links change, and the counts do not.
LEMMA IntactAlike ==
  ASSUME NEW d, NEW D, NEW w, Intact(d, D, w), NEW e \in Database, DOMAIN e.nodes = DOMAIN d.nodes,
         Alike(d.nodes, e.nodes), \A r, n : Ranked(d, r, n) => Ranked(e, r, n)
  PROVE  Intact(e, D, w)
  <1>1. PICK r, n : IntactBy(d, D, w, r, n)
    BY DEF Intact
  <1>2. d \in Database /\ Ranked(d, r, n) /\ Whole(d, D, r) /\ Counted(d, D, w)
    BY <1>1 DEF IntactBy
  <1>3. Cached(e) = Cached(d) /\ NoHash \in DOMAIN d.nodes /\ Cached(d) \subseteq DOMAIN d.nodes
    BY <1>2, CachedIs DEF Cached
  <1>4. \A x \in DOMAIN d.nodes : e.nodes[x].children = d.nodes[x].children /\ e.nodes[x].parents = d.nodes[x].parents
    BY DEF Alike
  <1>5. Ranked(e, r, n)
    BY <1>2
  <1>6. Whole(e, D, r)
    BY <1>2, <1>3, <1>4 DEF Whole
  <1>7. ASSUME NEW k \in Hash
        PROVE  Uses(e, k) = Uses(d, k) /\ Rooted(e, k) = Rooted(d, k)
    <2>1. \A x \in Cached(d) : DOMAIN e.nodes[x].children = DOMAIN d.nodes[x].children
      BY <1>3, <1>4
    <2>2. Uses(e, k) = Uses(d, k)
      BY <1>2, <1>3, <2>1, UsesSame
    <2>3. Rooted(e, k) = Rooted(d, k)
      BY <1>3, <1>4 DEF Rooted
    <2> QED
      BY <2>2, <2>3
  <1>8. Counted(e, D, w)
    <2> SUFFICES ASSUME NEW k \in Hash
                 PROVE  /\ IsFiniteSet(Uses(e, k))
                        /\ k \in Cached(e) \ D =>
                             e.nodes[k].parents >= Rooted(e, k) + Cardinality(Uses(e, k)) + w[k]
      BY DEF Counted
    <2>1. Uses(e, k) = Uses(d, k) /\ Rooted(e, k) = Rooted(d, k)
      BY <1>7
    <2>2. /\ IsFiniteSet(Uses(d, k))
          /\ k \in Cached(d) \ D => d.nodes[k].parents >= Rooted(d, k) + Cardinality(Uses(d, k)) + w[k]
      BY <1>2 DEF Counted
    <2>3. k \in Cached(d) => e.nodes[k].parents = d.nodes[k].parents
      BY <1>3, <1>4
    <2> QED
      BY <1>3, <2>1, <2>2, <2>3
  <1>9. IntactBy(e, D, w, r, n)
    BY <1>5, <1>6, <1>8 DEF IntactBy
  <1> QED
    BY <1>9 DEF Intact

LEMMA IntactCapped ==
  ASSUME NEW d, NEW D \in SUBSET Hash, Intact(d, D, Nothing), NEW N \in Nat
  PROVE  Intact(Cap(d, N), D \cup Oldest(d, N), Nothing)
  <1> DEFINE E == D \cup Oldest(d, N)
             F == CHOOSE f : IsCapped(f, N, d)
             last == F[N]
  <1>1. PICK r, m : d \in Database /\ Ranked(d, r, m)
    BY DEF Intact, IntactBy
  <1>2. E \in SUBSET Hash /\ Intact(d, E, Nothing)
    <2>1. Oldest(d, N) \subseteq Hash
      BY <1>1, OldestNeed, CachedIs
    <2>2. E \in SUBSET Hash /\ D \subseteq E
      BY <2>1
    <2> HIDE DEF E
    <2> QED
      BY <2>2, IntactGrows
  <1>3. PICK p : IsPlace(p, N, d) /\ Oldest(d, N) = Passed(p, N) \ {NoHash}
    BY OldestPlaces
  <1>4. p[0] = d.oldest /\ \A j \in 1 .. N : p[j] = NextPlace(d, p[j - 1])
    BY <1>3 DEF IsPlace
  <1>5. \A j \in 0 .. N - 1 : p[j] = NoHash \/ p[j] \in E
    BY <1>3 DEF Passed
  <1>6. IsCapped(F, N, d)
    <2>1. \E f : IsCapped(f, N, d)
      BY CappedExists
    <2> QED
      BY <2>1, Zenon
  <1>7. Cap(d, N) = IF last.oldest = NoHash THEN last ELSE [last EXCEPT !.nodes[last.oldest].flushPrev = NoHash]
    BY Zenon DEF Cap, IsCapped, CapOnce
  <1> HIDE DEF E, F
  <1>8. F[0] = d /\ \A j \in 1 .. N : F[j] = CapOnce(F[j - 1])
    BY <1>6 DEF IsCapped
  <1> DEFINE Flushed(j) == /\ Intact(F[j], E, Nothing) /\ F[j].oldest = p[j] /\ Cached(F[j]) \subseteq Cached(d)
                        /\ \A x \in Cached(F[j]) : F[j].nodes[x] = d.nodes[x]
             S == {j \in Nat : j <= N => Flushed(j)}
  <1>9. 0 \in S
    BY <1>2, <1>4, <1>8
  <1>10. ASSUME NEW j \in Nat, j \in S
         PROVE  j + 1 \in S
    <2> SUFFICES ASSUME j + 1 <= N
                 PROVE  Flushed(j + 1)
      OBVIOUS
    <2>1. Flushed(j)
      <3> HIDE DEF Flushed
      <3> QED
        BY <1>10
    <2>2. F[j + 1] = CapOnce(F[j]) /\ p[j + 1] = NextPlace(d, p[j]) /\ j \in 0 .. N - 1
      <3>1. j + 1 \in 1 .. N /\ (j + 1) - 1 = j /\ j \in 0 .. N - 1
        OBVIOUS
      <3> QED
        BY <1>4, <1>8, <3>1
    <2>3. CASE p[j] = NoHash
      BY <2>1, <2>2, <2>3 DEF CapOnce, NextPlace
    <2>4. CASE p[j] # NoHash
      <3>1. p[j] \in E /\ p[j + 1] = d.nodes[p[j]].flushNext
        BY <1>5, <2>2, <2>4 DEF NextPlace
      <3>2. Intact(F[j], E, Nothing) /\ p[j] = F[j].oldest
        BY <2>1
      <3>3. /\ Intact(F[j + 1], E, Nothing) /\ F[j + 1].oldest = F[j].nodes[p[j]].flushNext
            /\ p[j] \in Cached(F[j]) /\ Cached(F[j + 1]) = Cached(F[j]) \ {p[j]}
            /\ \A x \in Cached(F[j + 1]) : F[j + 1].nodes[x] = F[j].nodes[x]
        BY <1>2, <2>2, <3>1, <3>2, IntactCapOnce
      <3> QED
        BY <2>1, <3>1, <3>3
    <2> QED
      BY <2>3, <2>4
  <1>11. N \in S
    <2> HIDE DEF S
    <2> QED
      BY <1>9, <1>10, Induction
  <1>12. Intact(last, E, Nothing)
    BY <1>11
  <1> HIDE DEF last
  <1>13. CASE last.oldest = NoHash
    BY <1>7, <1>12, <1>13 DEF E
  <1>14. CASE last.oldest # NoHash
    <2> DEFINE g == SetPrev(last.nodes, last.oldest, NoHash)
               e == Cap(d, N)
    <2>1. PICK q, n : last \in Database /\ Ranked(last, q, n)
      BY <1>12 DEF Intact, IntactBy
    <2>2. last.nodes \in Nodes /\ NoHash \in Link
      BY <2>1 DEF Database, Link
    <2>3. e = [last EXCEPT !.nodes = g]
      BY <1>7, <1>14, <2>1 DEF SetPrev, Database
    <2>4. /\ g \in Nodes /\ DOMAIN g = DOMAIN last.nodes /\ Alike(last.nodes, g)
          /\ \A x \in DOMAIN last.nodes :
               /\ g[x].flushNext = last.nodes[x].flushNext
               /\ g[x].flushPrev = IF x = last.oldest THEN NoHash ELSE last.nodes[x].flushPrev
      BY <2>2, SetPrevIs
    <2> HIDE DEF g, e
    <2>5. e \in Database /\ e.nodes = g /\ e.oldest = last.oldest /\ e.newest = last.newest
      BY <2>1, <2>3, <2>4 DEF Database
    <2>6. Cached(e) = Cached(last) /\ Cached(last) \subseteq DOMAIN last.nodes
      BY <2>4, <2>5 DEF Cached
    <2>7. \A x \in Cached(last) : e.nodes[x].flushNext = last.nodes[x].flushNext
      BY <2>4, <2>5, <2>6
    <2>8. \A x \in Cached(last) \ {last.oldest} : e.nodes[x].flushPrev = last.nodes[x].flushPrev
      BY <2>4, <2>5, <2>6
    <2>9. \A s, k : Ranked(last, s, k) => Ranked(e, s, k)
      BY <2>1, <2>5, <2>6, <2>7, <2>8, RankedOldest
    <2>10. Intact(e, E, Nothing)
      BY <1>12, <2>4, <2>5, <2>9, IntactAlike
    <2> QED
      BY <2>10 DEF e, E
  <1> QED
    BY <1>13, <1>14
\* level is the "level" of Below.
IsLevel(f, N, h) ==
  f = [n \in 0 .. N |-> IF n = 0 THEN {h} ELSE LET up == f[n - 1] IN up \cup UNION {Needs(k) : k \in up}]

NextLevel(up) == up \cup UNION {Needs(k) : k \in up}

LEMMA LevelExists ==
  ASSUME NEW h, NEW N \in Nat
  PROVE  \E f : IsLevel(f, N, h)
  <1> DEFINE S == {m \in Nat : \E f : IsLevel(f, m, h)}
  <1>1. 0 \in S
    <2>1. IsLevel([j \in 0 .. 0 |-> {h}], 0, h)
      BY DEF IsLevel
    <2> QED
      BY <2>1
  <1>2. ASSUME NEW m \in Nat, m \in S
        PROVE  m + 1 \in S
    <2>1. PICK f : IsLevel(f, m, h)
      BY <1>2
    <2> DEFINE g == [j \in 0 .. m + 1 |-> IF j = m + 1 THEN NextLevel(f[m]) ELSE f[j]]
    <2>2. ASSUME NEW j \in 0 .. m + 1
          PROVE  g[j] = IF j = 0 THEN {h} ELSE NextLevel(g[j - 1])
      <3>1. CASE j = m + 1
        <4>1. j # 0 /\ j - 1 = m /\ m \in 0 .. m + 1 /\ m # m + 1
          BY <3>1
        <4>2. g[j - 1] = f[m] /\ g[j] = NextLevel(f[m])
          BY <3>1, <4>1
        <4> HIDE DEF g
        <4> QED
          BY <4>1, <4>2
      <3>2. CASE j # m + 1
        <4>1. j \in 0 .. m /\ g[j] = f[j]
          BY <3>2
        <4>2. j # 0 => j - 1 \in 0 .. m /\ g[j - 1] = f[j - 1]
          BY <3>2
        <4>3. f[j] = IF j = 0 THEN {h} ELSE NextLevel(f[j - 1])
          BY <2>1, <4>1 DEF IsLevel, NextLevel
        <4> HIDE DEF g
        <4> QED
          BY <4>1, <4>2, <4>3
      <3> QED
        BY <3>1, <3>2
    <2>3. g = [j \in 0 .. m + 1 |-> g[j]]
      OBVIOUS
    <2> HIDE DEF g
    <2>4. IsLevel(g, m + 1, h)
      BY <2>2, <2>3 DEF IsLevel, NextLevel
    <2> QED
      BY <2>4
  <1>3. N \in S
    <2> HIDE DEF S
    <2> QED
      BY <1>1, <1>2, Induction
  <1> QED
    BY <1>3

\* A set that has all its members need has all that is below them.
LEMMA BelowClosed ==
  ASSUME NEW A, \A k \in A : Needs(k) \subseteq A, NEW h \in A
  PROVE  Below(h) \subseteq A
  <1> DEFINE N == Cardinality(Hash)
             F == CHOOSE f : IsLevel(f, N, h)
  <1>1. N \in Nat
    BY TrieAssumption, FS_CardinalityType
  <1>2. IsLevel(F, N, h)
    <2>1. \E f : IsLevel(f, N, h)
      BY <1>1, LevelExists
    <2> QED
      BY <2>1, Zenon
  <1>3. Below(h) = F[N]
    BY Zenon DEF Below, IsLevel
  <1> HIDE DEF F, N
  <1>4. F[0] = {h} /\ \A j \in 1 .. N : F[j] = NextLevel(F[j - 1])
    BY <1>1, <1>2 DEF IsLevel, NextLevel
  <1> DEFINE S == {j \in Nat : j <= N => F[j] \subseteq A}
  <1>5. 0 \in S
    BY <1>4
  <1>6. ASSUME NEW j \in Nat, j \in S
        PROVE  j + 1 \in S
    <2> SUFFICES ASSUME j + 1 <= N
                 PROVE  F[j + 1] \subseteq A
      OBVIOUS
    <2>1. F[j] \subseteq A
      BY <1>1, <1>6
    <2>2. F[j + 1] = NextLevel(F[j])
      <3>1. j + 1 \in 1 .. N /\ (j + 1) - 1 = j
        BY <1>1
      <3> QED
        BY <1>4, <3>1
    <2> QED
      BY <2>1, <2>2 DEF NextLevel
  <1>7. N \in S
    <2> HIDE DEF S
    <2> QED
      BY <1>1, <1>5, <1>6, Induction
  <1> QED
    BY <1>1, <1>3, <1>7

-----------------------------------------------------------------------------
(* The inductive invariant of the trie database                            *)

\* What the helpers suppose to be on the disk.
Supposed == disk \cup lost

DiskTypes ==
  /\ db \in [Helper -> Database]
  /\ pc \in [Helper -> {"idle", "store", "write", "point"}]
  /\ target \in [Helper -> Link]
  /\ Supposed \subseteq Hash

SupposedClosed ==
  /\ \A h \in Supposed : Needs(h) \subseteq Supposed
  /\ pointer \in Supposed \cup {NoHash}

DiskInv ==
  /\ DiskTypes /\ SupposedClosed
  /\ \A x \in Helper : Intact(db[x], Supposed, Nothing)
  /\ \A x \in Helper : pc[x] = "point" => target[x] \in Supposed

\* Whichever Puts fail.
LEMMA PutAllIs ==
  ASSUME NEW H, PutAll(H)
  PROVE  Supposed' = Supposed \cup H
  BY DEF PutAll, Supposed

LEMMA IntactIs == \A d, D, w : Intact(d, D, w) => d \in Database
  BY DEF Intact, IntactBy

LEMMA DiskInitInv == DiskInit => DiskInv
  <1> SUFFICES ASSUME DiskInit PROVE DiskInv
    OBVIOUS
  <1>1. DiskTypes
    BY NewDatabaseIs DEF DiskInit, DiskTypes, Link, Supposed
  <1>2. SupposedClosed
    BY DEF DiskInit, SupposedClosed, Supposed
  <1>3. \A x \in Helper : Intact(db[x], Supposed, Nothing)
    <2>1. \A x \in Helper : db[x] = NewDatabase
      BY DEF DiskInit
    <2>2. Supposed \in SUBSET Hash
      BY DEF DiskInit, Supposed
    <2> QED
      BY <2>1, <2>2, IntactNew
  <1> QED
    BY <1>1, <1>2, <1>3 DEF DiskInit, DiskInv

\* A step of one helper; the Supposed may have grown.
LEMMA DiskStep ==
  ASSUME DiskInv, NEW E \in SUBSET Hash, Supposed \subseteq E, Supposed' = E, SupposedClosed',
         NEW x \in Helper, NEW e, db' = [db EXCEPT ![x] = e], Intact(e, E, Nothing),
         NEW p \in {"idle", "store", "write", "point"}, pc' = [pc EXCEPT ![x] = p],
         NEW t \in Link, target' = [target EXCEPT ![x] = t], p = "point" => t \in E
  PROVE  DiskInv'
  <1>1. DiskTypes /\ e \in Database
    BY IntactIs DEF DiskInv
  <1>2. DiskTypes'
    BY <1>1 DEF DiskTypes
  <1>3. ASSUME NEW y \in Helper
        PROVE  Intact(db'[y], Supposed', Nothing) /\ (pc'[y] = "point" => target'[y] \in Supposed')
    <2>1. /\ db'[y] = IF y = x THEN e ELSE db[y]
          /\ pc'[y] = IF y = x THEN p ELSE pc[y]
          /\ target'[y] = IF y = x THEN t ELSE target[y]
      BY <1>1 DEF DiskTypes
    <2>2. Intact(db[y], Supposed, Nothing) /\ (pc[y] = "point" => target[y] \in Supposed)
      BY DEF DiskInv
    <2>3. Intact(db[y], E, Nothing)
      BY <2>2, IntactGrows
    <2> QED
      BY <2>1, <2>2, <2>3
  <1> QED
    BY <1>2, <1>3 DEF DiskInv

\* What a step of helper x starts from.
LEMMA DiskStart ==
  ASSUME DiskInv, NEW x \in Helper
  PROVE  /\ DiskTypes /\ SupposedClosed /\ Intact(db[x], Supposed, Nothing) /\ db[x] \in Database /\ Supposed \in SUBSET Hash
         /\ target[x] \in Link
  BY DEF DiskInv, DiskTypes

LEMMA DiskBatchWrite ==
  ASSUME DiskInv, NEW x \in Helper, NEW h \in Hash, BatchWrite(x, h)
  PROVE  DiskInv'
  <1>1. /\ DiskTypes /\ SupposedClosed /\ Intact(db[x], Supposed, Nothing) /\ db[x] \in Database /\ Supposed \in SUBSET Hash
        /\ target[x] \in Link
    BY DiskStart
  <1>2. /\ pc[x] = "write" /\ pointer' = pointer
        /\ h \in Cached(db[x]) /\ ToSet(childs(db[x], h)) \cap Cached(db[x]) \subseteq Supposed
    BY DEF BatchWrite, ready, Reachable, Supposed
  <1>8. Supposed' = Supposed \cup {h}
    BY PutAllIs DEF BatchWrite
  <1>3. /\ db' = [db EXCEPT ![x] = db[x]] /\ pc' = [pc EXCEPT ![x] = "write"]
        /\ target' = [target EXCEPT ![x] = target[x]]
    BY <1>1, <1>2 DEF BatchWrite, DiskTypes
  <1>4. Needs(h) \subseteq Supposed
    <2>1. PICK r, n : IntactBy(db[x], Supposed, Nothing, r, n)
      BY <1>1 DEF Intact
    <2>2. Whole(db[x], Supposed, r)
      BY <2>1 DEF IntactBy
    <2>3. Needs(h) \subseteq Supposed \cup ToSet(childs(db[x], h)) /\ Needs(h) \subseteq Supposed \cup Cached(db[x])
      BY <1>1, <1>2, <2>2, WholeNeeds DEF Whole
    <2> QED
      BY <1>2, <2>3
  <1>5. SupposedClosed'
    BY <1>1, <1>2, <1>8, <1>4 DEF SupposedClosed
  <1> DEFINE E == Supposed \cup {h}
  <1>6. E \in SUBSET Hash /\ Supposed \subseteq E /\ Supposed' = E
    BY <1>1, <1>2, <1>8
  <1> HIDE DEF E
  <1>7. Intact(db[x], E, Nothing)
    BY <1>1, <1>6, IntactGrows
  <1> QED
    BY <1>1, <1>3, <1>5, <1>6, <1>7, DiskStep

LEMMA DiskOpen ==
  ASSUME DiskInv, NEW x \in Helper, NEW t \in Root, NewVMStateHelper(x, t) \/ Again(x, t)
  PROVE  DiskInv'
  <1>1. DiskTypes /\ SupposedClosed /\ Intact(db[x], Supposed, Nothing) /\ Supposed \in SUBSET Hash
    BY DiskStart
  <1>2. t \in Link
    BY TrieAssumption DEF Link
  <1>3. Supposed' = Supposed /\ SupposedClosed'
    BY <1>1 DEF NewVMStateHelper, Again, SupposedClosed, Supposed
  <1>4. CASE NewVMStateHelper(x, t)
    <2>1. /\ db' = [db EXCEPT ![x] = NewDatabase] /\ pc' = [pc EXCEPT ![x] = "store"]
          /\ target' = [target EXCEPT ![x] = t]
      BY <1>4 DEF NewVMStateHelper
    <2>2. Intact(NewDatabase, Supposed, Nothing)
      BY <1>1, IntactNew
    <2> QED
      BY <1>1, <1>2, <1>3, <2>1, <2>2, DiskStep
  <1>5. CASE Again(x, t)
    <2>1. /\ db' = [db EXCEPT ![x] = db[x]] /\ pc' = [pc EXCEPT ![x] = "store"]
          /\ target' = [target EXCEPT ![x] = t]
      BY <1>1, <1>5 DEF Again, DiskTypes
    <2> QED
      BY <1>1, <1>2, <1>3, <2>1, DiskStep
  <1> QED
    BY <1>4, <1>5

LEMMA DiskStore ==
  ASSUME DiskInv, NEW x \in Helper, NEW h \in Hash, Store(x, h)
  PROVE  DiskInv'
  <1>1. /\ DiskTypes /\ SupposedClosed /\ Intact(db[x], Supposed, Nothing) /\ Supposed \in SUBSET Hash
        /\ target[x] \in Link
    BY DiskStart
  <1> DEFINE e == stored(db[x], h)
  <1>2. /\ db' = [db EXCEPT ![x] = e] /\ pc' = [pc EXCEPT ![x] = "store"]
        /\ target' = [target EXCEPT ![x] = target[x]] /\ UNCHANGED <<Supposed, pointer>>
    BY <1>1 DEF Store, DiskTypes, Supposed
  <1>3. h \notin Cached(db[x]) /\ Needs(h) \subseteq Cached(db[x]) \cup Supposed
    BY DEF Store, Available, Supposed
  <1>4. Intact(e, Supposed, Nothing)
    BY <1>1, <1>3, IntactStored
  <1>5. SupposedClosed'
    BY <1>1, <1>2 DEF SupposedClosed
  <1> HIDE DEF e
  <1> QED
    BY <1>1, <1>2, <1>4, <1>5, DiskStep

LEMMA DiskCommit ==
  ASSUME DiskInv, NEW x \in Helper, Stored(x) \/ Committed(x)
  PROVE  DiskInv'
  <1>1. /\ DiskTypes /\ SupposedClosed /\ Intact(db[x], Supposed, Nothing) /\ Supposed \in SUBSET Hash
        /\ target[x] \in Link
    BY DiskStart
  <1>2. Supposed' = Supposed /\ SupposedClosed'
    BY <1>1 DEF Stored, Committed, SupposedClosed, Supposed
  <1>3. CASE Stored(x)
    <2> DEFINE e == Reference(db[x], target[x], NoHash)
    <2>1. /\ db' = [db EXCEPT ![x] = e] /\ pc' = [pc EXCEPT ![x] = "write"]
          /\ target' = [target EXCEPT ![x] = target[x]]
      BY <1>1, <1>3 DEF Stored, DiskTypes
    <2>2. target[x] \in Cached(db[x]) \cup Supposed
      BY <1>3 DEF Stored, Available, Supposed
    <2>3. Intact(e, Supposed, Nothing)
      BY <1>1, <2>2, IntactReferenced
    <2> HIDE DEF e
    <2> QED
      BY <1>1, <1>2, <2>1, <2>3, DiskStep
  <1>4. CASE Committed(x)
    <2> DEFINE e == uncache(db[x], target[x])
    <2>1. /\ db' = [db EXCEPT ![x] = e] /\ pc' = [pc EXCEPT ![x] = "point"]
          /\ target' = [target EXCEPT ![x] = target[x]]
      BY <1>1, <1>4 DEF Committed, DiskTypes
    <2>2. target[x] \in Supposed /\ \A k \in Supposed : Needs(k) \subseteq Supposed
      BY <1>1, <1>4 DEF Committed, SupposedClosed, Supposed
    <2>3. Intact(e, Supposed, Nothing)
      BY <1>1, <2>2, IntactUncached
    <2> HIDE DEF e
    <2> QED
      BY <1>1, <1>2, <2>1, <2>2, <2>3, DiskStep
  <1> QED
    BY <1>3, <1>4

LEMMA DiskPoint ==
  ASSUME DiskInv, NEW x \in Helper, Point(x)
  PROVE  DiskInv'
  <1>1. DiskTypes /\ SupposedClosed /\ target[x] \in Supposed /\ Supposed \in SUBSET Hash
    BY DEF DiskInv, DiskTypes, Point
  <1>2. /\ db' = [db EXCEPT ![x] = NewDatabase] /\ pc' = [pc EXCEPT ![x] = "idle"]
        /\ target' = [target EXCEPT ![x] = NoHash] /\ Supposed' = Supposed /\ pointer' \in {pointer, target[x]}
    BY DEF Point, Supposed
  <1>3. SupposedClosed'
    BY <1>1, <1>2 DEF SupposedClosed
  <1>4. Intact(NewDatabase, Supposed, Nothing) /\ NoHash \in Link
    BY <1>1, IntactNew DEF Link
  <1> QED
    BY <1>1, <1>2, <1>3, <1>4, DiskStep

LEMMA DiskCollect ==
  ASSUME DiskInv, NEW x \in Helper, NEW h \in Hash, Dereference(x, h)
  PROVE  DiskInv'
  <1>1. /\ DiskTypes /\ SupposedClosed /\ Intact(db[x], Supposed, Nothing) /\ Supposed \in SUBSET Hash
        /\ target[x] \in Link
    BY DiskStart
  <1> DEFINE e == dereference(db[x], h, NoHash)
  <1>2. /\ db' = [db EXCEPT ![x] = e] /\ pc' = [pc EXCEPT ![x] = "write"]
        /\ target' = [target EXCEPT ![x] = target[x]] /\ UNCHANGED <<Supposed, pointer>>
        /\ h \in DOMAIN db[x].nodes[NoHash].children
    BY <1>1 DEF Dereference, DiskTypes, Supposed
  <1>3. Intact(e, Supposed, Nothing)
    BY <1>1, <1>2, IntactDereferenced
  <1>4. SupposedClosed'
    BY <1>1, <1>2 DEF SupposedClosed
  <1> HIDE DEF e
  <1> QED
    BY <1>1, <1>2, <1>3, <1>4, DiskStep

LEMMA DiskCap ==
  ASSUME DiskInv, NEW x \in Helper, NEW n \in 1 .. 2, CapTo(x, n)
  PROVE  DiskInv'
  <1>1. /\ DiskTypes /\ SupposedClosed /\ Intact(db[x], Supposed, Nothing) /\ Supposed \in SUBSET Hash
        /\ target[x] \in Link /\ db[x] \in Database
    BY DiskStart
  <1> DEFINE e == Cap(db[x], n)
             O == Oldest(db[x], n)
             E == Supposed \cup O
  <1>2. /\ db' = [db EXCEPT ![x] = e] /\ pc' = [pc EXCEPT ![x] = "write"]
        /\ target' = [target EXCEPT ![x] = target[x]] /\ pointer' = pointer
    BY <1>1 DEF CapTo, DiskTypes
  <1>8. Supposed' = E
    BY PutAllIs DEF CapTo
  <1>3. n \in Nat
    OBVIOUS
  <1>4. Intact(e, E, Nothing)
    BY <1>1, <1>3, IntactCapped
  <1>5. O \subseteq Cached(db[x]) /\ \A h \in O : Needs(h) \subseteq Supposed \cup O
    BY <1>1, <1>3, OldestNeed
  <1> HIDE DEF e, O
  <1>6. E \in SUBSET Hash /\ Supposed \subseteq E
    BY <1>1, <1>5, CachedIs
  <1>7. SupposedClosed'
    BY <1>1, <1>2, <1>8, <1>5 DEF SupposedClosed
  <1> HIDE DEF E
  <1> QED
    BY <1>1, <1>2, <1>8, <1>4, <1>6, <1>7, DiskStep

LEMMA DiskCrash ==
  ASSUME DiskInv, Crash
  PROVE  DiskInv'
  <1>1. DiskTypes /\ SupposedClosed /\ Supposed \in SUBSET Hash
    BY DEF DiskInv, DiskTypes
  <1>2. /\ db' = [x \in Helper |-> NewDatabase] /\ pc' = [x \in Helper |-> "idle"]
        /\ target' = [x \in Helper |-> NoHash] /\ UNCHANGED <<Supposed, pointer>>
    BY DEF Crash, Supposed
  <1>3. DiskTypes'
    BY <1>1, <1>2, NewDatabaseIs DEF DiskTypes, Link
  <1>4. SupposedClosed'
    BY <1>1, <1>2 DEF SupposedClosed
  <1>5. Intact(NewDatabase, Supposed', Nothing)
    BY <1>1, <1>2, IntactNew
  <1>6. \A y \in Helper : Intact(db'[y], Supposed', Nothing) /\ pc'[y] = "idle"
    BY <1>2, <1>5
  <1> QED
    BY <1>3, <1>4, <1>6 DEF DiskInv

LEMMA DiskInvStep == DiskInv /\ [DiskNext]_dbVars => DiskInv'
  <1> SUFFICES ASSUME DiskInv, [DiskNext]_dbVars PROVE DiskInv'
    OBVIOUS
  <1>1. ASSUME NEW x \in Helper, NEW t \in Root, NewVMStateHelper(x, t) \/ Again(x, t) PROVE DiskInv'
    BY <1>1, DiskOpen
  <1>2. ASSUME NEW x \in Helper, NEW h \in Hash, Store(x, h) \/ BatchWrite(x, h) \/ Dereference(x, h) PROVE DiskInv'
    BY <1>2, DiskStore, DiskBatchWrite, DiskCollect
  <1>3. ASSUME NEW x \in Helper, Stored(x) \/ Committed(x) \/ Point(x) PROVE DiskInv'
    BY <1>3, DiskCommit, DiskPoint
  <1>4. ASSUME NEW x \in Helper, NEW n \in 1 .. 2, CapTo(x, n) PROVE DiskInv'
    BY <1>4, DiskCap
  <1>5. CASE Crash
    BY <1>5, DiskCrash
  <1>6. CASE UNCHANGED dbVars
    BY <1>6 DEF dbVars, DiskInv, DiskTypes, SupposedClosed, Supposed
  <1> QED
    BY <1>1, <1>2, <1>3, <1>4, <1>5, <1>6 DEF DiskNext

\* Nothing that a node in Badger refers to, and no world that the pointer names, is
\* missing, but for nodes whose own Put has failed unnoticed: for any nodes and
\* worlds, any number of helpers that commit at once, give up roots or flush their
\* oldest nodes (Commit, Dereference and Cap of trie/database.go), a crash between
\* any two writes, and any of the writes failing (badger_wrapper.go:215-227).
THEOREM StorageDiskClosed == DiskSpec => []DiskClosed
  <1>1. DiskInv => DiskClosed
    BY DEF DiskInv, SupposedClosed, DiskClosed, Supposed
  <1> QED
    BY <1>1, DiskInitInv, DiskInvStep, PTL DEF DiskSpec

\* What a referenced root needs is in memory or on the disk, but for nodes whose
\* Put has failed, although commit,
\* Dereference and Cap take nodes out of memory that worlds of other roots
\* share; and the flush-list runs through exactly the cached nodes, both ways.
THEOREM StorageReferencedIsKept == DiskSpec => []ReferencedIsKept
  <1>1. DiskInv => RootsAreKept
    <2> SUFFICES ASSUME DiskInv, NEW x \in Helper, NEW c \in DOMAIN db[x].nodes[NoHash].children
                 PROVE  Below(c) \subseteq Available(x) \cup lost
      BY DEF RootsAreKept
    <2> DEFINE A == Available(x) \cup lost
    <2>1. SupposedClosed /\ Intact(db[x], Supposed, Nothing) /\ A = Cached(db[x]) \cup Supposed
      BY DEF DiskInv, Available, Supposed
    <2>2. PICK r, n : IntactBy(db[x], Supposed, Nothing, r, n)
      BY <2>1 DEF Intact
    <2>3. Whole(db[x], Supposed, r)
      BY <2>2 DEF IntactBy
    <2> HIDE DEF A
    <2>4. \A k \in A : Needs(k) \subseteq A
      BY <2>1, <2>3 DEF Whole, SupposedClosed
    <2>5. c \in A
      BY <2>1, <2>3 DEF Whole
    <2>6. Below(c) \subseteq A
      BY <2>4, <2>5, BelowClosed
    <2> QED
      BY <2>6 DEF A
  <1>2. DiskInv => FlushListComplete
    <2> SUFFICES ASSUME DiskInv, NEW x \in Helper
                 PROVE  LET d == db[x] IN
                          /\ Oldest(d, Cardinality(Hash) + 1) = Cached(d)
                          /\ \A h \in Cached(d) : d.nodes[h].flushNext # NoHash => d.nodes[d.nodes[h].flushNext].flushPrev = h
                          /\ Cached(d) # {} => d.newest \in Cached(d) /\ d.nodes[d.newest].flushNext = NoHash
      BY DEF FlushListComplete
    <2>1. Intact(db[x], Supposed, Nothing)
      BY DEF DiskInv
    <2> QED
      BY <2>1, FlushListIs
  <1>3. DiskInv => ReferencedIsKept
    BY <1>1, <1>2 DEF ReferencedIsKept
  <1> QED
    BY <1>3, DiskInitInv, DiskInvStep, PTL DEF DiskSpec
=============================================================================
