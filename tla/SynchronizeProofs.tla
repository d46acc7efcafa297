-------------------------- MODULE SynchronizeProofs --------------------------
(***************************************************************************)
(* The copy of a peer's database is complete and consistent, for any       *)
(* transactions, any order of the keys within a class, any page size and   *)
(* any number of faults.                                                   *)
(*                                                                         *)
(* The argument is about places.  A key that the peer inserts moves other  *)
(* keys to later places, never to earlier ones; so what is found at a      *)
(* place below "Limit" has been read, unless it was inserted behind the    *)
(* reader.  A key of the beginning is never inserted behind the reader     *)
(* (Complete), and neither is the transaction that goes with a secondary   *)
(* key or a balance that was read: it sorts after both (Followed).         *)
(*                                                                         *)
(* A receipt that expires in front of the reader moves no key across the   *)
(* limit.  One that expires behind it moves the keys after it to earlier   *)
(* places, but not the keys that sort before all receipts: for these       *)
(* Complete holds in any case.                                             *)
(***************************************************************************)
EXTENDS Synchronize, FiniteSetTheorems, TLAPS

-----------------------------------------------------------------------------
(* The inductive invariant                                                 *)

\* The database with the page that is about to be stored.
Current == Overwrite(own, response)

\* A secondary key or a balance of the database f speaks of transaction t.
Mentions(f, t) ==
  \/ <<"key", t>> \in DOMAIN f
  \/ \E a \in Account : <<"account", a>> \in DOMAIN f /\ t \in f[<<"account", a>>]

\* What a copy should have.
Sought == {k \in Keys(began) : HasPrefix(k)}

Copying == pc \in {"ask", "store"} /\ whole /\ ~ lost

Phases ==
  /\ began # {} => Genesis \in began
  /\ whole => Whole
  /\ pc = "dial" => began = {} /\ ~ whole /\ ~ shifted
  /\ pc \in {"ask", "store"} => began # {}
  /\ pc # "store" => DOMAIN response = {}

\* What own and response speak of has been executed by the peer, or by this
\* delegate before.
KnownExecuted ==
  \A t \in Tx : Mentions(own, t) \/ Mentions(response, t) =>
    t \in executed \/ <<"tx", t>> \in DOMAIN own

Complete ==
  Copying => \A k \in Sought :
    (BeforeReceipts(k) \/ ~ shifted) /\ Place(Found, k) < Limit =>
      k \in DOMAIN Current /\ Content(began, k) \subseteq Current[k]

Followed ==
  Copying /\ ~ shifted => \A t \in executed :
    Mentions(Current, t) /\ Place(Found, <<"tx", t>>) < Limit => <<"tx", t>> \in DOMAIN Current

AtEnd ==
  pc \in {"genesis", "done"} /\ began # {} /\ whole /\ ~ lost =>
    /\ \A k \in Sought : ReadFirst(k) \/ ~ shifted =>
         k \in DOMAIN own /\ Content(began, k) \subseteq own[k]
    /\ ~ shifted => \A t \in Tx : Mentions(own, t) => <<"tx", t>> \in DOMAIN own

IInv == TypeOK /\ Phases /\ KnownExecuted /\ Complete /\ Followed /\ AtEnd

-----------------------------------------------------------------------------
(* Places among the keys that an iterator finds                            *)

Page(F, i) == {k \in F : Place(F, k) \in i .. i + PageSize - 1}

\* The keys are finitely many, and so are the ones in a database.
LEMMA KeysFinite == IsFiniteSet(Key)
  <1> DEFINE classes == {"pointer", "key", "receipt", "tx", "node"}
  <1>1. IsFiniteSet(classes)
    <2>1. IsFiniteSet({"pointer"})
      BY FS_Singleton
    <2>2. IsFiniteSet({"pointer"} \cup {"key"})
      BY <2>1, FS_AddElement
    <2>3. IsFiniteSet(({"pointer"} \cup {"key"}) \cup {"receipt"})
      BY <2>2, FS_AddElement
    <2>4. IsFiniteSet((({"pointer"} \cup {"key"}) \cup {"receipt"}) \cup {"tx"})
      BY <2>3, FS_AddElement
    <2>5. IsFiniteSet(((({"pointer"} \cup {"key"}) \cup {"receipt"}) \cup {"tx"}) \cup {"node"})
      BY <2>4, FS_AddElement
    <2>6. classes = ((({"pointer"} \cup {"key"}) \cup {"receipt"}) \cup {"tx"}) \cup {"node"}
      OBVIOUS
    <2> HIDE DEF classes
    <2> QED
      BY <2>5, <2>6
  <1>2. IsFiniteSet({"account"})
    BY FS_Singleton
  <1> HIDE DEF classes
  <1>3. IsFiniteSet(classes \X Tx)
    BY <1>1, SyncAssumption, FS_Product
  <1>4. IsFiniteSet({"account"} \X Account)
    BY <1>2, SyncAssumption, FS_Product
  <1>5. IsFiniteSet((classes \X Tx) \cup ({"account"} \X Account))
    BY <1>3, <1>4, FS_Union
  <1>6. Key = (classes \X Tx) \cup ({"account"} \X Account)
    BY DEF Key, classes
  <1> QED
    BY <1>5, <1>6

\* Keys have numbers, and what sorts before all receipts sorts before all
\* transactions.
LEMMA Order ==
  /\ \A k \in Key : KeyOrder[k] \in Nat
  /\ \A k \in Key, t \in Tx : BeforeReceipts(k) =>
       /\ KeyOrder[k] < KeyOrder[<<"receipt", t>>]
       /\ KeyOrder[k] < KeyOrder[<<"tx", t>>]
  <1>1. \A k \in Key : KeyOrder[k] \in Nat
    BY SyncAssumption
  <1>2. ASSUME NEW k \in Key, NEW t \in Tx, BeforeReceipts(k)
        PROVE  KeyOrder[k] < KeyOrder[<<"receipt", t>>] /\ KeyOrder[k] < KeyOrder[<<"tx", t>>]
    <2>1. <<"receipt", t>> \in Key /\ <<"tx", t>> \in Key
      BY DEF Key
    <2>2. KeyOrder[k] < KeyOrder[<<"receipt", t>>] /\ KeyOrder[<<"receipt", t>>] < KeyOrder[<<"tx", t>>]
      BY <1>2, SyncAssumption
    <2>3. KeyOrder[k] \in Nat /\ KeyOrder[<<"receipt", t>>] \in Nat /\ KeyOrder[<<"tx", t>>] \in Nat
      BY <1>1, <2>1
    <2> QED
      BY <2>2, <2>3
  <1> QED
    BY <1>1, <1>2

LEMMA KeySubsetFinite ==
  ASSUME NEW F \in SUBSET Key
  PROVE  IsFiniteSet(F)
  BY KeysFinite, FS_Subset

LEMMA PassedMember ==
  ASSUME NEW F \in SUBSET Key, NEW j, NEW k \in Key
  PROVE  j \in Passed(F, k) <=> j \in F /\ KeyOrder[j] < KeyOrder[k]
  BY DEF Passed, Before

LEMMA PlaceType ==
  ASSUME NEW F \in SUBSET Key, NEW k
  PROVE  IsFiniteSet(Passed(F, k)) /\ Place(F, k) \in Nat
  <1>1. Passed(F, k) \in SUBSET Key
    BY DEF Passed
  <1>2. IsFiniteSet(Passed(F, k))
    BY <1>1, KeySubsetFinite
  <1> QED
    BY <1>2, FS_CardinalityType DEF Place

LEMMA PlaceOfPassed ==
  ASSUME NEW F \in SUBSET Key, NEW G \in SUBSET Key, NEW j, NEW k, Passed(F, j) \subseteq Passed(G, k)
  PROVE  Place(F, j) <= Place(G, k)
  <1>1. Passed(F, j) \in SUBSET Passed(G, k)
    OBVIOUS
  <1> QED
    BY <1>1, PlaceType, FS_Subset DEF Place

\* When keys are inserted, a key moves to later places only.
LEMMA PlaceGrows ==
  ASSUME NEW F \in SUBSET Key, NEW G \in SUBSET Key, F \subseteq G, NEW k
  PROVE  Place(F, k) <= Place(G, k)
  <1>1. Passed(F, k) \subseteq Passed(G, k)
    BY DEF Passed
  <1> QED
    BY <1>1, PlaceOfPassed

\* When a key is deleted, the places of the keys before it stay, and no key
\* after it comes before its place.
LEMMA PlaceDeleted ==
  ASSUME NEW F \in SUBSET Key, NEW G \in SUBSET Key, NEW r \in Key, NEW k \in Key,
         G \subseteq F, F \ {r} \subseteq G
  PROVE  Place(G, k) = Place(F, k) \/ (KeyOrder[r] < KeyOrder[k] /\ Place(F, r) <= Place(G, k))
  <1>1. \A j \in Key : KeyOrder[j] \in Nat
    BY Order
  <1>2. CASE KeyOrder[r] < KeyOrder[k]
    <2> SUFFICES ASSUME NEW j \in Passed(F, r)
                 PROVE  j \in Passed(G, k)
      BY <1>2, PlaceOfPassed
    <2>1. j \in F /\ KeyOrder[j] < KeyOrder[r]
      BY PassedMember
    <2>2. j # r /\ KeyOrder[j] < KeyOrder[k]
      BY <1>1, <1>2, <2>1
    <2> QED
      BY <2>1, <2>2, PassedMember
  <1>3. CASE ~ (KeyOrder[r] < KeyOrder[k])
    <2>1. \A j : j \in Passed(F, k) <=> j \in Passed(G, k)
      BY <1>3, PassedMember
    <2>2. Passed(F, k) = Passed(G, k)
      BY <2>1
    <2> QED
      BY <2>2 DEF Place
  <1> QED
    BY <1>2, <1>3

\* The places follow the order of the keys.
LEMMA PlaceOrder ==
  ASSUME NEW F \in SUBSET Key, NEW j \in F, NEW k \in Key, KeyOrder[j] < KeyOrder[k]
  PROVE  Place(F, j) < Place(F, k)
  <1>0. \A x \in Key : KeyOrder[x] \in Nat
    BY Order
  <1>1. Passed(F, j) \in SUBSET Passed(F, k)
    <2> SUFFICES ASSUME NEW x \in Passed(F, j)
                 PROVE  x \in Passed(F, k)
      OBVIOUS
    <2>1. x \in F /\ KeyOrder[x] < KeyOrder[j]
      BY PassedMember
    <2>2. KeyOrder[x] < KeyOrder[k]
      BY <1>0, <2>1
    <2> QED
      BY <2>1, <2>2, PassedMember
  <1>2. j \in Passed(F, k) /\ j \notin Passed(F, j)
    BY <1>0, PassedMember
  <1>3. Passed(F, j) # Passed(F, k)
    BY <1>2
  <1>4. IsFiniteSet(Passed(F, k)) /\ Place(F, k) \in Nat /\ Place(F, j) \in Nat
    BY PlaceType
  <1>5. Cardinality(Passed(F, j)) <= Cardinality(Passed(F, k))
    BY <1>1, <1>4, FS_Subset
  <1>6. Cardinality(Passed(F, j)) # Cardinality(Passed(F, k))
    BY <1>1, <1>3, <1>4, FS_Subset
  <1> QED
    BY <1>4, <1>5, <1>6 DEF Place

LEMMA PlaceInjective ==
  ASSUME NEW F \in SUBSET Key, NEW j \in F, NEW k \in F, Place(F, j) = Place(F, k)
  PROVE  j = k
  <1>1. j \in Key /\ k \in Key
    OBVIOUS
  <1>2. Place(F, j) \in Nat /\ KeyOrder[j] \in Nat /\ KeyOrder[k] \in Nat
    BY <1>1, PlaceType, Order
  <1>3. ~ (KeyOrder[j] < KeyOrder[k])
    BY <1>1, <1>2, PlaceOrder
  <1>4. ~ (KeyOrder[k] < KeyOrder[j])
    BY <1>1, <1>2, PlaceOrder
  <1>5. KeyOrder[j] = KeyOrder[k]
    BY <1>2, <1>3, <1>4
  <1> QED
    BY <1>1, <1>5, SyncAssumption

\* A page has at most PageSize keys.
LEMMA PageBounded ==
  ASSUME NEW F \in SUBSET Key, NEW i \in Nat
  PROVE  /\ IsFiniteSet(Page(F, i))
         /\ Cardinality(Page(F, i)) \in Nat
         /\ Cardinality(Page(F, i)) <= PageSize
  <1> DEFINE place == [k \in Page(F, i) |-> Place(F, k)]
             slots == i .. (i + PageSize - 1)
  <1>1. PageSize \in Nat /\ PageSize > 0
    BY SyncAssumption
  <1>2. \A k \in Page(F, i) : k \in F /\ k \in Key /\ Place(F, k) \in Nat
    BY PlaceType DEF Page
  <1>3. place \in [Page(F, i) -> slots]
    BY <1>1, <1>2 DEF Page
  <1>4. \A j, k \in Page(F, i) : place[j] = place[k] => j = k
    BY <1>2, PlaceInjective
  <1>5. place \in Injection(Page(F, i), slots)
    BY <1>3, <1>4 DEF Injection, IsInjective
  <1>6. IsFiniteSet(slots) /\ Cardinality(slots) = PageSize
    <2>1. i \in Int /\ i + PageSize - 1 \in Int /\ i <= i + PageSize - 1
      BY <1>1
    <2> HIDE DEF place
    <2> QED
      BY <1>1, <2>1, FS_Interval
  <1> HIDE DEF place, slots
  <1>7. IsFiniteSet(Page(F, i)) /\ Cardinality(Page(F, i)) <= Cardinality(slots)
    BY <1>5, <1>6, FS_Injection
  <1> QED
    BY <1>6, <1>7, FS_CardinalityType

\* No gap: when nothing is found at place i, nothing is found further on.
LEMMA EmptyPage ==
  ASSUME NEW F \in SUBSET Key, NEW i \in Nat, Page(F, i) = {}, NEW k \in F
  PROVE  Place(F, k) < i
  <1> DEFINE n == Cardinality(F)
             place == [j \in F |-> Place(F, j)]
             slots == 0 .. (n - 1)
             others == slots \ {i}
  <1>1. n \in Nat /\ IsFiniteSet(F)
    BY KeySubsetFinite, FS_CardinalityType
  <1>2. ASSUME NEW j \in F
        PROVE  Place(F, j) \in Nat /\ Place(F, j) < n
    <2>1. Passed(F, j) \in SUBSET F
      BY DEF Passed
    <2>2. KeyOrder[j] \in Nat
      BY Order
    <2>3. j \notin Passed(F, j)
      BY <2>2, PassedMember
    <2>4. Passed(F, j) # F
      BY <2>3
    <2>5. Cardinality(Passed(F, j)) <= n /\ Cardinality(Passed(F, j)) # n
      BY <1>1, <2>1, <2>4, FS_Subset
    <2>6. Place(F, j) \in Nat
      BY PlaceType
    <2> QED
      BY <1>1, <2>5, <2>6 DEF Place
  <1>3. SUFFICES ASSUME ~ (Place(F, k) < i)
                 PROVE  FALSE
    OBVIOUS
  <1>4. i \in slots
    BY <1>1, <1>2, <1>3
  <1>5. PageSize \in Nat \ {0}
    BY SyncAssumption
  <1>6. \A j \in F : Place(F, j) # i
    BY <1>5 DEF Page
  <1>7. place \in [F -> others]
    BY <1>1, <1>2, <1>6
  <1>8. \A j, l \in F : place[j] = place[l] => j = l
    BY PlaceInjective
  <1>9. place \in Injection(F, others)
    BY <1>7, <1>8 DEF Injection, IsInjective
  <1>10. IsFiniteSet(slots) /\ Cardinality(slots) = n
    <2>1. n > 0
      BY <1>1, <1>2
    <2> HIDE DEF n
    <2> QED
      BY <1>1, <2>1, FS_Interval
  <1> HIDE DEF n, place, slots
  <1>11. IsFiniteSet(others) /\ Cardinality(others) = n - 1
    BY <1>4, <1>10, FS_RemoveElement
  <1> HIDE DEF others
  <1>12. Cardinality(F) <= Cardinality(others)
    BY <1>9, <1>11, FS_Injection
  <1> QED
    BY <1>1, <1>11, <1>12 DEF n

-----------------------------------------------------------------------------
(* Databases                                                               *)

LEMMA ContentType ==
  ASSUME NEW S \in SUBSET Tx, NEW k
  PROVE  Content(S, k) \subseteq Tx
  BY DEF Content

\* A database only grows.
LEMMA DatabaseGrows ==
  ASSUME NEW S \in SUBSET Tx, NEW T \in SUBSET Tx, S \subseteq T
  PROVE  Keys(S) \subseteq Keys(T) /\ \A k : Content(S, k) \subseteq Content(T, k)
  <1>1. Keys(S) \subseteq Keys(T)
    BY DEF Keys
  <1>2. \A k : Content(S, k) \subseteq Content(T, k)
    BY DEF Content
  <1> QED
    BY <1>1, <1>2

LEMMA NothingIsEmpty == DOMAIN Nothing = {}
  BY DEF Nothing, Database, Keys, Key

LEMMA DatabaseType ==
  ASSUME NEW S \in SUBSET Tx
  PROVE  IsDatabase(Database(S))
  BY ContentType DEF IsDatabase, Database, Keys

LEMMA OverwriteType ==
  ASSUME NEW f, NEW g, IsDatabase(f), IsDatabase(g)
  PROVE  IsDatabase(Overwrite(f, g))
  BY DEF IsDatabase, Overwrite

\* What Overwrite makes of a database speaks only of what was spoken of before.
LEMMA OverwriteMentions ==
  ASSUME NEW f, NEW g, NEW t, Mentions(Overwrite(f, g), t)
  PROVE  Mentions(f, t) \/ Mentions(g, t)
  BY DEF Overwrite, Mentions

LEMMA OverwriteNothing ==
  ASSUME NEW f, NEW g, DOMAIN g = {}
  PROVE  /\ DOMAIN Overwrite(f, g) = DOMAIN f
         /\ \A k \in DOMAIN f : Overwrite(f, g)[k] = f[k]
         /\ \A t : Mentions(Overwrite(f, g), t) <=> Mentions(f, t)
  BY DEF Overwrite, Mentions

\* A database made by execution has the transactions it speaks of.
LEMMA DatabaseMentions ==
  ASSUME NEW S \in SUBSET Tx, NEW t \in Tx, Mentions(Database(S), t)
  PROVE  t \in S /\ <<"tx", t>> \in DOMAIN Database(S)
  <1>1. t \in S
    <2>1. CASE <<"key", t>> \in DOMAIN Database(S)
      BY <2>1 DEF Database, Keys
    <2>2. CASE \E a \in Account : <<"account", a>> \in DOMAIN Database(S)
                                  /\ t \in Database(S)[<<"account", a>>]
      BY <2>2 DEF Database, Content
    <2> QED
      BY <2>1, <2>2 DEF Mentions
  <1>2. <<"tx", t>> \in Key
    BY DEF Key
  <1> QED
    BY <1>1, <1>2 DEF Database, Keys

\* The keys of a transaction in a database.
LEMMA TxIsKept ==
  ASSUME NEW S \in SUBSET Tx, NEW t \in S
  PROVE  /\ <<"tx", t>> \in Keys(S) /\ <<"tx", t>> \in Key
         /\ HasPrefix(<<"tx", t>>)
  BY DEF Keys, Key, HasPrefix

LEMMA FoundType ==
  ASSUME TypeOK
  PROVE  Found \in SUBSET Key /\ (Whole => \A k \in Keys(executed) : HasPrefix(k) => k \in Found)
  <1>1. rejected \subseteq Tx
    BY DEF TypeOK
  <1>2. {"receipt"} \X rejected \subseteq Key
    BY <1>1 DEF Key
  <1>3. Keys(executed) \subseteq Key
    BY DEF Keys
  <1> HIDE DEF Key
  <1> QED
    BY <1>2, <1>3 DEF Found, PeerKeys, Whole

\* The page of an answer, and the transactions that it speaks of: they have
\* been executed, and their records sort after some key of the page.
LEMMA AnswerIsPage ==
  ASSUME NEW i \in Nat
  PROVE  /\ DOMAIN SynchronizeGrpc(i) = Page(Found, i)
         /\ \A k \in Page(Found, i) : SynchronizeGrpc(i)[k] = Content(executed, k)
  BY DEF SynchronizeGrpc, Page

LEMMA AnswerMentions ==
  ASSUME TypeOK, NEW i \in Nat, NEW t \in Tx, Mentions(SynchronizeGrpc(i), t)
  PROVE  /\ t \in executed
         /\ \E k \in Page(Found, i) : KeyOrder[k] < KeyOrder[<<"tx", t>>]
  <1>1. CASE <<"key", t>> \in DOMAIN SynchronizeGrpc(i)
    <2>1. <<"key", t>> \in Page(Found, i)
      BY <1>1, AnswerIsPage
    <2>2. <<"key", t>> \in Found /\ <<"key", t>> \in Key /\ BeforeReceipts(<<"key", t>>)
      BY <2>1, FoundType DEF Page, BeforeReceipts
    <2>3. <<"key", t>> \in Keys(executed)
      BY <2>2 DEF Found, PeerKeys
    <2>4. t \in executed
      BY <2>3 DEF Keys
    <2> QED
      BY <2>1, <2>2, <2>4, Order
  <1>2. CASE \E a \in Account : <<"account", a>> \in DOMAIN SynchronizeGrpc(i)
                                /\ t \in SynchronizeGrpc(i)[<<"account", a>>]
    <2>1. PICK a \in Account : /\ <<"account", a>> \in DOMAIN SynchronizeGrpc(i)
                               /\ t \in SynchronizeGrpc(i)[<<"account", a>>]
      BY <1>2
    <2>2. <<"account", a>> \in Page(Found, i) /\ t \in Content(executed, <<"account", a>>)
      BY <2>1, AnswerIsPage
    <2>3. t \in executed
      BY <2>2 DEF Content
    <2>4. <<"account", a>> \in Key /\ BeforeReceipts(<<"account", a>>)
      BY <2>2, FoundType DEF Page, BeforeReceipts
    <2> QED
      BY <2>2, <2>3, <2>4, Order
  <1> QED
    BY <1>1, <1>2 DEF Mentions

-----------------------------------------------------------------------------
(* Type correctness                                                        *)

LEMMA TypeInit == Init => TypeOK
  <1> SUFFICES ASSUME Init PROVE TypeOK
    OBVIOUS
  <1>1. IsDatabase(own)
    BY DatabaseType, SyncAssumption DEF Init
  <1>2. DOMAIN response = {}
    BY NothingIsEmpty DEF Init
  <1>3. IsDatabase(response) /\ IsFiniteSet(DOMAIN response) /\ Cardinality(DOMAIN response) <= PageSize
    BY <1>2, FS_EmptySet, SyncAssumption DEF IsDatabase
  <1>4. lost \in BOOLEAN /\ whole \in BOOLEAN /\ shifted \in BOOLEAN
    BY Zenon DEF Init
  <1>5. /\ executed \subseteq Tx /\ began \subseteq executed /\ Genesis \in executed
        /\ rejected \subseteq Tx
        /\ pc \in PC /\ candidates \subseteq Peer /\ index \in Nat
    BY DEF Init, PC
  <1>6. copied \subseteq Key
    BY DEF Init, FirstKeys
  <1>7. faults \in 0 .. MaxFaults
    BY SyncAssumption DEF Init
  <1> QED
    BY <1>1, <1>3, <1>4, <1>5, <1>6, <1>7, Zenon DEF TypeOK

\* The part of TypeOK that speaks of the peer and of the history.
TypePeer ==
  /\ executed \subseteq Tx /\ began \subseteq executed /\ Genesis \in executed
  /\ rejected \subseteq Tx /\ copied \subseteq Key
  /\ whole \in BOOLEAN /\ shifted \in BOOLEAN

\* The part that speaks of the delegate.
TypeOwn ==
  /\ pc \in PC /\ candidates \subseteq Peer /\ index \in Nat
  /\ IsDatabase(own)
  /\ IsDatabase(response) /\ IsFiniteSet(DOMAIN response) /\ Cardinality(DOMAIN response) <= PageSize
  /\ lost \in BOOLEAN /\ faults \in 0 .. MaxFaults

LEMMA TypeParts == TypeOK <=> TypePeer /\ TypeOwn
  BY Zenon DEF TypeOK, TypePeer, TypeOwn

LEMMA TypeStep == TypeOK /\ [Next]_vars => TypeOK'
  <1> SUFFICES ASSUME TypePeer, TypeOwn, [Next]_vars PROVE TypePeer' /\ TypeOwn'
    BY Zenon DEF TypeOK, TypePeer, TypeOwn
  <1> USE SyncAssumption
  <1>0. /\ IsDatabase(Nothing) /\ IsFiniteSet(DOMAIN Nothing)
        /\ Cardinality(DOMAIN Nothing) <= PageSize
    BY NothingIsEmpty, FS_EmptySet DEF IsDatabase
  <1>a. ASSUME UNCHANGED <<peer, history>> PROVE TypePeer'
    BY <1>a DEF peer, history, TypePeer
  <1>b. ASSUME UNCHANGED <<pc, candidates, index, response, own, lost, faults>> PROVE TypeOwn'
    BY <1>b DEF TypeOwn
  <1>1. CASE NoDelegate
    <2>1. TypeOwn'
      BY <1>1 DEF NoDelegate, TypeOwn, PC
    <2> QED
      BY <1>1, <1>a, <2>1 DEF NoDelegate
  <1>2. ASSUME NEW q \in Peer, Dial(q) PROVE TypePeer' /\ TypeOwn'
    <2>1. TypeOwn'
      BY <1>2 DEF Dial, TypeOwn, PC
    <2>2. CASE UNCHANGED history
      BY <1>2, <1>a, <2>1, <2>2 DEF Dial
    <2>3. CASE began' = executed /\ whole' = Whole /\ shifted' = FALSE
      <3>1. whole' \in BOOLEAN /\ shifted' \in BOOLEAN
        BY <2>3, Zenon DEF Whole
      <3>2. UNCHANGED <<executed, rejected, copied>>
        BY <1>2 DEF Dial, peer
      <3> QED
        BY <2>1, <2>3, <3>1, <3>2 DEF TypePeer
    <2> QED
      BY <1>2, <2>2, <2>3 DEF Dial
  <1>3. CASE Ask
    <2>1. /\ IsDatabase(response') /\ IsFiniteSet(DOMAIN response')
          /\ Cardinality(DOMAIN response') <= PageSize
      <3>1. response' = SynchronizeGrpc(index) /\ index \in Nat /\ executed \in SUBSET Tx
        BY <1>3 DEF Ask, TypeOwn, TypePeer
      <3>2. Found \in SUBSET Key
        BY TypeParts, FoundType
      <3>3. DOMAIN response' = Page(Found, index) /\ Page(Found, index) \subseteq Key
        BY <3>1, <3>2, AnswerIsPage DEF Page
      <3>4. \A k \in Page(Found, index) : response'[k] \subseteq Tx
        BY <3>1, AnswerIsPage, ContentType
      <3> QED
        BY <3>1, <3>2, <3>3, <3>4, PageBounded DEF IsDatabase
    <2>2. pc' \in PC
      BY <1>3 DEF Ask, PC
    <2>3. TypeOwn'
      BY <1>3, <2>1, <2>2 DEF Ask, TypeOwn
    <2> QED
      BY <1>3, <1>a, <2>3 DEF Ask
  <1>4. CASE Store
    <2>1. index' \in Nat
      BY <1>4, FS_CardinalityType DEF Store, Advance, TypeOwn
    <2>2. CASE own' = Overwrite(own, response) /\ UNCHANGED <<lost, faults>>
      <3>1. IsDatabase(own')
        BY <2>2, OverwriteType DEF TypeOwn
      <3>2. TypeOwn'
        BY <1>0, <1>4, <2>1, <2>2, <3>1 DEF Store, TypeOwn, PC
      <3> QED
        BY <1>4, <1>a, <3>2 DEF Store
    <2>3. CASE /\ faults < MaxFaults /\ faults' = faults + 1 /\ lost' = TRUE
               /\ \E set \in SUBSET DOMAIN response :
                    own' = Overwrite(own, [k \in set |-> response[k]])
      <3>1. PICK set \in SUBSET DOMAIN response : own' = Overwrite(own, [k \in set |-> response[k]])
        BY <2>3
      <3>2. IsDatabase([k \in set |-> response[k]])
        BY DEF TypeOwn, IsDatabase
      <3>3. IsDatabase(own')
        BY <3>1, <3>2, OverwriteType DEF TypeOwn
      <3>4. faults' \in 0 .. MaxFaults
        BY <2>3 DEF TypeOwn
      <3>5. TypeOwn'
        BY <1>0, <1>4, <2>1, <2>3, <3>3, <3>4 DEF Store, TypeOwn, PC
      <3> QED
        BY <1>4, <1>a, <3>5 DEF Store
    <2> QED
      BY <1>4, <2>2, <2>3 DEF Store
  <1>5. CASE CreateGenesis
    <2>1. IsDatabase(Database({Genesis}))
      BY DatabaseType
    <2>2. IsDatabase(own')
      BY <1>5, <2>1, OverwriteType DEF CreateGenesis, TypeOwn
    <2>3. TypeOwn'
      BY <1>5, <2>2 DEF CreateGenesis, TypeOwn, PC
    <2> QED
      BY <1>5, <1>a, <2>3 DEF CreateGenesis
  <1>6. CASE AskFails
    <2>1. TypeOwn'
      BY <1>6 DEF AskFails, TypeOwn
    <2> QED
      BY <1>6, <1>a, <2>1 DEF AskFails
  <1>7. CASE Restart
    <2>1. lost' \in BOOLEAN /\ whole' \in BOOLEAN /\ shifted' \in BOOLEAN
      BY <1>7, Zenon DEF Restart
    <2>2. faults' \in 0 .. MaxFaults
      BY <1>7 DEF Restart, TypeOwn
    <2>3. pc' \in PC /\ candidates' \subseteq Peer /\ index' \in Nat
      BY <1>7 DEF Restart, TypeOwn, PC
    <2>4. IsDatabase(own') /\ response' = Nothing
      BY <1>7 DEF Restart, TypeOwn
    <2>5. UNCHANGED <<executed, rejected, copied>> /\ began' = {}
      BY <1>7 DEF Restart, peer
    <2>6. TypePeer'
      BY <2>1, <2>5 DEF TypePeer
    <2>7. TypeOwn'
      BY <1>0, <2>1, <2>2, <2>3, <2>4, Zenon DEF TypeOwn
    <2> QED
      BY <2>6, <2>7
  <1>8. CASE PeerCopies
    <2>1. copied' \subseteq Key /\ UNCHANGED <<executed, rejected, history>>
      BY <1>8 DEF PeerCopies, FirstKeys
    <2>2. TypePeer'
      BY <2>1 DEF TypePeer, history
    <2> QED
      BY <1>8, <1>b, <2>2 DEF PeerCopies
  <1>9. ASSUME NEW t \in Tx, PeerExecutes(t) PROVE TypePeer' /\ TypeOwn'
    <2>1. TypePeer'
      BY <1>9 DEF PeerExecutes, TypePeer, history
    <2> QED
      BY <1>9, <1>b, <2>1 DEF PeerExecutes
  <1>10. ASSUME NEW t \in Tx, PeerRejects(t) PROVE TypePeer' /\ TypeOwn'
    <2>1. TypePeer'
      BY <1>10 DEF PeerRejects, TypePeer, history
    <2> QED
      BY <1>10, <1>b, <2>1 DEF PeerRejects
  <1>11. ASSUME NEW t \in Tx, ReceiptExpires(t) PROVE TypePeer' /\ TypeOwn'
    <2>1. shifted' \in BOOLEAN
      BY <1>11, Zenon DEF ReceiptExpires
    <2>2. rejected' \subseteq rejected /\ UNCHANGED <<executed, copied, began, whole>>
      BY <1>11 DEF ReceiptExpires
    <2>3. TypePeer'
      BY <2>1, <2>2 DEF TypePeer
    <2> QED
      BY <1>11, <1>b, <2>3 DEF ReceiptExpires
  <1>12. CASE UNCHANGED vars
    BY <1>12, <1>a, <1>b DEF vars
  <1> QED
    BY <1>1, <1>2, <1>3, <1>4, <1>5, <1>6, <1>7, <1>8, <1>9, <1>10, <1>11, <1>12 DEF Next, peerSynchronize

-----------------------------------------------------------------------------
(* The invariant is inductive                                              *)

LEMMA InvInit == Init => IInv
  <1> SUFFICES ASSUME Init PROVE IInv
    OBVIOUS
  <1>1. TypeOK
    BY TypeInit
  <1>2. DOMAIN response = {}
    BY NothingIsEmpty DEF Init
  <1>3. Phases /\ Complete /\ Followed /\ AtEnd
    BY <1>2 DEF Init, Phases, Complete, Followed, AtEnd, Copying
  <1>4. KnownExecuted
    <2>1. PICK S \in SUBSET Tx : own = Database(S)
      BY SyncAssumption DEF Init
    <2>2. \A t \in Tx : Mentions(own, t) => <<"tx", t>> \in DOMAIN own
      BY <2>1, DatabaseMentions
    <2>3. \A t \in Tx : ~ Mentions(response, t)
      BY <1>2 DEF Mentions
    <2> QED
      BY <2>2, <2>3 DEF KnownExecuted
  <1> QED
    BY <1>1, <1>3, <1>4 DEF IInv

LEMMA FoundTypeNext ==
  ASSUME TypeOK'
  PROVE  Found' \in SUBSET Key
  <1>1. rejected' \subseteq Tx
    BY DEF TypeOK
  <1>2. {"receipt"} \X rejected' \subseteq Key
    BY <1>1 DEF Key
  <1>3. Keys(executed') \subseteq Key
    BY DEF Keys
  <1>4. Found' \subseteq Keys(executed') \cup ({"receipt"} \X rejected')
    BY DEF Found, PeerKeys
  <1> QED
    BY <1>2, <1>3, <1>4

\* A step that leaves the delegate alone.
LEMMA SameCopy ==
  ASSUME UNCHANGED <<index, response, own>>
  PROVE  /\ Current' = Current /\ Limit' = Limit
         /\ \A t : Mentions(own', t) = Mentions(own, t) /\ Mentions(response', t) = Mentions(response, t)
         /\ \A t : Mentions(Current', t) = Mentions(Current, t)
  BY DEF Current, Limit, Mentions, Overwrite

LEMMA LimitType ==
  ASSUME TypeOK
  PROVE  Limit \in Nat
  BY FS_CardinalityType DEF Limit, TypeOK

\* The peer's database grows: keys move to later places, and a transaction that
\* is new to the peer and spoken of here is already here.
LEMMA InvPeerGrows ==
  ASSUME IInv, TypeOK', executed \subseteq executed', Found \subseteq Found', whole => Whole',
         UNCHANGED <<began, whole, shifted, pc, index, response, own, lost>>
  PROVE  (Phases /\ KnownExecuted /\ Complete /\ Followed /\ AtEnd)'
  <1>1. UNCHANGED <<index, response, own>>
    OBVIOUS
  <1>2. TypeOK /\ executed' \in SUBSET Tx /\ Sought' = Sought /\ Sought \subseteq Key
    BY DEF IInv, TypeOK, Sought, Keys
  <1>3. Found \in SUBSET Key /\ Found' \in SUBSET Key
    BY <1>2, FoundType, FoundTypeNext
  <1>4. /\ Current' = Current /\ Limit' = Limit
        /\ \A t : Mentions(own', t) = Mentions(own, t) /\ Mentions(response', t) = Mentions(response, t)
        /\ \A t : Mentions(Current', t) = Mentions(Current, t)
    BY <1>1, SameCopy
  <1>5. Limit \in Nat
    BY <1>2, LimitType
  <1>6. ASSUME NEW k, Place(Found', k) < Limit
        PROVE  Place(Found, k) < Limit
    <2>1. Place(Found, k) \in Nat /\ Place(Found', k) \in Nat
      BY <1>3, PlaceType
    <2>2. Place(Found, k) <= Place(Found', k)
      BY <1>3, PlaceGrows
    <2> QED
      BY <1>5, <1>6, <2>1, <2>2
  <1>7. Phases'
    BY DEF IInv, Phases
  <1>8. KnownExecuted'
    BY <1>4 DEF IInv, KnownExecuted
  <1>9. Complete'
    <2> SUFFICES ASSUME Copying, NEW k \in Sought, BeforeReceipts(k) \/ ~ shifted,
                        Place(Found', k) < Limit
                 PROVE  k \in DOMAIN Current /\ Content(began, k) \subseteq Current[k]
      BY <1>2, <1>4 DEF Complete, Copying
    <2>1. Place(Found, k) < Limit
      BY <1>6
    <2> QED
      BY <2>1 DEF IInv, Complete
  <1>10. Followed'
    <2> SUFFICES ASSUME Copying, ~ shifted, NEW t \in executed', Mentions(Current, t),
                        Place(Found', <<"tx", t>>) < Limit
                 PROVE  <<"tx", t>> \in DOMAIN Current
      BY <1>4 DEF Followed, Copying
    <2>1. CASE t \in executed
      <3>1. Place(Found, <<"tx", t>>) < Limit
        BY <1>6
      <3> QED
        BY <2>1, <3>1 DEF IInv, Followed
    <2>2. CASE t \notin executed
      <3>1. Mentions(own, t) \/ Mentions(response, t)
        BY OverwriteMentions DEF Current
      <3>2. <<"tx", t>> \in DOMAIN own
        BY <1>2, <2>2, <3>1 DEF IInv, KnownExecuted
      <3> QED
        BY <3>2 DEF Current, Overwrite
    <2> QED
      BY <2>1, <2>2
  <1>11. AtEnd'
    BY <1>2, <1>4 DEF IInv, AtEnd
  <1> QED
    BY <1>7, <1>8, <1>9, <1>10, <1>11

LEMMA InvPeerExecutes ==
  ASSUME IInv, TypeOK', NEW u \in Tx, PeerExecutes(u)
  PROVE  (Phases /\ KnownExecuted /\ Complete /\ Followed /\ AtEnd)'
  <1>1. /\ copied = Key /\ copied' = copied /\ u \notin executed
        /\ executed' = executed \cup {u} /\ rejected' = rejected \ {u}
        /\ UNCHANGED <<began, whole, shifted, pc, index, response, own, lost>>
    BY DEF PeerExecutes, Whole, history
  <1>2. executed \in SUBSET Tx /\ executed' \in SUBSET Tx /\ Genesis \in executed
    BY <1>1 DEF IInv, TypeOK
  <1>3. Keys(executed) \subseteq Keys(executed') /\ Keys(executed') \subseteq Key
    BY <1>1, <1>2, DatabaseGrows DEF Keys
  <1>4. <<"receipt", u>> \in Keys(executed')
    <2>1. u \in executed' \ {Genesis} /\ <<"receipt", u>> \in Key
      BY <1>1, <1>2 DEF Key
    <2> QED
      BY <2>1 DEF Keys
  <1> HIDE DEF Key
  <1>5. PeerKeys \subseteq PeerKeys'
    BY <1>1, <1>3, <1>4 DEF PeerKeys
  <1>6. Found \subseteq Found' /\ Whole'
    BY <1>1, <1>5 DEF Found, Whole
  <1> QED
    BY <1>1, <1>6, InvPeerGrows

\* A rejection inserts a receipt.
LEMMA InvPeerRejects ==
  ASSUME IInv, TypeOK', NEW u \in Tx, PeerRejects(u)
  PROVE  (Phases /\ KnownExecuted /\ Complete /\ Followed /\ AtEnd)'
  <1>1. /\ copied = Key /\ copied' = copied /\ executed' = executed
        /\ rejected' = rejected \cup {u}
        /\ UNCHANGED <<began, whole, shifted, pc, index, response, own, lost>>
    BY DEF PeerRejects, Whole, history
  <1>2. PeerKeys \subseteq PeerKeys'
    BY <1>1 DEF PeerKeys
  <1>3. Found \subseteq Found' /\ Whole'
    BY <1>1, <1>2 DEF Found, Whole
  <1> QED
    BY <1>1, <1>3, InvPeerGrows

\* A peer that goes on with its own copy was in its middle at the beginning.
LEMMA InvPeerCopies ==
  ASSUME IInv, TypeOK', PeerCopies
  PROVE  (Phases /\ KnownExecuted /\ Complete /\ Followed /\ AtEnd)'
  <1>1. /\ ~ Whole /\ copied \subseteq copied' /\ UNCHANGED <<executed, rejected>>
        /\ UNCHANGED <<began, whole, shifted, pc, index, response, own, lost>>
    BY DEF PeerCopies, history
  <1>2. ~ whole
    BY <1>1 DEF IInv, Phases
  <1>3. PeerKeys \subseteq PeerKeys'
    BY <1>1 DEF PeerKeys
  <1>4. Found \subseteq Found'
    BY <1>3 DEF Found
  <1> QED
    BY <1>1, <1>2, <1>4, InvPeerGrows

\* A receipt vanishes: behind the limit keys come to earlier places, but not
\* the ones that sort before receipts; in front of it no key crosses the limit.
LEMMA InvReceiptExpires ==
  ASSUME IInv, TypeOK', NEW u \in Tx, ReceiptExpires(u)
  PROVE  (Phases /\ KnownExecuted /\ Complete /\ Followed /\ AtEnd)'
  <1> DEFINE r == <<"receipt", u>>
             behind == pc \in {"ask", "store"} /\ Place(Found, r) < Limit
  <1>1. /\ rejected' = rejected \ {u} /\ shifted' = (shifted \/ behind) /\ Asks
        /\ UNCHANGED <<executed, copied, began, whole, pc, index, response, own, lost>>
    BY DEF ReceiptExpires
  <1>2. TypeOK /\ Sought' = Sought /\ Sought \subseteq Key /\ r \in Key
    BY <1>1 DEF IInv, Sought, Keys, Key
  <1>3. Found \in SUBSET Key /\ Found' \in SUBSET Key
    BY <1>2, FoundType, FoundTypeNext
  <1>4. /\ Current' = Current /\ Limit' = Limit
        /\ \A t : Mentions(own', t) = Mentions(own, t) /\ Mentions(response', t) = Mentions(response, t)
        /\ \A t : Mentions(Current', t) = Mentions(Current, t)
    BY <1>1, SameCopy
  <1>5. Limit \in Nat /\ \A k \in Key : KeyOrder[k] \in Nat
    BY <1>2, LimitType, Order
  <1>6. Found' \subseteq Found /\ Found \ {r} \subseteq Found'
    BY <1>1 DEF Found, PeerKeys
  <1>7. pc \notin {"genesis", "done"}
    BY <1>1 DEF Asks
  <1> HIDE DEF behind, r
  <1>8. ASSUME NEW k \in Key, Place(Found', k) < Limit, Copying,
               ~ behind \/ KeyOrder[k] < KeyOrder[r]
        PROVE  Place(Found, k) < Limit
    <2>1. /\ Place(Found, k) \in Nat /\ Place(Found', k) \in Nat
          /\ Place(Found, r) \in Nat
      BY <1>3, PlaceType
    <2>2. Place(Found', k) = Place(Found, k) \/ (KeyOrder[r] < KeyOrder[k] /\ Place(Found, r) <= Place(Found', k))
      BY <1>2, <1>3, <1>6, PlaceDeleted
    <2>3. CASE Place(Found', k) = Place(Found, k)
      BY <1>8, <2>3
    <2>4. CASE KeyOrder[r] < KeyOrder[k] /\ Place(Found, r) <= Place(Found', k)
      <3>1. KeyOrder[r] \in Nat /\ KeyOrder[k] \in Nat
        BY <1>2, <1>5
      <3>2. ~ behind
        BY <1>8, <2>4, <3>1
      <3>3. ~ (Place(Found, r) < Limit)
        BY <1>8, <3>2 DEF behind, Copying
      <3> QED
        BY <1>5, <1>8, <2>1, <2>4, <3>3
    <2> QED
      BY <2>2, <2>3, <2>4
  <1>9. Phases'
    <2>1. pc = "dial" => ~ behind
      BY DEF behind
    <2> QED
      BY <1>1, <2>1 DEF IInv, Phases, Whole
  <1>10. KnownExecuted'
    BY <1>1, <1>4 DEF IInv, KnownExecuted
  <1>11. Complete'
    <2> SUFFICES ASSUME Copying, NEW k \in Sought, BeforeReceipts(k) \/ ~ shifted',
                        Place(Found', k) < Limit
                 PROVE  k \in DOMAIN Current /\ Content(began, k) \subseteq Current[k]
      BY <1>1, <1>2, <1>4 DEF Complete, Copying
    <2>1. k \in Key
      BY <1>2
    <2>2. BeforeReceipts(k) \/ (~ shifted /\ ~ behind)
      BY <1>1
    <2>3. ~ behind \/ KeyOrder[k] < KeyOrder[r]
      BY <2>1, <2>2, Order DEF r
    <2>4. Place(Found, k) < Limit
      BY <1>8, <2>1, <2>3
    <2> QED
      BY <2>2, <2>4 DEF IInv, Complete
  <1>12. Followed'
    <2> SUFFICES ASSUME Copying, ~ shifted', NEW t \in executed, Mentions(Current, t),
                        Place(Found', <<"tx", t>>) < Limit
                 PROVE  <<"tx", t>> \in DOMAIN Current
      BY <1>1, <1>4 DEF Followed, Copying
    <2>1. ~ shifted /\ ~ behind
      BY <1>1
    <2>2. <<"tx", t>> \in Key
      BY <1>2 DEF TypeOK, Key
    <2>3. Place(Found, <<"tx", t>>) < Limit
      BY <1>8, <2>1, <2>2
    <2> QED
      BY <2>1, <2>3 DEF IInv, Followed
  <1>13. AtEnd'
    BY <1>1, <1>7 DEF AtEnd
  <1> QED
    BY <1>9, <1>10, <1>11, <1>12, <1>13

\* The answer to a call: the page holds the keys from place index on, and an
\* empty page means that there are none.
LEMMA InvAsk ==
  ASSUME IInv, Ask
  PROVE  (Phases /\ KnownExecuted /\ Complete /\ Followed /\ AtEnd)'
  <1> DEFINE page == Page(Found, index)
  <1>1. /\ pc = "ask" /\ response' = SynchronizeGrpc(index)
        /\ pc' = IF DOMAIN response' = {} THEN "genesis" ELSE "store"
        /\ UNCHANGED <<executed, rejected, copied, began, whole, shifted, index, own, lost>>
    BY DEF Ask, peer, history
  <1>2. /\ TypeOK /\ index \in Nat /\ executed \in SUBSET Tx /\ began \in SUBSET Tx
        /\ began \subseteq executed /\ PageSize \in Nat
    BY SyncAssumption DEF IInv, TypeOK
  <1>3. DOMAIN response' = page /\ \A k \in page : response'[k] = Content(executed, k)
    BY <1>1, <1>2, AnswerIsPage
  <1>4. DOMAIN response = {} /\ began # {}
    BY <1>1 DEF IInv, Phases
  <1>5. /\ DOMAIN Current = DOMAIN own /\ Limit = index
        /\ \A k \in DOMAIN own : Current[k] = own[k]
        /\ \A t : Mentions(Current, t) <=> Mentions(own, t)
    BY <1>2, <1>4, OverwriteNothing, FS_EmptySet DEF Current, Limit
  <1>a. Found \in SUBSET Key /\ Found' = Found /\ Sought' = Sought
    BY <1>1, <1>2, FoundType DEF Found, PeerKeys, Sought
  <1>6. /\ Limit' = index + Cardinality(page) /\ Limit' \in Nat /\ Limit' <= index + PageSize
    <2>1. Cardinality(page) \in Nat /\ Cardinality(page) <= PageSize
      BY <1>2, <1>a, PageBounded
    <2> QED
      BY <1>1, <1>2, <1>3, <2>1 DEF Limit
  <1>7. /\ DOMAIN Current' = DOMAIN own \cup page
        /\ \A k \in page : Current'[k] = Content(executed, k)
        /\ \A k \in DOMAIN own \ page : Current'[k] = own[k]
    BY <1>1, <1>3 DEF Current, Overwrite
  <1>8. \A k : Place(Found, k) \in Nat
    BY <1>a, PlaceType
  <1>9. ASSUME NEW k \in Found, Place(Found, k) < Limit', k \notin page
        PROVE  Place(Found, k) < index
    BY <1>2, <1>6, <1>8, <1>9 DEF Page
  <1>10. whole => Sought \subseteq Found
    <2>1. whole => \A k \in Keys(executed) : HasPrefix(k) => k \in Found
      BY <1>2, FoundType DEF IInv, Phases
    <2> QED
      BY <1>2, <2>1, DatabaseGrows DEF Sought
  <1>11. Phases'
    BY <1>1, <1>4 DEF IInv, Phases, Whole
  <1>12. ASSUME NEW t \in Tx, Mentions(response', t)
         PROVE  /\ t \in executed
                /\ \E k \in page : KeyOrder[k] < KeyOrder[<<"tx", t>>]
    BY <1>1, <1>2, <1>12, AnswerMentions
  <1>13. KnownExecuted'
    <2> SUFFICES ASSUME NEW t \in Tx, Mentions(own, t) \/ Mentions(response', t)
                 PROVE  t \in executed \/ <<"tx", t>> \in DOMAIN own
      BY <1>1 DEF KnownExecuted, Mentions
    <2> QED
      BY <1>12 DEF IInv, KnownExecuted
  <1>14. Complete'
    <2> SUFFICES ASSUME Copying', NEW k \in Sought, BeforeReceipts(k) \/ ~ shifted,
                        Place(Found, k) < Limit'
                 PROVE  k \in DOMAIN Current' /\ Content(began, k) \subseteq Current'[k]
      BY <1>1, <1>a DEF Complete
    <2>0. Copying /\ k \in Found
      BY <1>1, <1>10 DEF Copying
    <2>1. CASE k \in page
      <3>1. Content(began, k) \subseteq Content(executed, k)
        BY <1>2, DatabaseGrows
      <3> QED
        BY <1>7, <2>1, <3>1
    <2>2. CASE k \notin page
      <3>1. Place(Found, k) < index
        BY <1>9, <2>0, <2>2
      <3>2. k \in DOMAIN own /\ Content(began, k) \subseteq own[k]
        BY <1>5, <2>0, <3>1 DEF IInv, Complete
      <3> QED
        BY <1>7, <2>2, <3>2
    <2> QED
      BY <2>1, <2>2
  <1>b. ASSUME NEW t \in executed, whole
        PROVE  t \in Tx /\ <<"tx", t>> \in Found /\ <<"tx", t>> \in Key
    <2>1. \A k \in Keys(executed) : HasPrefix(k) => k \in Found
      BY <1>2, <1>b, FoundType DEF IInv, Phases
    <2> QED
      BY <1>2, <2>1, TxIsKept
  <1>15. ASSUME NEW t \in executed, whole, ~ lost, ~ shifted, Mentions(own, t) \/ Mentions(response', t),
                Place(Found, <<"tx", t>>) < Limit'
         PROVE  <<"tx", t>> \in DOMAIN own \cup page
    <2>0. t \in Tx /\ <<"tx", t>> \in Found /\ <<"tx", t>> \in Key
      BY <1>15, <1>b
    <2>1. CASE <<"tx", t>> \in page
      BY <2>1
    <2>2. CASE <<"tx", t>> \notin page
      <3>1. Place(Found, <<"tx", t>>) < index
        BY <1>9, <1>15, <2>0, <2>2
      <3>2. ~ Mentions(response', t)
        <4>1. SUFFICES ASSUME Mentions(response', t) PROVE FALSE
          OBVIOUS
        <4>2. PICK k \in page : KeyOrder[k] < KeyOrder[<<"tx", t>>]
          BY <1>12, <2>0, <4>1
        <4>3. k \in Found /\ index <= Place(Found, k)
          BY <1>2, <1>8 DEF Page
        <4>4. Place(Found, k) < Place(Found, <<"tx", t>>)
          BY <1>a, <2>0, <4>2, <4>3, PlaceOrder
        <4> QED
          BY <1>2, <1>8, <3>1, <4>3, <4>4
      <3>3. Mentions(Current, t)
        BY <1>5, <1>15, <3>2
      <3>4. Copying
        BY <1>1, <1>15 DEF Copying
      <3> QED
        BY <1>5, <1>15, <3>1, <3>3, <3>4 DEF IInv, Followed
    <2> QED
      BY <2>1, <2>2
  <1>16. Followed'
    <2> SUFFICES ASSUME Copying', ~ shifted, NEW t \in executed, Mentions(Current', t),
                        Place(Found, <<"tx", t>>) < Limit'
                 PROVE  <<"tx", t>> \in DOMAIN Current'
      BY <1>1, <1>a DEF Followed
    <2>1. Mentions(own, t) \/ Mentions(response', t)
      <3>1. Mentions(Overwrite(own, response'), t)
        BY <1>1 DEF Current
      <3> QED
        BY <3>1, OverwriteMentions
    <2>2. ~ lost /\ whole
      BY <1>1 DEF Copying
    <2> QED
      BY <1>7, <1>15, <2>1, <2>2
  <1>17. AtEnd'
    <2> SUFFICES ASSUME page = {}, ~ lost, whole
                 PROVE  /\ \A k \in Sought : ReadFirst(k) \/ ~ shifted =>
                             k \in DOMAIN own /\ Content(began, k) \subseteq own[k]
                        /\ ~ shifted => \A t \in Tx : Mentions(own, t) => <<"tx", t>> \in DOMAIN own
      BY <1>1, <1>3, <1>a DEF AtEnd, Mentions
    <2>1. \A k \in Found : Place(Found, k) < index
      BY <1>2, <1>a, EmptyPage
    <2>2. Copying
      BY <1>1 DEF Copying
    <2>3. ASSUME NEW k \in Sought, ReadFirst(k) \/ ~ shifted
          PROVE  k \in DOMAIN own /\ Content(began, k) \subseteq own[k]
      <3>1. Place(Found, k) < Limit /\ (BeforeReceipts(k) \/ ~ shifted)
        BY <1>5, <1>10, <2>1, <2>3 DEF ReadFirst
      <3> QED
        BY <1>5, <2>2, <3>1 DEF IInv, Complete
    <2>4. ASSUME NEW t \in Tx, Mentions(own, t), ~ shifted
          PROVE  <<"tx", t>> \in DOMAIN own
      <3>1. CASE t \in executed
        <4>1. Place(Found, <<"tx", t>>) < index
          BY <1>b, <2>1, <3>1
        <4> QED
          BY <1>5, <2>2, <2>4, <3>1, <4>1 DEF IInv, Followed
      <3>2. CASE t \notin executed
        BY <2>4, <3>2 DEF IInv, KnownExecuted
      <3> QED
        BY <3>1, <3>2
    <2> QED
      BY <2>3, <2>4
  <1> QED
    BY <1>11, <1>13, <1>14, <1>16, <1>17

\* The page is stored: the database is now what Current was, or some items of
\* the page are lost.
LEMMA InvStore ==
  ASSUME IInv, Store
  PROVE  (Phases /\ KnownExecuted /\ Complete /\ Followed /\ AtEnd)'
  <1>1. /\ pc = "store" /\ index' = Limit /\ pc' = "ask" /\ response' = Nothing
        /\ UNCHANGED <<executed, rejected, copied, began, whole, shifted>>
    BY DEF Store, Advance, Limit, peer, history
  <1>2. DOMAIN response' = {} /\ Found' = Found /\ Sought' = Sought
    BY <1>1, NothingIsEmpty DEF Found, PeerKeys, Sought
  <1>3. Limit \in Nat
    BY LimitType DEF IInv
  <1>4. Limit' = Limit
    BY <1>1, <1>2, <1>3, FS_EmptySet DEF Limit
  <1>5. Phases'
    BY <1>1, <1>2 DEF IInv, Phases, Whole
  <1>6. AtEnd'
    BY <1>1 DEF AtEnd
  <1>7. ASSUME NEW items, own' = Overwrite(own, items),
               \A t : Mentions(items, t) => Mentions(response, t)
        PROVE  KnownExecuted'
    <2> SUFFICES ASSUME NEW t \in Tx, Mentions(own', t) \/ Mentions(response', t)
                 PROVE  t \in executed \/ <<"tx", t>> \in DOMAIN own'
      BY <1>1 DEF KnownExecuted
    <2>1. ~ Mentions(response', t)
      BY <1>2 DEF Mentions
    <2>2. Mentions(own, t) \/ Mentions(response, t)
      BY <1>7, <2>1, OverwriteMentions
    <2>3. t \in executed \/ <<"tx", t>> \in DOMAIN own
      BY <2>2 DEF IInv, KnownExecuted
    <2> QED
      BY <1>7, <2>3 DEF Overwrite
  <1>8. CASE own' = Overwrite(own, response) /\ UNCHANGED <<lost, faults>>
    <2>1. KnownExecuted'
      BY <1>7, <1>8
    <2>2. own' = Current
      BY <1>8 DEF Current
    <2>3. /\ DOMAIN Current' = DOMAIN Current
          /\ \A k \in DOMAIN Current : Current'[k] = Current[k]
          /\ \A t : Mentions(Current', t) <=> Mentions(Current, t)
      <3>1. Current' = Overwrite(Current, response')
        BY <2>2 DEF Current
      <3> HIDE DEF Current
      <3> QED
        BY <1>2, <3>1, OverwriteNothing
    <2>4. Copying' = Copying
      BY <1>1, <1>8 DEF Copying
    <2>5. Complete'
      <3> SUFFICES ASSUME Copying, NEW k \in Sought, BeforeReceipts(k) \/ ~ shifted,
                          Place(Found, k) < Limit
                   PROVE  k \in DOMAIN Current' /\ Content(began, k) \subseteq Current'[k]
        BY <1>1, <1>2, <1>4, <2>4 DEF Complete
      <3> QED
        BY <2>3 DEF IInv, Complete
    <2>6. Followed'
      <3> SUFFICES ASSUME Copying, ~ shifted, NEW t \in executed, Mentions(Current', t),
                          Place(Found, <<"tx", t>>) < Limit
                   PROVE  <<"tx", t>> \in DOMAIN Current'
        BY <1>1, <1>2, <1>4, <2>4 DEF Followed
      <3> QED
        BY <2>3 DEF IInv, Followed
    <2> QED
      BY <1>5, <1>6, <2>1, <2>5, <2>6
  <1>9. CASE /\ lost' = TRUE
             /\ \E set \in SUBSET DOMAIN response :
                  own' = Overwrite(own, [k \in set |-> response[k]])
    <2>1. PICK set \in SUBSET DOMAIN response : own' = Overwrite(own, [k \in set |-> response[k]])
      BY <1>9
    <2>2. \A t : Mentions([k \in set |-> response[k]], t) => Mentions(response, t)
      BY DEF Mentions
    <2>3. KnownExecuted'
      BY <1>7, <2>1, <2>2
    <2>4. Complete' /\ Followed'
      BY <1>9 DEF Complete, Followed, Copying
    <2> QED
      BY <1>5, <1>6, <2>3, <2>4
  <1> QED
    BY <1>8, <1>9 DEF Store

\* The genesis transaction is created only when no copy has brought it: when
\* none was made, when some items were lost, or when an expired receipt hid it.
LEMMA InvCreateGenesis ==
  ASSUME IInv, CreateGenesis
  PROVE  (Phases /\ KnownExecuted /\ Complete /\ Followed /\ AtEnd)'
  <1>1. /\ pc = "genesis" /\ pc' = "done"
        /\ UNCHANGED <<executed, copied, began, whole, shifted, index, response, lost>>
    BY DEF CreateGenesis, peer, history
  <1>2. Genesis \in Tx /\ Genesis \in executed /\ Sought' = Sought
    BY <1>1 DEF IInv, TypeOK, Sought
  <1>3. Phases' /\ Complete' /\ Followed'
    BY <1>1 DEF IInv, Phases, Complete, Followed, Copying, Whole
  <1>4. CASE <<"tx", Genesis>> \in DOMAIN own
    <2>1. own' = own
      BY <1>4 DEF CreateGenesis
    <2>2. \A t : Mentions(own', t) = Mentions(own, t) /\ Mentions(response', t) = Mentions(response, t)
      BY <1>1, <2>1 DEF Mentions
    <2>3. KnownExecuted' /\ AtEnd'
      BY <1>1, <1>2, <2>1, <2>2 DEF IInv, KnownExecuted, AtEnd
    <2> QED
      BY <1>3, <2>3
  <1>5. CASE <<"tx", Genesis>> \notin DOMAIN own
    <2> DEFINE created == Database({Genesis})
    <2>1. own' = Overwrite(own, created)
      BY <1>5 DEF CreateGenesis
    <2>2. ASSUME NEW t \in Tx, Mentions(created, t)
          PROVE  t = Genesis
      <3>1. {Genesis} \in SUBSET Tx /\ Mentions(Database({Genesis}), t)
        BY <1>2, <2>2
      <3>2. t \in {Genesis}
        BY <3>1, DatabaseMentions
      <3> QED
        BY <3>2
    <2>a. ASSUME NEW k \in DOMAIN created, ReadFirst(k)
          PROVE  Content({Genesis}, k) = {} /\ created[k] = {} /\ k[1] # "account"
      BY <2>a DEF Database, Keys, ReadFirst, Content
    <2> HIDE DEF created
    <2>3. KnownExecuted'
      <3> SUFFICES ASSUME NEW t \in Tx, Mentions(own', t) \/ Mentions(response, t)
                   PROVE  t \in executed \/ <<"tx", t>> \in DOMAIN own'
        BY <1>1 DEF KnownExecuted
      <3>1. Mentions(own, t) \/ t = Genesis \/ Mentions(response, t)
        BY <2>1, <2>2, OverwriteMentions
      <3>2. t \in executed \/ <<"tx", t>> \in DOMAIN own
        BY <1>2, <3>1 DEF IInv, KnownExecuted
      <3> QED
        BY <2>1, <3>2 DEF Overwrite
    <2>4. AtEnd'
      <3> SUFFICES ASSUME began # {}, whole, ~ lost
                   PROVE  /\ \A k \in Sought : ReadFirst(k) \/ ~ shifted =>
                               k \in DOMAIN own' /\ Content(began, k) \subseteq own'[k]
                          /\ ~ shifted => \A t \in Tx : Mentions(own', t) => <<"tx", t>> \in DOMAIN own'
        BY <1>1, <1>2 DEF AtEnd
      <3>1. \A k \in Sought : ReadFirst(k) \/ ~ shifted =>
               k \in DOMAIN own /\ Content(began, k) \subseteq own[k]
        BY <1>1 DEF IInv, AtEnd
      <3>2. shifted
        <4>1. Genesis \in began /\ began \in SUBSET Tx
          BY DEF IInv, Phases, TypeOK
        <4>2. <<"tx", Genesis>> \in Sought
          BY <4>1, TxIsKept DEF Sought
        <4> QED
          BY <1>5, <3>1, <4>2
      <3>3. ASSUME NEW k \in Sought, ReadFirst(k)
            PROVE  k \in DOMAIN own' /\ Content(began, k) \subseteq own'[k]
        <4>1. k \in DOMAIN own /\ Content(began, k) \subseteq own[k]
          BY <3>1, <3>3
        <4>2. CASE k \in DOMAIN created
          <5>1. Content(began, k) = {}
            BY <2>a, <3>3, <4>2 DEF Content
          <5> QED
            BY <2>1, <4>2, <5>1 DEF Overwrite
        <4>3. CASE k \notin DOMAIN created
          BY <2>1, <4>1, <4>3 DEF Overwrite
        <4> QED
          BY <4>2, <4>3
      <3> QED
        BY <3>2, <3>3
    <2> QED
      BY <1>3, <2>3, <2>4
  <1> QED
    BY <1>4, <1>5

\* A restart keeps the database and forgets the rest.
LEMMA InvRestart ==
  ASSUME IInv, Restart
  PROVE  (Phases /\ KnownExecuted /\ Complete /\ Followed /\ AtEnd)'
  <1>1. /\ pc' = "dial" /\ response' = Nothing /\ began' = {} /\ whole' = FALSE /\ shifted' = FALSE
        /\ UNCHANGED <<executed, own>>
    BY DEF Restart, peer
  <1>2. DOMAIN response' = {}
    BY <1>1, NothingIsEmpty
  <1>3. Phases' /\ Complete' /\ Followed' /\ AtEnd'
    BY <1>1, <1>2 DEF Phases, Complete, Followed, AtEnd, Copying
  <1>4. \A t : Mentions(own', t) = Mentions(own, t) /\ ~ Mentions(response', t)
    BY <1>1, <1>2 DEF Mentions
  <1>5. KnownExecuted'
    BY <1>1, <1>4 DEF IInv, KnownExecuted
  <1> QED
    BY <1>3, <1>5

\* The first delegate that answers: nothing has been read, and everything that
\* the peer has is what it had at the beginning.
LEMMA InvDial ==
  ASSUME IInv, TypeOK', NEW q \in Peer, Dial(q)
  PROVE  (Phases /\ KnownExecuted /\ Complete /\ Followed /\ AtEnd)'
  <1>1. pc = "dial" /\ UNCHANGED <<executed, rejected, copied, response, own, lost>>
    BY DEF Dial, peer
  <1>2. DOMAIN response' = {} /\ began = {} /\ ~ whole /\ ~ shifted
    BY <1>1 DEF IInv, Phases
  <1>3. \A t : Mentions(own', t) = Mentions(own, t) /\ Mentions(response', t) = Mentions(response, t)
    BY <1>1 DEF Mentions
  <1>4. KnownExecuted'
    BY <1>1, <1>3 DEF IInv, KnownExecuted
  <1>5. CASE pc' = "ask" /\ index' = 0 /\ began' = executed /\ whole' = Whole /\ shifted' = FALSE
    <2>1. Limit' = 0 /\ \A k : Place(Found', k) \in Nat
      BY <1>2, <1>5, FS_EmptySet, FoundTypeNext, PlaceType DEF Limit
    <2>2. Phases'
      BY <1>1, <1>2, <1>5 DEF IInv, Phases, TypeOK, Whole
    <2>3. \A k : ~ (Place(Found', k) < Limit')
      BY <2>1
    <2>4. Complete'
      BY <2>3 DEF Complete
    <2>5. Followed'
      BY <2>3 DEF Followed
    <2>6. AtEnd'
      BY <1>5 DEF AtEnd
    <2> QED
      BY <1>4, <2>2, <2>4, <2>5, <2>6
  <1>6. CASE UNCHANGED <<pc, history, index>>
    <2>1. UNCHANGED <<pc, began, whole, shifted, index>>
      BY <1>6 DEF history
    <2> QED
      BY <1>1, <1>2, <1>4, <2>1 DEF Phases, Complete, Followed, AtEnd, Copying
  <1> QED
    BY <1>5, <1>6 DEF Dial

LEMMA InvStep == IInv /\ [Next]_vars => IInv'
  <1> SUFFICES ASSUME IInv, [Next]_vars PROVE IInv'
    OBVIOUS
  <1>0. TypeOK'
    BY TypeStep DEF IInv
  <1>1. CASE NoDelegate
    <2>1. /\ pc = "dial" /\ pc' = "genesis"
          /\ UNCHANGED <<executed, copied, began, whole, shifted, index, response, own, lost>>
      BY <1>1 DEF NoDelegate, peer, history
    <2>2. \A t : Mentions(own', t) = Mentions(own, t) /\ Mentions(response', t) = Mentions(response, t)
      BY <2>1 DEF Mentions
    <2>3. KnownExecuted'
      BY <2>1, <2>2 DEF IInv, KnownExecuted
    <2>4. Phases' /\ Complete' /\ Followed' /\ AtEnd'
      BY <2>1 DEF IInv, Phases, Complete, Followed, AtEnd, Copying
    <2> QED
      BY <1>0, <2>3, <2>4 DEF IInv
  <1>2. ASSUME NEW q \in Peer, Dial(q) PROVE IInv'
    BY <1>0, <1>2, InvDial DEF IInv
  <1>3. CASE Ask
    BY <1>0, <1>3, InvAsk DEF IInv
  <1>4. CASE Store
    BY <1>0, <1>4, InvStore DEF IInv
  <1>5. CASE CreateGenesis
    BY <1>0, <1>5, InvCreateGenesis DEF IInv
  <1>6. CASE Restart
    BY <1>0, <1>6, InvRestart DEF IInv
  <1>7. CASE PeerCopies
    BY <1>0, <1>7, InvPeerCopies DEF IInv
  <1>8. ASSUME NEW t \in Tx, PeerExecutes(t) PROVE IInv'
    BY <1>0, <1>8, InvPeerExecutes DEF IInv
  <1>9. ASSUME NEW t \in Tx, PeerRejects(t) PROVE IInv'
    BY <1>0, <1>9, InvPeerRejects DEF IInv
  <1>10. ASSUME NEW t \in Tx, ReceiptExpires(t) PROVE IInv'
    BY <1>0, <1>10, InvReceiptExpires DEF IInv
  <1>11. ASSUME UNCHANGED <<executed, rejected, copied, began, whole, shifted, pc, index, response, own, lost>>
         PROVE  IInv'
    <2>1. Found' = Found /\ (whole => Whole')
      BY <1>11 DEF IInv, Phases, Found, PeerKeys, Whole
    <2>2. (Phases /\ KnownExecuted /\ Complete /\ Followed /\ AtEnd)'
      BY <1>0, <1>11, <2>1, InvPeerGrows
    <2> QED
      BY <1>0, <2>2 DEF IInv
  <1>12. CASE AskFails \/ UNCHANGED vars
    BY <1>11, <1>12 DEF AskFails, vars, peer, history
  <1> QED
    BY <1>1, <1>2, <1>3, <1>4, <1>5, <1>6, <1>7, <1>8, <1>9, <1>10, <1>12 DEF Next, peerSynchronize

-----------------------------------------------------------------------------
(* Theorems                                                                *)

\* The invariant above holds in every behaviour of peerSynchronize and of the
\* peer that goes on executing, rejecting, and dropping receipts that expire.
THEOREM SynchronizeInvariant == Spec => []IInv
  BY InvInit, InvStep, PTL DEF Spec

\* Whatever the peer commits between two calls of SynchronizeGrpc, the copy that
\* peerSynchronize makes misses nothing that the peer had at the beginning,
\* unless a receipt expired behind the reader; and then, too, it has every root
\* pointer, secondary key and account (those of genesis excepted).
THEOREM SynchronizeComplete == Spec => []CopyIsComplete
  <1>1. IInv => CopyIsComplete
    BY DEF IInv, AtEnd, CopyIsComplete, Copied, Sought
  <1> QED
    BY <1>1, SynchronizeInvariant, PTL

\* Unless a receipt expired behind the reader, the copy has no secondary key and
\* no balance without the transactions they speak of, so executeTransaction
\* applies none of them again.
THEOREM SynchronizeConsistent == Spec => []CopyIsConsistent
  <1>1. IInv => CopyIsConsistent
    <2> SUFFICES ASSUME IInv PROVE CopyIsConsistent
      OBVIOUS
    <2>1. TypeOK
      BY DEF IInv
    <2>2. Copied /\ ~ shifted => \A t \in Tx : Mentions(own, t) => <<"tx", t>> \in DOMAIN own
      BY DEF IInv, AtEnd, Copied
    <2>3. IndexHasTarget
      BY <2>2 DEF IndexHasTarget, Mentions
    <2>4. NothingAppliedTwice
      <3> SUFFICES ASSUME Copied, ~ shifted, NEW a \in Account, <<"account", a>> \in DOMAIN own,
                          NEW t \in own[<<"account", a>>]
                   PROVE  <<"tx", t>> \in DOMAIN own
        BY DEF NothingAppliedTwice
      <3>1. t \in Tx
        BY <2>1 DEF TypeOK, IsDatabase
      <3> QED
        BY <2>2, <3>1 DEF Mentions
    <2> QED
      BY <2>1, <2>3, <2>4 DEF CopyIsConsistent
  <1> QED
    BY <1>1, SynchronizeInvariant, PTL

=============================================================================
