------------------------------- MODULE Kmutex -------------------------------
(***************************************************************************)
(* The keyed mutex of commons/utils/kmutex.go, as executeTransaction uses  *)
(* it through services.Lock / services.Unlock: one sync.Mutex ("locker")   *)
(* guards a set of held keys, and one sync.Cond on that mutex carries the  *)
(* waiters of ALL keys.                                                    *)
(*                                                                         *)
(* A critical section of locker is one step: Lock runs from locker.Lock()  *)
(* either to the insertion of its key or to cond.Wait(), which enrols the  *)
(* goroutine in the notify list before it gives the locker up.  Between    *)
(* being notified and looking at the keys again a goroutine is "woken":    *)
(* others may run their critical sections first.                           *)
(***************************************************************************)
CONSTANTS Goroutine,   \* goroutines that call Lock and Unlock
          Key          \* the keys: transaction hashes

VARIABLES keys,        \* this.keys: the keys currently locked
          pc,          \* where each goroutine is: see PC
          want         \* the key each goroutine last asked for

vars == <<keys, pc, want>>

PC == {"idle",         \* outside Lock and Unlock, holds nothing
       "locking",      \* called Lock(want), waits for locker
       "waiting",      \* inside cond.Wait, in the notify list
       "woken",        \* notified, will run locked(want) again
       "holding"}      \* Lock(want) has returned

TypeOK ==
  /\ keys \subseteq Key
  /\ pc \in [Goroutine -> PC]
  /\ want \in [Goroutine -> Key]

Init ==
  /\ keys = {}
  /\ pc = [g \in Goroutine |-> "idle"]
  /\ want \in [Goroutine -> Key]

-----------------------------------------------------------------------------

locked(k) == k \in keys

\* services.Lock(transaction.Hash) is called.
CallLock(g, k) ==
  /\ pc[g] = "idle"
  /\ pc' = [pc EXCEPT ![g] = "locking"]
  /\ want' = [want EXCEPT ![g] = k]
  /\ UNCHANGED keys

\* Variant of Acquire: "if this.locked(key)" in place of "for", so that a woken
\* goroutine does not look again.
AcquireWithoutRecheck(g) ==
  /\ pc[g] = "woken" \/ (pc[g] = "locking" /\ ~ locked(want[g]))
  /\ keys' = keys \cup {want[g]}
  /\ pc' = [pc EXCEPT ![g] = "holding"]
  /\ UNCHANGED want

\* The loop condition of Lock is false: the key is inserted, Lock returns.
Acquire(g) ==
  /\ pc[g] \in {"locking", "woken"}
  /\ ~ locked(want[g])
  /\ keys' = keys \cup {want[g]}
  /\ pc' = [pc EXCEPT ![g] = "holding"]
  /\ UNCHANGED want

\* The loop condition is true: cond.Wait() enrols the goroutine and releases
\* the locker in one step.
Wait(g) ==
  /\ pc[g] \in {"locking", "woken"}
  /\ locked(want[g])
  /\ pc' = [pc EXCEPT ![g] = "waiting"]
  /\ UNCHANGED <<keys, want>>

\* Variant of Broadcast: sync.Cond.Signal, one enrolled goroutine, of any key.
SignalOne ==
  LET asleep == {g \in Goroutine : pc[g] = "waiting"}
  IN  IF asleep = {} THEN pc
      ELSE [pc EXCEPT ![CHOOSE g \in asleep : TRUE] = "woken"]

\* sync.Cond.Broadcast: every enrolled goroutine is made runnable.
Broadcast == [g \in Goroutine |-> IF pc[g] = "waiting" THEN "woken" ELSE pc[g]]

\* delete(this.keys, key), then Broadcast.
Unlock(g) ==
  /\ pc[g] = "holding"
  /\ keys' = keys \ {want[g]}
  /\ pc' = [Broadcast EXCEPT ![g] = "idle"]
  /\ UNCHANGED want

\* What a goroutine inside Lock or Unlock does next without being called.
Step(g) == Acquire(g) \/ Wait(g) \/ Unlock(g)

Next == \E g \in Goroutine : Step(g) \/ \E k \in Key : CallLock(g, k)

\* The Go scheduler runs every runnable goroutine, and the deferred Unlock of
\* executeTransaction is always reached.  Nothing obliges anyone to call Lock.
Fairness == \A g \in Goroutine : WF_vars(Step(g))

Spec == Init /\ [][Next]_vars

FairSpec == Spec /\ Fairness

-----------------------------------------------------------------------------

Holders(k) == {g \in Goroutine : pc[g] = "holding" /\ want[g] = k}

\* Two goroutines never execute the same transaction hash at the same time,
\* even though a goroutine woken by the Unlock of another key, or overtaken by
\* a newcomer, competes for it again (the loop in Lock, kmutex.go:38).
MutualExclusion ==
  \A g, h \in Goroutine :
    g # h /\ pc[g] = "holding" /\ pc[h] = "holding" => want[g] # want[h]

\* The key set says exactly which keys have a holder: no Unlock of one key
\* frees another, and no key stays locked after its holder has left.
KeysMatchHolders == \A k \in Key : k \in keys <=> Holders(k) # {}

\* No lost wakeup: whoever sleeps in cond.Wait waits for a key that is still
\* held, so an Unlock that will wake it is still to come (the Broadcast of
\* kmutex.go:50 must reach the waiters of every key).
NoLostWakeup == \A g \in Goroutine : pc[g] = "waiting" => want[g] \in keys

\* A key somebody asks for is granted to somebody: the lock never stalls,
\* although a single unlucky caller may be overtaken for ever.
KeyIsGranted ==
  \A k \in Key :
    (\E g \in Goroutine : want[g] = k /\ pc[g] \in {"locking", "waiting", "woken"})
      ~> Holders(k) # {}

=============================================================================
