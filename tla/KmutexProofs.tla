---------------------------- MODULE KmutexProofs ----------------------------
(***************************************************************************)
(* The safety properties of Kmutex for any set of goroutines and any set   *)
(* of keys.  The four invariants are inductive together: the key set being *)
(* exactly the set of keys with a holder is what lets Acquire conclude     *)
(* from "the key is absent" that nobody holds it.                          *)
(***************************************************************************)
EXTENDS Kmutex, TLAPS

\* TypeOK, KeysMatchHolders, MutualExclusion and NoLostWakeup.
IInv == TypeOK /\ KeysMatchHolders /\ MutualExclusion /\ NoLostWakeup

\* The initial states of Kmutex satisfy the inductive invariant.
LEMMA InitIInv == Init => IInv
  BY DEF Init, IInv, TypeOK, PC, KeysMatchHolders, Holders, MutualExclusion, NoLostWakeup

\* Every step of a goroutine, and every call of Lock, preserves the invariant.
LEMMA StepIInv == IInv /\ [Next]_vars => IInv'
<1> USE DEF IInv, TypeOK, PC
<1> SUFFICES ASSUME IInv, [Next]_vars
             PROVE  IInv'
  OBVIOUS
<1>1. ASSUME NEW g \in Goroutine, NEW k \in Key, CallLock(g, k)
      PROVE  IInv'
  <2>1. TypeOK'
    BY <1>1 DEF CallLock
  <2>2. KeysMatchHolders'
    BY <1>1 DEF CallLock, KeysMatchHolders, Holders
  <2>3. MutualExclusion'
    BY <1>1 DEF CallLock, MutualExclusion
  <2>4. NoLostWakeup'
    BY <1>1 DEF CallLock, NoLostWakeup
  <2> QED
    BY <2>1, <2>2, <2>3, <2>4
<1>2. ASSUME NEW g \in Goroutine, Acquire(g)
      PROVE  IInv'
  <2>1. TypeOK'
    BY <1>2 DEF Acquire
  <2>2. KeysMatchHolders'
    BY <1>2 DEF Acquire, KeysMatchHolders, Holders
  <2>3. MutualExclusion'
    \* locked(want[g]) is false, so want[g] has no holder.
    BY <1>2 DEF Acquire, locked, MutualExclusion, KeysMatchHolders, Holders
  <2>4. NoLostWakeup'
    BY <1>2 DEF Acquire, NoLostWakeup
  <2> QED
    BY <2>1, <2>2, <2>3, <2>4
<1>3. ASSUME NEW g \in Goroutine, Wait(g)
      PROVE  IInv'
  <2>1. TypeOK'
    BY <1>3 DEF Wait
  <2>2. KeysMatchHolders'
    BY <1>3 DEF Wait, KeysMatchHolders, Holders
  <2>3. MutualExclusion'
    BY <1>3 DEF Wait, MutualExclusion
  <2>4. NoLostWakeup'
    BY <1>3 DEF Wait, locked, NoLostWakeup
  <2> QED
    BY <2>1, <2>2, <2>3, <2>4
<1>4. ASSUME NEW g \in Goroutine, Unlock(g)
      PROVE  IInv'
  <2> USE DEF Broadcast
  <2>1. TypeOK'
    BY <1>4 DEF Unlock
  <2>2. \A h \in Goroutine :
          /\ pc'[h] = "holding" <=> h # g /\ pc[h] = "holding"
          /\ pc'[h] # "waiting"
          /\ want'[h] = want[h]
    BY <1>4 DEF Unlock
  <2>3. KeysMatchHolders'
    <3>1. ASSUME NEW k \in Key
          PROVE  k \in keys' <=> \E h \in Goroutine : pc'[h] = "holding" /\ want'[h] = k
      <4>1. (\E h \in Goroutine : pc'[h] = "holding" /\ want'[h] = k)
              <=> \E h \in Goroutine : h # g /\ pc[h] = "holding" /\ want[h] = k
        BY <2>2
      <4>2. CASE k = want[g]
        \* By mutual exclusion g was its only holder.
        BY <1>4, <4>1, <4>2 DEF Unlock, MutualExclusion
      <4>3. CASE k # want[g]
        BY <1>4, <4>1, <4>3 DEF Unlock, KeysMatchHolders, Holders
      <4> QED
        BY <4>2, <4>3
    <3> QED
      BY <3>1 DEF KeysMatchHolders, Holders
  <2>4. MutualExclusion'
    BY <2>2 DEF MutualExclusion
  <2>5. NoLostWakeup'
    BY <2>2 DEF NoLostWakeup
  <2> QED
    BY <2>1, <2>3, <2>4, <2>5
<1>5. CASE UNCHANGED vars
  BY <1>5 DEF vars, KeysMatchHolders, Holders, MutualExclusion, NoLostWakeup
<1> QED
  BY <1>1, <1>2, <1>3, <1>4, <1>5 DEF Next, Step

\* Lock and Unlock keep pc, want and the key set well typed.
THEOREM TypeCorrect == Spec => []TypeOK
<1>1. IInv => TypeOK
  BY DEF IInv
<1> QED
  BY InitIInv, StepIInv, <1>1, PTL DEF Spec

\* At most one goroutine executes a transaction hash, whatever the number of
\* goroutines and hashes.
THEOREM KmutexMutualExclusion == Spec => []MutualExclusion
<1>1. IInv => MutualExclusion
  BY DEF IInv
<1> QED
  BY InitIInv, StepIInv, <1>1, PTL DEF Spec

\* A goroutine asleep in cond.Wait always has a holder of its key to wake it.
THEOREM KmutexNoLostWakeup == Spec => [](NoLostWakeup /\ KeysMatchHolders)
<1>1. IInv => NoLostWakeup /\ KeysMatchHolders
  BY DEF IInv
<1> QED
  BY InitIInv, StepIInv, <1>1, PTL DEF Spec
=============================================================================
