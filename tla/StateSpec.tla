----------------------------- MODULE StateSpec -----------------------------
(***************************************************************************)
(* What the EVM relies on when it uses a StateDB: accounts, a refund       *)
(* counter, logs and preimages, and a stack of copies of them.  A snapshot *)
(* pushes a copy, RevertToSnapshot brings one back whole.  Module StateDB  *)
(* implements this with a journal.                                         *)
(***************************************************************************)
EXTENDS Naturals, Sequences

VARIABLES
  now,        \* what the getters answer
  snapshots,  \* [id, copy], oldest first
  nextId,     \* the id of the next snapshot
  ended       \* transactions that have ended

specVars == <<now, snapshots, nextId, ended>>

Snapshot ==
  /\ nextId' = nextId + 1 /\ UNCHANGED <<ended, now>>
  /\ snapshots' = Append(snapshots, [id |-> nextId, copy |-> now])

RevertTo(i) ==
  /\ UNCHANGED <<nextId, ended>>
  /\ now' = snapshots[i].copy
  /\ snapshots' = SubSeq(snapshots, 1, i - 1)

\* A setter: the copies are not touched.
Change == UNCHANGED <<nextId, ended, snapshots>>

\* Finalise, Commit and Reset end a transaction: its snapshots are gone.
EndTransaction == ended' = ended + 1 /\ nextId' \in {0, nextId} /\ snapshots' = <<>>

SpecInit == snapshots = <<>> /\ nextId = 0 /\ ended = 0
SpecNext == Snapshot \/ (\E i \in DOMAIN snapshots : RevertTo(i)) \/ Change \/ EndTransaction
Abstract == SpecInit /\ [][SpecNext]_specVars
=============================================================================
