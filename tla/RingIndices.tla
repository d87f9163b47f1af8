---------------------------- MODULE RingIndices ----------------------------
(***************************************************************************)
(* What anyone who looks only at head_ and tail_ of a LockFreeSPSCQueue    *)
(* sees of it: two indices that go round the ring one slot at a time and   *)
(* never overtake each other.  SpscQueue implements this.                  *)
(***************************************************************************)
EXTENDS Integers

CONSTANT Size

VARIABLES head_, tail_
indices == <<head_, tail_>>

IndexInit == head_ = 0 /\ tail_ = 0

\* A successful try_push; the slot before head_ stays empty.
PushIndex ==
  /\ (tail_ + 1) % Size # head_
  /\ tail_' = (tail_ + 1) % Size
  /\ UNCHANGED head_

\* A successful try_pop.
PopIndex ==
  /\ head_ # tail_
  /\ head_' = (head_ + 1) % Size
  /\ UNCHANGED tail_

IndexSpec == IndexInit /\ [][PushIndex \/ PopIndex]_indices
=============================================================================
