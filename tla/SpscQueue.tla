----------------------------- MODULE SpscQueue -----------------------------
(***************************************************************************)
(* LockFreeSPSCQueue (include/lockfree_queue.h): one thread pushes, one    *)
(* thread pops, and they share nothing but a ring of Size slots, two       *)
(* atomic indices and one atomic flag per slot.                            *)
(*                                                                         *)
(* One action is one access to shared memory.  An index stored by one      *)
(* thread reaches the other thread only later: headSeen and tailSeen are   *)
(* what an acquire load of the other thread's index returns, and the       *)
(* actions HeadVisible and TailVisible are the moments a store arrives.    *)
(* A thread that has seen an index has, by the release/acquire pairing,    *)
(* seen every write made before that index was stored, so the slots        *)
(* themselves need no such delay.                                          *)
(***************************************************************************)
EXTENDS Integers, Sequences

CONSTANTS
  Size,    \* template parameter Size: the number of slots
  Msg,     \* the messages that are pushed
  NoMsg    \* contents of a slot nobody has written

ASSUME SizeAssumption == Size \in Nat \ {0}
ASSUME NoMsgAssumption == NoMsg \notin Msg

VARIABLES
  data,      \* buffer_[i].data
  ready,     \* buffer_[i].ready
  head_,     \* index of the next slot to pop, as the popper last stored it
  tail_,     \* index of the next slot to fill, as the pusher last stored it
  headSeen,  \* head_ as the pusher's next acquire load returns it
  tailSeen,  \* tail_ as the popper's next acquire load returns it
  pushPc,    \* where the pusher is inside try_push
  item,      \* the argument of try_push
  popPc,     \* where the popper is inside try_pop
  taken,     \* what try_pop has copied out of the slot
  returned   \* the message the latest successful try_pop handed over

pushVars == <<tail_, pushPc, item>>
popVars  == <<head_, popPc, taken, returned>>
vars     == <<data, ready, headSeen, tailSeen, pushVars, popVars>>

Index == 0 .. Size - 1

\* n & (Size - 1); Size is a power of two, so the mask is the remainder.
Masked(n) == n % Size

\* capacity(): one slot always stays empty.
capacity == Size - 1

Init ==
  /\ data     = [i \in Index |-> NoMsg]
  /\ ready    = [i \in Index |-> FALSE]
  /\ head_    = 0 /\ headSeen = 0
  /\ tail_    = 0 /\ tailSeen = 0
  /\ pushPc   = "idle" /\ item = NoMsg
  /\ popPc    = "idle" /\ taken = NoMsg /\ returned = NoMsg

-----------------------------------------------------------------------------
(* try_push *)

\* A mistake: try_push does not look whether the queue is full.
TryPushUnchecked(m) ==
  /\ pushPc = "idle"
  /\ item' = m
  /\ pushPc' = "write"
  /\ UNCHANGED <<data, ready, tail_, headSeen, tailSeen, popVars>>

\* Load both indices; a full queue makes try_push return false.
TryPushCheck(m) ==
  /\ pushPc = "idle"
  /\ item' = m
  /\ pushPc' = IF Masked(tail_ + 1) = headSeen THEN "idle" ELSE "write"
  /\ UNCHANGED <<data, ready, tail_, headSeen, tailSeen, popVars>>

\* A mistake: the message goes into the slot after the tail.
TryPushWriteNext ==
  /\ pushPc = "write"
  /\ data' = [data EXCEPT ![Masked(tail_ + 1)] = item]
  /\ pushPc' = "ready"
  /\ UNCHANGED <<ready, tail_, item, headSeen, tailSeen, popVars>>

\* Copy the message into the slot: a plain, non-atomic store.
TryPushWrite ==
  /\ pushPc = "write"
  /\ data' = [data EXCEPT ![tail_] = item]
  /\ pushPc' = "ready"
  /\ UNCHANGED <<ready, tail_, item, headSeen, tailSeen, popVars>>

\* A mistake: the flag is not raised.
TryPushUnready ==
  /\ pushPc = "ready"
  /\ pushPc' = "publish"
  /\ UNCHANGED <<data, ready, tail_, item, headSeen, tailSeen, popVars>>

\* Raise the slot's ready flag.
TryPushReady ==
  /\ pushPc = "ready"
  /\ ready' = [ready EXCEPT ![tail_] = TRUE]
  /\ pushPc' = "publish"
  /\ UNCHANGED <<data, tail_, item, headSeen, tailSeen, popVars>>

\* A mistake: the new tail is not masked.
TryPushPublishUnmasked ==
  /\ pushPc = "publish"
  /\ tail_' = tail_ + 1
  /\ pushPc' = "idle"
  /\ UNCHANGED <<data, ready, item, headSeen, tailSeen, popVars>>

\* Store the new tail and return true.
TryPushPublish ==
  /\ pushPc = "publish"
  /\ tail_' = Masked(tail_ + 1)
  /\ pushPc' = "idle"
  /\ UNCHANGED <<data, ready, item, headSeen, tailSeen, popVars>>

-----------------------------------------------------------------------------
(* try_pop *)

\* Load both indices; an empty queue makes try_pop return false.
TryPopCheckEmpty ==
  /\ popPc = "idle"
  /\ popPc' = IF head_ = tailSeen THEN "idle" ELSE "ready"
  /\ UNCHANGED <<data, ready, head_, taken, returned, headSeen, tailSeen, pushVars>>

\* Load the slot's flag; a slot that is not ready makes try_pop return false.
TryPopCheckReady ==
  /\ popPc = "ready"
  /\ popPc' = IF ready[head_] THEN "read" ELSE "idle"
  /\ UNCHANGED <<data, ready, head_, taken, returned, headSeen, tailSeen, pushVars>>

\* Copy the message out of the slot: a plain, non-atomic load.
TryPopRead ==
  /\ popPc = "read"
  /\ taken' = data[head_]
  /\ popPc' = "clear"
  /\ UNCHANGED <<data, ready, head_, returned, headSeen, tailSeen, pushVars>>

\* A mistake: the flag stays raised.
TryPopUncleared ==
  /\ popPc = "clear"
  /\ popPc' = "advance"
  /\ UNCHANGED <<data, ready, head_, taken, returned, headSeen, tailSeen, pushVars>>

\* Lower the slot's ready flag.
TryPopClear ==
  /\ popPc = "clear"
  /\ ready' = [ready EXCEPT ![head_] = FALSE]
  /\ popPc' = "advance"
  /\ UNCHANGED <<data, head_, taken, returned, headSeen, tailSeen, pushVars>>

\* A mistake: what was copied out is not handed over.
TryPopForgets ==
  /\ popPc = "advance"
  /\ head_' = Masked(head_ + 1)
  /\ popPc' = "idle"
  /\ UNCHANGED <<data, ready, taken, returned, headSeen, tailSeen, pushVars>>

\* Store the new head and return true.
TryPopAdvance ==
  /\ popPc = "advance"
  /\ head_' = Masked(head_ + 1)
  /\ returned' = taken
  /\ popPc' = "idle"
  /\ UNCHANGED <<data, ready, taken, headSeen, tailSeen, pushVars>>

-----------------------------------------------------------------------------
(* Release stores reaching the other thread *)

HeadVisible ==
  /\ headSeen # head_
  /\ headSeen' = head_
  /\ UNCHANGED <<data, ready, tailSeen, pushVars, popVars>>

TailVisible ==
  /\ tailSeen # tail_
  /\ tailSeen' = tail_
  /\ UNCHANGED <<data, ready, headSeen, pushVars, popVars>>

-----------------------------------------------------------------------------
TryPush == (\E m \in Msg : TryPushCheck(m)) \/ TryPushWrite \/ TryPushReady \/ TryPushPublish
TryPop == TryPopCheckEmpty \/ TryPopCheckReady \/ TryPopRead \/ TryPopClear \/ TryPopAdvance

Next == TryPush \/ TryPop \/ HeadVisible \/ TailVisible

Spec == Init /\ [][Next]_vars

(***************************************************************************)
(* Every consumer in the program polls its queue in a loop, a call once    *)
(* begun runs to its end (no step of it blocks), and a stored index        *)
(* reaches the other core in finite time.  Nothing says that the pusher    *)
(* ever calls again.                                                       *)
(***************************************************************************)
Fairness ==
  /\ WF_vars(TryPop)
  /\ WF_vars(TryPushWrite \/ TryPushReady \/ TryPushPublish)
  /\ WF_vars(HeadVisible)
  /\ WF_vars(TailVisible)

FairSpec == Spec /\ Fairness

-----------------------------------------------------------------------------
(* Properties *)

\* How far index b lies ahead of index a, going round the ring.
Dist(a, b) == IF b >= a THEN b - a ELSE b - a + Size

\* The slot d places after the head.
Slot(d) == Masked(head_ + d)

\* The number of messages in the queue.
Depth == Dist(head_, tail_)

\* Slot i holds a message that is published and not yet released.
Occupied(i) == Dist(head_, i) < Depth

\* Every variable stays in its range.
TypeOK ==
  /\ data     \in [Index -> Msg \union {NoMsg}]
  /\ ready    \in [Index -> BOOLEAN]
  /\ head_    \in Index /\ tail_ \in Index
  /\ headSeen \in Index /\ tailSeen \in Index
  /\ pushPc   \in {"idle", "write", "ready", "publish"}
  /\ popPc    \in {"idle", "ready", "read", "clear", "advance"}
  /\ item     \in Msg \union {NoMsg}
  /\ taken    \in Msg \union {NoMsg}
  /\ returned \in Msg \union {NoMsg}

\* try_push never copies into the slot that try_pop is copying out of: the
\* two plain accesses to buffer_[i].data are never concurrent, although each
\* thread may act on an old value of the other's index.
NoDataRace == ~ (pushPc = "write" /\ popPc = "read" /\ tail_ = head_)

\* The flags mirror the indices: once try_pop has found the queue non-empty,
\* the slot at the head is ready, so the "Data not ready yet" return is never
\* taken; and a slot outside the queue is never left ready.
ReadyIffPublished ==
  /\ popPc = "ready" => ready[head_]
  /\ \A i \in Index :
       ready[i] <=> \/ Occupied(i) /\ ~ (i = head_ /\ popPc = "advance")
                    \/ i = tail_ /\ pushPc = "publish"

\* Going round the ring from the head the pusher knows: first the head, then
\* the tail the popper knows, then the tail, and all within one lap.  A
\* thread's stale view of the other's index errs on the safe side.
Window ==
  Dist(headSeen, head_) + Dist(head_, tailSeen) + Dist(tailSeen, tail_)
    = Dist(headSeen, tail_)

\* While try_push is past its full check there is room for one message, by
\* the head the pusher knows; the slot it fills has its item and its flag as
\* soon as it has written them.
PushInProgress ==
  /\ pushPc # "idle" => Dist(headSeen, tail_) < capacity
  /\ pushPc \in {"ready", "publish"} => data[tail_] = item

\* While try_pop is past its empty check there is a message at the head, by
\* the tail the popper knows; what it has copied out is what the slot holds.
PopInProgress ==
  /\ popPc # "idle" => head_ # tailSeen
  /\ popPc \in {"clear", "advance"} => taken = data[head_]

\* The inductive invariant behind NoDataRace, ReadyIffPublished and
\* ImplementsFifo: each thread's progress through its call, related to where
\* the indices are and to which of them the other thread has seen.
IInv == TypeOK /\ Window /\ PushInProgress /\ PopInProgress /\ ReadyIffPublished

\* The queue's contents, oldest first: what the ring means to its clients.
Contents == [d \in 1 .. Depth |-> data[Slot(d - 1)]]

Fifo == INSTANCE BoundedFifo
          WITH Capacity <- capacity, q <- Contents, arg <- item,
               calling <- pushPc # "idle", out <- returned

\* The ring implements a bounded first-in first-out queue: no message is
\* lost, duplicated, reordered or altered between try_push and try_pop, a
\* try_push puts its message there once if it returns true and not at all if
\* it returns false, and never more than capacity() of them are held.
ImplementsFifo == Fifo!FifoSpec

Indices == INSTANCE RingIndices

\* A thread that looks only at the indices sees them go round one slot at a
\* time, the head never past the tail and the tail never up to the head.
ImplementsIndices == Indices!IndexSpec

\* A message in the queue does not stay there: a polling popper gets past
\* every slot the pusher has published.
EventuallyPopped == \A i \in Index : (head_ = i /\ tail_ # i) ~> (head_ # i)
=============================================================================
