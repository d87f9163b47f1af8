-------------------------- MODULE SpscQueue_proofs --------------------------
(***************************************************************************)
(* Proofs about SpscQueue for every ring size and every set of messages.   *)
(***************************************************************************)
EXTENDS SpscQueue, SequenceTheorems, TLAPS

\* Masked on the range the code applies it to, at most one lap too far, is
\* the wrap-around of the ring.
LEMMA MaskedIsWrap ==
  ASSUME NEW n \in 0 .. 2 * Size - 1
  PROVE  Masked(n) = IF n < Size THEN n ELSE n - Size
<1>1. CASE n < Size
  BY <1>1, SizeAssumption DEF Masked
<1>2. CASE n >= Size
  BY <1>2, SizeAssumption DEF Masked
<1>. QED  BY <1>1, <1>2, SizeAssumption

\* The sum of two indices, masked.
LEMMA IndexSum ==
  ASSUME NEW h \in Index, NEW d \in Index
  PROVE  Masked(h + d) = IF h + d < Size THEN h + d ELSE h + d - Size
<1>1. h + d \in 0 .. 2 * Size - 1
  BY SizeAssumption DEF Index
<1>. QED  BY <1>1, MaskedIsWrap, SizeAssumption DEF Index

\* The index after i, as try_push and try_pop compute it.
LEMMA NextIndex ==
  ASSUME NEW i \in Index
  PROVE  /\ Masked(i + 1) \in Index
         /\ Masked(i + 1) = IF i = Size - 1 THEN 0 ELSE i + 1
BY MaskedIsWrap, SizeAssumption DEF Index

\* The type invariant holds initially and every step preserves it.
LEMMA TypeOKStep == TypeOK /\ [Next]_vars => TypeOK'
<1>. SUFFICES ASSUME TypeOK, [Next]_vars PROVE TypeOK'
  OBVIOUS
<1>. USE DEF TypeOK, pushVars, popVars
<1>1. CASE \E m \in Msg : TryPushCheck(m)
  BY <1>1 DEF TryPushCheck
<1>2. CASE TryPushWrite
  BY <1>2 DEF TryPushWrite
<1>3. CASE TryPushReady
  BY <1>3 DEF TryPushReady
<1>4. CASE TryPushPublish
  BY <1>4, NextIndex DEF TryPushPublish
<1>5. CASE TryPopCheckEmpty
  BY <1>5 DEF TryPopCheckEmpty
<1>6. CASE TryPopCheckReady
  BY <1>6 DEF TryPopCheckReady
<1>7. CASE TryPopRead
  BY <1>7 DEF TryPopRead
<1>8. CASE TryPopClear
  BY <1>8 DEF TryPopClear
<1>9. CASE TryPopAdvance
  BY <1>9, NextIndex DEF TryPopAdvance
<1>10. CASE HeadVisible
  BY <1>10 DEF HeadVisible
<1>11. CASE TailVisible
  BY <1>11 DEF TailVisible
<1>12. CASE UNCHANGED vars
  BY <1>12 DEF vars
<1>. QED
  BY <1>1, <1>2, <1>3, <1>4, <1>5, <1>6, <1>7, <1>8, <1>9, <1>10, <1>11, <1>12
     DEF Next, TryPush, TryPop

\* In every behaviour of the queue each variable keeps to its range; in
\* particular an index never leaves the ring, so no slot access is out of
\* bounds.
THEOREM TypeCorrect == Spec => []TypeOK
<1>1. Init => TypeOK
  BY SizeAssumption DEF Init, TypeOK, Index
<1>. QED
  BY <1>1, TypeOKStep, PTL DEF Spec

\* The inductive invariant is preserved by every step of either thread and by
\* every arrival of an index.
LEMMA IInvStep == IInv /\ [Next]_vars => IInv'
<1>. SUFFICES ASSUME IInv, [Next]_vars PROVE IInv'
  OBVIOUS
<1>. USE SizeAssumption
<1>0. TypeOK /\ TypeOK'
  BY TypeOKStep DEF IInv
<1>1. ASSUME NEW m \in Msg, TryPushCheck(m) PROVE IInv'
  <2>. USE <1>0, <1>1 DEF TryPushCheck, popVars, TypeOK, Index
  <2>1. Masked(tail_ + 1) = IF tail_ = Size - 1 THEN 0 ELSE tail_ + 1
    BY NextIndex
  <2>2. PushInProgress'
    BY <2>1 DEF IInv, PushInProgress, Dist, capacity
  <2>3. Window' /\ PopInProgress' /\ ReadyIffPublished'
    BY DEF IInv, Window, PopInProgress, ReadyIffPublished, Occupied, Depth, Dist
  <2>. QED  BY <2>2, <2>3 DEF IInv
<1>2. CASE TryPushWrite
  <2>. USE <1>0, <1>2 DEF TryPushWrite, popVars, TypeOK, Index
  <2>1. PushInProgress'
    BY DEF IInv, PushInProgress, Dist, capacity
  <2>2. PopInProgress'
    <3>1. popPc # "idle" => head_ # tail_
      BY DEF IInv, PopInProgress, Window, Dist
    <3>. QED  BY <3>1 DEF IInv, PopInProgress
  <2>3. Window' /\ ReadyIffPublished'
    BY DEF IInv, Window, ReadyIffPublished, Occupied, Depth, Dist
  <2>. QED  BY <2>1, <2>2, <2>3 DEF IInv
<1>3. CASE TryPushReady
  <2>. USE <1>0, <1>3 DEF TryPushReady, popVars, TypeOK, Index
  <2>1. PushInProgress' /\ PopInProgress' /\ Window'
    BY DEF IInv, PushInProgress, PopInProgress, Window, Dist, capacity
  <2>2. ReadyIffPublished'
    BY DEF IInv, ReadyIffPublished, Occupied, Depth, Dist
  <2>. QED  BY <2>1, <2>2 DEF IInv
<1>4. CASE TryPushPublish
  <2>. USE <1>0, <1>4 DEF TryPushPublish, popVars, TypeOK, Index
  <2>1. tail_' = IF tail_ = Size - 1 THEN 0 ELSE tail_ + 1
    BY NextIndex
  <2>2. Window' /\ PushInProgress' /\ PopInProgress'
    BY <2>1 DEF IInv, Window, PushInProgress, PopInProgress, Dist, capacity
  <2>3. ReadyIffPublished'
    <3>1. Dist(head_, tail_) < Size - 1
      BY DEF IInv, Window, PushInProgress, Dist, capacity
    <3>2. popPc # "idle" => head_ # tail_
      BY DEF IInv, Window, PopInProgress, Dist
    <3>3. \A i \in Index : Occupied(i)' <=> Occupied(i) \/ i = tail_
      BY <2>1, <3>1 DEF Occupied, Depth, Dist
    <3>. QED
      BY <3>2, <3>3 DEF IInv, ReadyIffPublished
  <2>. QED  BY <2>2, <2>3 DEF IInv
<1>5. CASE TryPopCheckEmpty
  <2>. USE <1>0, <1>5 DEF TryPopCheckEmpty, pushVars, TypeOK, Index
  <2>1. Window' /\ PushInProgress' /\ PopInProgress'
    BY DEF IInv, Window, PushInProgress, PopInProgress, Dist, capacity
  <2>2. ReadyIffPublished'
    <3>1. head_ # tailSeen => Occupied(head_)
      BY DEF IInv, Window, Occupied, Depth, Dist
    <3>. QED
      BY <3>1 DEF IInv, ReadyIffPublished, Occupied, Depth, Dist
  <2>. QED  BY <2>1, <2>2 DEF IInv
<1>6. CASE TryPopCheckReady
  BY <1>0, <1>6 DEF IInv, TryPopCheckReady, pushVars, TypeOK, Window, PushInProgress,
     PopInProgress, ReadyIffPublished, Occupied, Depth, Dist
<1>7. CASE TryPopRead
  BY <1>0, <1>7 DEF IInv, TryPopRead, pushVars, TypeOK, Window, PushInProgress,
     PopInProgress, ReadyIffPublished, Occupied, Depth, Dist
<1>8. CASE TryPopClear
  <2>. USE <1>0, <1>8 DEF TryPopClear, pushVars, TypeOK, Index
  <2>1. Window' /\ PushInProgress' /\ PopInProgress'
    BY DEF IInv, Window, PushInProgress, PopInProgress, Dist, capacity
  <2>2. ReadyIffPublished'
    <3>1. head_ # tail_
      BY DEF IInv, Window, PopInProgress, Dist
    <3>. QED
      BY <3>1 DEF IInv, ReadyIffPublished, Occupied, Depth, Dist
  <2>. QED  BY <2>1, <2>2 DEF IInv
<1>9. CASE TryPopAdvance
  <2>. USE <1>0, <1>9 DEF TryPopAdvance, pushVars, TypeOK, Index
  <2>1. head_' = IF head_ = Size - 1 THEN 0 ELSE head_ + 1
    BY NextIndex
  <2>2. Window' /\ PushInProgress' /\ PopInProgress'
    BY <2>1 DEF IInv, Window, PushInProgress, PopInProgress, Dist, capacity
  <2>3. ReadyIffPublished'
    <3>1. head_ # tail_
      BY DEF IInv, Window, PopInProgress, Dist
    <3>. QED
      BY <2>1, <3>1 DEF IInv, ReadyIffPublished, Occupied, Depth, Dist
  <2>. QED  BY <2>2, <2>3 DEF IInv
<1>10. CASE HeadVisible
  BY <1>0, <1>10 DEF IInv, HeadVisible, pushVars, popVars, TypeOK, Index, Window, PushInProgress,
     PopInProgress, ReadyIffPublished, Occupied, Depth, Dist, capacity
<1>11. CASE TailVisible
  BY <1>0, <1>11 DEF IInv, TailVisible, pushVars, popVars, TypeOK, Index, Window, PushInProgress,
     PopInProgress, ReadyIffPublished, Occupied, Depth, Dist, capacity
<1>12. CASE UNCHANGED vars
  BY <1>0, <1>12 DEF IInv, vars, pushVars, popVars, TypeOK, Window, PushInProgress,
     PopInProgress, ReadyIffPublished, Occupied, Depth, Dist
<1>. QED
  BY <1>1, <1>2, <1>3, <1>4, <1>5, <1>6, <1>7, <1>8, <1>9, <1>10, <1>11, <1>12
     DEF Next, TryPush, TryPop

\* The inductive invariant holds in every reachable state.
THEOREM InductiveInvariant == Spec => []IInv
<1>1. Init => IInv
  BY SizeAssumption DEF Init, IInv, TypeOK, Index, Window, PushInProgress, PopInProgress,
     ReadyIffPublished, Occupied, Depth, Dist
<1>. QED
  BY <1>1, IInvStep, PTL DEF Spec

\* No try_push ever writes the slot a try_pop is reading, whatever the ring
\* size and however late the indices become visible.
THEOREM DataRaceFreedom == Spec => []NoDataRace
<1>1. IInv => NoDataRace
  BY SizeAssumption DEF IInv, TypeOK, Index, Window, PopInProgress, NoDataRace, Dist
<1>. QED
  BY <1>1, InductiveInvariant, PTL

\* The ready flags say exactly what the indices say, so the ready check of
\* try_pop never fails.
THEOREM ReadyFlagsAgree == Spec => []ReadyIffPublished
<1>1. IInv => ReadyIffPublished
  BY DEF IInv
<1>. QED
  BY <1>1, InductiveInvariant, PTL

-----------------------------------------------------------------------------
(* The ring implements BoundedFifo *)

\* The slots of the queue's messages: all inside the ring, and none of them
\* the one try_push fills next.
LEMMA SlotFacts ==
  ASSUME TypeOK, NEW d \in 0 .. Size - 1
  PROVE  /\ Slot(d) \in Index
         /\ Slot(d) = IF head_ + d < Size THEN head_ + d ELSE head_ + d - Size
         /\ d < Depth => Slot(d) # tail_
<1>1. Slot(d) = IF head_ + d < Size THEN head_ + d ELSE head_ + d - Size
  BY IndexSum DEF Slot, TypeOK, Index
<1>. QED
  BY <1>1, SizeAssumption DEF TypeOK, Index, Depth, Dist

\* The depth is a number that leaves one slot free.
LEMMA DepthRange == TypeOK => Depth \in 0 .. Size - 1
BY SizeAssumption DEF TypeOK, Index, Depth, Dist

\* Contents is a sequence of Depth messages.
LEMMA ContentsIsSeq ==
  ASSUME TypeOK
  PROVE  Contents \in Seq(Msg \union {NoMsg}) /\ Len(Contents) = Depth
<1>1. \A d \in 1 .. Depth : Slot(d - 1) \in Index
  <2>. TAKE d \in 1 .. Depth
  <2>1. d - 1 \in 0 .. Size - 1
    BY DepthRange, SizeAssumption
  <2>. QED  BY <2>1, SlotFacts
<1>2. Contents \in [1 .. Depth -> Msg \union {NoMsg}]
  BY <1>1 DEF Contents, TypeOK
<1>. QED
  BY <1>2, DepthRange, SizeAssumption

\* A step that moves neither index and writes no slot of the queue leaves the
\* contents as they are.
LEMMA ContentsFrame ==
  ASSUME TypeOK, UNCHANGED <<head_, tail_>>,
         \A i \in Index : i # tail_ => data'[i] = data[i]
  PROVE  Contents' = Contents
<1>1. Depth' = Depth
  BY DEF Depth, Dist
<1>2. \A d \in 1 .. Depth : data'[Slot(d - 1)'] = data[Slot(d - 1)]
  <2>. TAKE d \in 1 .. Depth
  <2>1. d - 1 \in 0 .. Size - 1 /\ d - 1 < Depth
    BY DepthRange, SizeAssumption
  <2>2. Slot(d - 1) \in Index /\ Slot(d - 1) # tail_
    BY <2>1, SlotFacts
  <2>3. Slot(d - 1)' = Slot(d - 1)
    BY DEF Slot, Masked
  <2>. QED  BY <2>2, <2>3
<1>. QED  BY <1>1, <1>2 DEF Contents

\* Publishing the tail is BoundedFifo's Push.
LEMMA PublishIsPush ==
  ASSUME IInv, TryPushPublish
  PROVE  Fifo!Push
<1>. USE SizeAssumption DEF popVars
<1>1. TypeOK /\ TypeOK'
  BY TypeOKStep DEF IInv, Next, TryPush
<1>2. tail_' = IF tail_ = Size - 1 THEN 0 ELSE tail_ + 1
  BY <1>1, NextIndex DEF TryPushPublish, TypeOK
<1>3. Depth < capacity
  BY <1>1 DEF IInv, TryPushPublish, TypeOK, Index, Window, PushInProgress, Depth, Dist, capacity
<1>4. Depth' = Depth + 1
  BY <1>1, <1>2, <1>3 DEF TryPushPublish, TypeOK, Index, Depth, Dist, capacity
<1>5. data[tail_] = item
  BY DEF IInv, PushInProgress, TryPushPublish
<1>6. Slot(Depth) = tail_
  <2>1. Slot(Depth) = IF head_ + Depth < Size THEN head_ + Depth ELSE head_ + Depth - Size
    BY <1>1, SlotFacts, DepthRange
  <2>. QED  BY <1>1, <2>1 DEF TypeOK, Index, Depth, Dist
<1>7. Contents' = Append(Contents, item)
  <2>. DEFINE M == Msg \union {NoMsg}
  <2>1. Depth \in 0 .. Size - 2 /\ item \in M
    BY <1>1, <1>3, DepthRange DEF capacity, TypeOK
  <2>2. Contents' = [d \in 1 .. Depth + 1 |-> data[Slot(d - 1)]]
    BY <1>4 DEF Contents, Slot, Masked, TryPushPublish
  <2>3. Contents \in Seq(M) /\ Len(Contents) = Depth
    BY <1>1, ContentsIsSeq
  <2>4. ASSUME NEW d \in 1 .. Depth + 1
        PROVE  data[Slot(d - 1)] = Append(Contents, item)[d]
    <3>1. CASE d = Depth + 1
      BY <1>5, <1>6, <2>1, <2>3, <3>1, AppendProperties
    <3>2. CASE d \in 1 .. Depth
      <4>1. Append(Contents, item)[d] = Contents[d]
        BY <2>1, <2>3, <3>2, AppendProperties
      <4>. QED  BY <3>2, <4>1 DEF Contents
    <3>3. d = Depth + 1 \/ d \in 1 .. Depth
      BY <2>1
    <3>. QED  BY <3>1, <3>2, <3>3
  <2>5. Append(Contents, item) \in [1 .. Depth + 1 -> M]
    <3>1. Append(Contents, item) \in Seq(M) /\ Len(Append(Contents, item)) = Depth + 1
      BY <2>1, <2>3, AppendProperties
    <3>. QED  BY <3>1, LenProperties
  <2>. QED  BY <2>2, <2>4, <2>5
<1>. QED
  BY <1>1, <1>3, <1>7, ContentsIsSeq DEF Fifo!Push, TryPushPublish

\* Advancing the head is BoundedFifo's Pop.
LEMMA AdvanceIsPop ==
  ASSUME IInv, TryPopAdvance
  PROVE  Fifo!Pop
<1>. USE SizeAssumption DEF pushVars
<1>1. TypeOK /\ TypeOK'
  BY TypeOKStep DEF IInv, Next, TryPop
<1>2. head_' = IF head_ = Size - 1 THEN 0 ELSE head_ + 1
  BY <1>1, NextIndex DEF TryPopAdvance, TypeOK
<1>3. Depth > 0
  BY <1>1 DEF IInv, TryPopAdvance, TypeOK, Index, Window, PopInProgress, Depth, Dist
<1>4. Depth' = Depth - 1
  BY <1>1, <1>2, <1>3 DEF TryPopAdvance, TypeOK, Index, Depth, Dist
<1>5. taken = data[head_]
  BY DEF IInv, PopInProgress, TryPopAdvance
<1>6. Slot(0) = head_
  BY <1>1, SlotFacts DEF TypeOK, Index
<1>7. ASSUME NEW e \in 0 .. Size - 2
      PROVE  Slot(e)' = Slot(e + 1)
  <2>1. Slot(e + 1) = IF head_ + (e + 1) < Size THEN head_ + (e + 1) ELSE head_ + (e + 1) - Size
    BY <1>1, SlotFacts
  <2>2. head_' \in Index /\ e \in Index
    BY <1>1 DEF TypeOK, Index
  <2>3. Masked(head_' + e) = IF head_' + e < Size THEN head_' + e ELSE head_' + e - Size
    BY <2>2, IndexSum
  <2>. QED  BY <1>1, <1>2, <2>1, <2>3 DEF Slot, Masked, TypeOK, Index
<1>8. Contents' = Tail(Contents)
  <2>. DEFINE M == Msg \union {NoMsg}
  <2>1. Depth \in 1 .. Size - 1
    BY <1>1, <1>3, DepthRange
  <2>2. Contents' = [d \in 1 .. Depth - 1 |-> data[Slot(d)]]
    <3>1. \A d \in 1 .. Depth - 1 : Slot(d - 1)' = Slot(d)
      <4>. TAKE d \in 1 .. Depth - 1
      <4>1. d - 1 \in 0 .. Size - 2 /\ (d - 1) + 1 = d
        BY <2>1
      <4>. QED  BY <4>1, <1>7
    <3>. QED  BY <1>4, <3>1 DEF Contents, TryPopAdvance
  <2>3. Contents \in Seq(M) /\ Len(Contents) = Depth
    BY <1>1, ContentsIsSeq
  <2>4. Contents # <<>>
    BY <2>1, <2>3
  <2>5. Tail(Contents) \in Seq(M) /\ Len(Tail(Contents)) = Depth - 1
    BY <2>3, <2>4, HeadTailProperties
  <2>6. ASSUME NEW d \in 1 .. Depth - 1
        PROVE  data[Slot(d)] = Tail(Contents)[d]
    <3>1. Tail(Contents)[d] = Contents[d + 1]
      BY <2>3, <2>4, <2>5, HeadTailProperties
    <3>2. d + 1 \in 1 .. Depth /\ (d + 1) - 1 = d
      BY <2>1
    <3>. QED  BY <3>1, <3>2 DEF Contents
  <2>7. Tail(Contents) \in [1 .. Depth - 1 -> M]
    BY <2>5, LenProperties
  <2>. QED  BY <2>2, <2>6, <2>7
<1>9. Head(Contents) = data[head_] /\ Contents # <<>>
  <2>1. Contents[1] = data[Slot(0)]
    BY <1>1, <1>3, DepthRange DEF Contents
  <2>. QED  BY <1>1, <1>3, <1>6, <2>1, ContentsIsSeq
<1>. QED
  BY <1>5, <1>8, <1>9 DEF Fifo!Pop, TryPopAdvance

\* Every step of the ring is a step of the abstract queue or leaves it alone.
LEMMA RingStepIsFifoStep == IInv /\ [Next]_vars => [Fifo!FifoNext]_(Fifo!fifoVars)
<1>. SUFFICES ASSUME IInv, [Next]_vars
              PROVE  [Fifo!FifoNext]_(Fifo!fifoVars)
  OBVIOUS
<1>. USE DEF Fifo!FifoNext, Fifo!fifoVars, pushVars, popVars
<1>0. TypeOK
  BY DEF IInv
<1>1. ASSUME NEW m \in Msg, TryPushCheck(m) PROVE Fifo!Call(m) \/ Fifo!Refuse(m)
  <2>1. Contents' = Contents
    BY <1>0, <1>1, ContentsFrame DEF TryPushCheck
  <2>. QED  BY <1>1, <2>1 DEF Fifo!Call, Fifo!Refuse, TryPushCheck
<1>2. CASE TryPushWrite
  <2>1. \A i \in Index : i # tail_ => data'[i] = data[i]
    BY <1>0, <1>2 DEF TryPushWrite, TypeOK
  <2>2. Contents' = Contents
    BY <1>0, <1>2, <2>1, ContentsFrame DEF TryPushWrite
  <2>. QED  BY <1>2, <2>2 DEF TryPushWrite
<1>3. CASE TryPushReady
  <2>1. Contents' = Contents
    BY <1>0, <1>3, ContentsFrame DEF TryPushReady
  <2>. QED  BY <1>3, <2>1 DEF TryPushReady
<1>4. CASE TryPushPublish
  BY <1>4, PublishIsPush
<1>5. CASE TryPopCheckEmpty \/ TryPopCheckReady \/ TryPopRead \/ TryPopClear
  <2>1. Contents' = Contents
    BY <1>0, <1>5, ContentsFrame
       DEF TryPopCheckEmpty, TryPopCheckReady, TryPopRead, TryPopClear
  <2>. QED
    BY <1>5, <2>1 DEF TryPopCheckEmpty, TryPopCheckReady, TryPopRead, TryPopClear
<1>6. CASE TryPopAdvance
  BY <1>6, AdvanceIsPop
<1>7. CASE HeadVisible \/ TailVisible
  <2>1. Contents' = Contents
    BY <1>0, <1>7, ContentsFrame DEF HeadVisible, TailVisible
  <2>. QED  BY <1>7, <2>1 DEF HeadVisible, TailVisible
<1>8. CASE UNCHANGED vars
  <2>1. Contents' = Contents
    BY <1>0, <1>8, ContentsFrame DEF vars
  <2>. QED  BY <1>8, <2>1 DEF vars
<1>. QED
  BY <1>1, <1>2, <1>3, <1>4, <1>5, <1>6, <1>7, <1>8 DEF Next, TryPush, TryPop

\* The ring of slots implements the bounded first-in first-out queue, for
\* every size and every set of messages.
THEOREM RingImplementsFifo == Spec => ImplementsFifo
<1>1. Init => Fifo!FifoInit
  <2>. SUFFICES ASSUME Init PROVE Fifo!FifoInit
    OBVIOUS
  <2>1. TypeOK /\ Depth = 0
    BY SizeAssumption DEF Init, TypeOK, Index, Depth, Dist
  <2>2. Contents = <<>>
    BY <2>1, ContentsIsSeq
  <2>. QED  BY <2>2 DEF Fifo!FifoInit, Init
<1>. QED
  BY <1>1, RingStepIsFifoStep, InductiveInvariant, PTL
     DEF Spec, ImplementsFifo, Fifo!FifoSpec

\* Every step moves at most one index, by one slot, and never past the other.
LEMMA RingStepIsIndexStep ==
  IInv /\ [Next]_vars => [Indices!PushIndex \/ Indices!PopIndex]_(Indices!indices)
<1>. SUFFICES ASSUME IInv, [Next]_vars
              PROVE  [Indices!PushIndex \/ Indices!PopIndex]_(Indices!indices)
  OBVIOUS
<1>. USE DEF Indices!indices, pushVars, popVars
<1>0. TypeOK
  BY DEF IInv
<1>1. CASE TryPushPublish
  <2>. USE SizeAssumption, <1>0, <1>1 DEF TryPushPublish, TypeOK, Index
  <2>1. Masked(tail_ + 1) = IF tail_ = Size - 1 THEN 0 ELSE tail_ + 1
    BY NextIndex
  <2>2. Dist(head_, tail_) < Size - 1
    BY DEF IInv, Window, PushInProgress, Dist, capacity
  <2>3. Masked(tail_ + 1) # head_
    BY <2>1, <2>2 DEF Dist
  <2>. QED  BY <2>3 DEF Indices!PushIndex, Masked
<1>2. CASE TryPopAdvance
  <2>. USE SizeAssumption, <1>0, <1>2 DEF TryPopAdvance, TypeOK, Index
  <2>1. head_ # tail_
    BY DEF IInv, Window, PopInProgress, Dist
  <2>. QED  BY <2>1 DEF Indices!PopIndex, Masked
<1>3. CASE UNCHANGED <<head_, tail_>>
  BY <1>3
<1>. QED
  BY <1>1, <1>2, <1>3
     DEF Next, TryPush, TryPop, vars, TryPushCheck, TryPushWrite, TryPushReady,
         TryPopCheckEmpty, TryPopCheckReady, TryPopRead, TryPopClear,
         HeadVisible, TailVisible

\* Whoever looks only at the indices sees two counters that go round the ring
\* without overtaking each other, for every ring size.
THEOREM RingImplementsIndices == Spec => ImplementsIndices
<1>1. Init => Indices!IndexInit
  BY DEF Init, Indices!IndexInit
<1>. QED
  BY <1>1, RingStepIsIndexStep, InductiveInvariant, PTL
     DEF Spec, ImplementsIndices, Indices!IndexSpec
=============================================================================
