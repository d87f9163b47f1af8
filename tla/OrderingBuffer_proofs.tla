------------------------ MODULE OrderingBuffer_proofs ------------------------
(***************************************************************************)
(* The safety properties of OrderingBuffer, for every set of keys, every   *)
(* range of sequence numbers and every capacity of the output queue.       *)
(***************************************************************************)
EXTENDS OrderingBuffer, FiniteSetTheorems, SequenceTheorems, TLAPS

\* Whatever has been tried, with or without success, is behind the number
\* expected next for its key.
TriedIsBehind ==
  /\ \A i \in DOMAIN pushed : pushed[i].sequence_number < expected_sequence_[pushed[i].key]
  /\ \A m \in failed : m.sequence_number < expected_sequence_[m.key]

\* Nothing is both pushed and failed.
FailedIsNotPushed == \A m \in failed : \A i \in DOMAIN pushed : pushed[i] # m

BufferInv ==
  /\ TypeOK /\ NothingBuffered /\ OutputInOrder
  /\ TriedIsBehind /\ FailedIsNotPushed
  /\ IsFiniteSet(failed) /\ SentCountsAttempts

-----------------------------------------------------------------------------
\* With nothing kept back there is nothing to put in order.
LEMMA NothingInOrder == InOrder({}) = <<>> /\ SetToSeqs({}) = {<<>>}
<1>1. Cardinality({}) = 0
  BY FS_EmptySet
<1>2. SetToSeqs({}) = {<<>>}
  <2>1. \A f \in [1 .. 0 -> {}] : f = <<>>
    <3>. TAKE f \in [1 .. 0 -> {}]
    <3>1. f \in Seq({}) /\ Len(f) = 0
      OBVIOUS
    <3>. QED  BY <3>1
  <2>3. <<>> \in [1 .. 0 -> {}]
    OBVIOUS
  <2>2. SetToSeqs({}) = {f \in [1 .. 0 -> {}] : \A i, j \in 1 .. 0 : i # j => f[i] # f[j]}
    BY <1>1, Zenon DEF SetToSeqs
  <2>. QED  BY <2>1, <2>2, <2>3
<1>. QED  BY <1>2 DEF InOrder

\* try_push of one message: it enters the queue and the history, or it fails.
LEMMA PushOne ==
  ASSUME TypeOK, NEW m \in Message, TryPushAll(<<m>>)
  PROVE  \/ /\ Len(output_queue) < Capacity
            /\ output_queue' = Append(output_queue, m)
            /\ pushed' = Append(pushed, m)
            /\ failed' = failed
         \/ /\ output_queue' = output_queue
            /\ pushed' = pushed
            /\ failed' = failed \union {m}
<1>. USE OrderingBufferAssumption
<1>. DEFINE s == <<m>>
<1>0. /\ s \in Seq(Message) /\ Len(s) = 1 /\ s[1] = m
      /\ output_queue \in Seq(Message) /\ pushed \in Seq(Message)
      /\ Len(output_queue) \in 0 .. Capacity
  BY DEF TypeOK
<1>1. CASE Len(output_queue) < Capacity
  <2>1. SubSeq(s, 1, 1) = s
    BY <1>0, SubSeqFull
  <2>2. Len(s) <= Capacity - Len(output_queue)
    BY <1>0, <1>1
  <2>3. {s[i] : i \in 1 + 1 .. 1} = {}
    OBVIOUS
  <2>4. /\ output_queue' = output_queue \o s
        /\ pushed' = pushed \o s
        /\ failed' = failed \union {}
    BY <1>0, <2>1, <2>2, <2>3 DEF TryPushAll
  <2>5. output_queue \o s = Append(output_queue, m) /\ pushed \o s = Append(pushed, m)
    BY <1>0
  <2>. QED  BY <1>1, <2>4, <2>5
<1>2. CASE Len(output_queue) = Capacity
  <2>1. SubSeq(s, 1, 0) = << >>
    BY <1>0
  <2>2. ~ (Len(s) <= Capacity - Len(output_queue)) /\ Capacity - Len(output_queue) = 0
    BY <1>0, <1>2
  <2>3. {s[i] : i \in 0 + 1 .. 1} = {m}
    BY <1>0
  <2>4. /\ output_queue' = output_queue \o << >>
        /\ pushed' = pushed \o << >>
        /\ failed' = failed \union {m}
    BY <1>0, <2>1, <2>2, <2>3 DEF TryPushAll
  <2>5. output_queue \o << >> = output_queue /\ pushed \o << >> = pushed
    BY <1>0
  <2>. QED  BY <2>4, <2>5
<1>. QED  BY <1>0, <1>1, <1>2

\* try_push of no message.
LEMMA PushNone ==
  ASSUME TypeOK, TryPushAll(<< >>)
  PROVE  UNCHANGED <<output_queue, pushed, failed>>
<1>. USE OrderingBufferAssumption
<1>. DEFINE s == << >>
<1>0. /\ output_queue \in Seq(Message) /\ pushed \in Seq(Message)
      /\ Len(output_queue) \in 0 .. Capacity /\ Len(s) = 0
  BY DEF TypeOK
<1>1. SubSeq(s, 1, 0) = << >> /\ {s[i] : i \in 0 + 1 .. 0} = {}
  OBVIOUS
<1>2. /\ output_queue' = output_queue \o << >>
      /\ pushed' = pushed \o << >>
      /\ failed' = failed \union {}
  BY <1>0, <1>1 DEF TryPushAll
<1>. QED  BY <1>0, <1>2

\* What the three branches of add_message that try to push have in common.
Tries(m) ==
  /\ expected_sequence_[m.key] <= m.sequence_number
  /\ expected_sequence_' = [expected_sequence_ EXCEPT ![m.key] = m.sequence_number + 1]
  /\ messages_sent_' = messages_sent_ + 1
  /\ TryPushAll(<<m>>)
  /\ UNCHANGED <<buffers_, messages_buffered_>>

\* With nothing kept back, add_message either tries exactly its message or
\* drops it.
LEMMA AddTries ==
  ASSUME BufferInv, NEW m \in Message, add_message(m)
  PROVE  Tries(m) \/ UNCHANGED vars
<1>0. /\ m.key \in Key /\ m.sequence_number \in 1 .. MaxSequence
      /\ buffers_ \in [Key -> SUBSET Message] /\ buffers_[m.key] = {}
      /\ expected_sequence_ \in [Key -> 0 .. MaxSequence + 1]
      /\ messages_sent_ \in Nat /\ messages_buffered_ = 0
  BY DEF BufferInv, TypeOK, NothingBuffered, Message
<1>1. CASE AddFirst(m)
  BY <1>0, <1>1 DEF AddFirst, Tries
<1>2. CASE AddExpected(m)
  <2>. DEFINE next == SendNext(m.key, m.sequence_number + 1, Capacity - Len(output_queue) - 1)
  <2>1. next = {}
    BY <1>0 DEF SendNext
  <2>2. Cardinality(next) = 0
    BY <2>1, FS_EmptySet
  <2>3. /\ expected_sequence_[m.key] = m.sequence_number
        /\ expected_sequence_' = [expected_sequence_ EXCEPT
                                    ![m.key] = m.sequence_number + 1 + Cardinality(next)]
        /\ messages_sent_' = messages_sent_ + 1 + Cardinality(next)
        /\ messages_buffered_' = messages_buffered_ - Cardinality(next)
        /\ buffers_' = [buffers_ EXCEPT ![m.key] = @ \ next]
        /\ TryPushAll(<<m>> \o InOrder(next))
    BY <1>2, Zenon DEF AddExpected
  <2>. HIDE DEF next
  <2>4. <<m>> \o InOrder(next) = <<m>>
    <3>1. <<m>> \in Seq(Message) /\ InOrder(next) = << >>
      BY <2>1, NothingInOrder
    <3>2. <<m>> \o << >> = <<m>>
      BY ConcatEmptySeq, <3>1
    <3>. QED  BY ONLY <3>1, <3>2, Zenon
  <2>5. TryPushAll(<<m>>)
    BY ONLY <2>3, <2>4, Zenon
  <2>6. buffers_' = buffers_
    BY <1>0, <2>1, <2>3
  <2>7. m.sequence_number + 1 + Cardinality(next) = m.sequence_number + 1
    BY <1>0, <2>2
  <2>8. expected_sequence_' = [expected_sequence_ EXCEPT ![m.key] = m.sequence_number + 1]
    BY <2>3, <2>7
  <2>9. messages_sent_' = messages_sent_ + 1 /\ messages_buffered_' = messages_buffered_
    BY <1>0, <2>2, <2>3
  <2>10. expected_sequence_[m.key] <= m.sequence_number
    BY <1>0, <2>3
  <2>. QED  BY ONLY <2>5, <2>6, <2>8, <2>9, <2>10 DEF Tries
<1>3. CASE AddAhead(m)
  BY <1>0, <1>3 DEF AddAhead, Tries
<1>4. CASE AddLate(m)
  BY <1>4 DEF AddLate
<1>. QED  BY <1>1, <1>2, <1>3, <1>4 DEF add_message

\* With nothing kept back, flush_all changes nothing.
LEMMA FlushIsIdle ==
  ASSUME BufferInv, flush_all
  PROVE  UNCHANGED vars
<1>. DEFINE all == UNION {buffers_[k] : k \in Key}
<1>0. /\ buffers_ \in [Key -> SUBSET Message] /\ \A k \in Key : buffers_[k] = {}
      /\ messages_sent_ \in Nat /\ messages_buffered_ = 0 /\ TypeOK
  BY DEF BufferInv, TypeOK, NothingBuffered
<1>1. all = {}
  BY <1>0
<1>2. Cardinality(all) = 0
  BY <1>1, FS_EmptySet
<1>3. /\ \E s \in [1 .. Cardinality(all) -> all] : TryPushAll(s)
      /\ messages_sent_' = messages_sent_ + Cardinality(all)
      /\ buffers_' = [k \in Key |-> {}]
      /\ messages_buffered_' = 0
      /\ UNCHANGED expected_sequence_
  BY Zenon DEF flush_all
<1>. HIDE DEF all
<1>4. PICK s \in [1 .. 0 -> {}] : TryPushAll(s)
  BY <1>1, <1>2, <1>3
<1>5. s = << >>
  <2>1. s \in Seq({}) /\ Len(s) = 0
    OBVIOUS
  <2>. QED  BY <2>1
<1>6. TryPushAll(<< >>)
  BY ONLY <1>4, <1>5, Zenon
<1>7. UNCHANGED <<output_queue, pushed, failed>>
  BY <1>0, <1>6, PushNone
<1>8. buffers_' = buffers_
  BY <1>0, <1>3
<1>9. messages_sent_' = messages_sent_
  BY <1>0, <1>2, <1>3
<1>. QED  BY <1>0, <1>3, <1>7, <1>8, <1>9 DEF vars, counters

\* An attempt moves the expected number past everything tried, so whatever
\* becomes of it nothing already tried can be tried again.
LEMMA TryKeeps ==
  ASSUME BufferInv, NEW m \in Message, Tries(m)
  PROVE  BufferInv'
<1>0. /\ m.key \in Key /\ m.sequence_number \in 1 .. MaxSequence
      /\ expected_sequence_ \in [Key -> 0 .. MaxSequence + 1]
      /\ messages_sent_ \in Nat
      /\ output_queue \in Seq(Message) /\ Len(output_queue) \in 0 .. Capacity
      /\ pushed \in Seq(Message) /\ failed \subseteq Message
      /\ IsFiniteSet(failed)
      /\ messages_sent_ = Len(pushed) + Cardinality(failed)
      /\ TypeOK
  BY DEF BufferInv, TypeOK, Message, SentCountsAttempts
<1>1. /\ expected_sequence_' \in [Key -> 0 .. MaxSequence + 1]
      /\ expected_sequence_'[m.key] = m.sequence_number + 1
      /\ \A k \in Key : expected_sequence_[k] <= expected_sequence_'[k]
      /\ expected_sequence_[m.key] <= m.sequence_number
  BY <1>0, OrderingBufferAssumption DEF Tries
<1>2. /\ \A i \in DOMAIN pushed :
            /\ pushed[i] \in Message /\ pushed[i].key \in Key
            /\ pushed[i].sequence_number \in Nat
            /\ pushed[i].sequence_number < expected_sequence_[pushed[i].key]
            /\ pushed[i] # m
      /\ \A x \in failed :
            /\ x.key \in Key /\ x.sequence_number \in Nat
            /\ x.sequence_number < expected_sequence_[x.key]
            /\ x # m
  <2>1. \A i \in DOMAIN pushed : pushed[i] \in Message
    BY <1>0
  <2>2. \A x \in Message : x.key \in Key /\ x.sequence_number \in Nat
    BY DEF Message
  <2>3. \A x \in Message : x.sequence_number < expected_sequence_[x.key] => x # m
    BY <1>0, <1>1
  <2>. QED  BY <1>0, <2>1, <2>2, <2>3 DEF BufferInv, TriedIsBehind
<1>3. /\ buffers_' = buffers_ /\ messages_buffered_' = messages_buffered_
      /\ messages_sent_' = messages_sent_ + 1
  BY DEF Tries
<1>4. NothingBuffered'
  BY <1>3 DEF BufferInv, NothingBuffered
<1>5. CASE /\ Len(output_queue) < Capacity
           /\ output_queue' = Append(output_queue, m)
           /\ pushed' = Append(pushed, m)
           /\ failed' = failed
  <2>0. /\ Len(pushed') = Len(pushed) + 1 /\ DOMAIN pushed = 1 .. Len(pushed)
        /\ DOMAIN pushed' = 1 .. Len(pushed) + 1
        /\ pushed'[Len(pushed) + 1] = m
        /\ \A i \in DOMAIN pushed : pushed'[i] = pushed[i]
        /\ Len(pushed) \in Nat
        /\ pushed' \in Seq(Message)
        /\ output_queue' \in Seq(Message) /\ Len(output_queue') = Len(output_queue) + 1
    BY <1>0, <1>5
  <2>1. \A i \in DOMAIN pushed' : i = Len(pushed) + 1 \/ i \in DOMAIN pushed
    BY <2>0
  <2>2. TypeOK'
    BY <1>0, <1>1, <1>3, <1>5, <2>0, OrderingBufferAssumption DEF TypeOK
  <2>3. OutputInOrder'
    <3>. SUFFICES ASSUME NEW i \in DOMAIN pushed', NEW j \in DOMAIN pushed',
                         i < j, pushed'[i].key = pushed'[j].key
                  PROVE  pushed'[i].sequence_number < pushed'[j].sequence_number
      BY DEF OutputInOrder
    <3>1. i \in DOMAIN pushed
      BY <2>0
    <3>2. CASE j \in DOMAIN pushed
      BY <2>0, <3>1, <3>2 DEF BufferInv, OutputInOrder
    <3>3. CASE j = Len(pushed) + 1
      <4>1. pushed'[i] = pushed[i] /\ pushed'[j] = m
        BY <2>0, <3>1, <3>3
      <4>2. pushed[i].sequence_number < expected_sequence_[m.key]
        BY <1>2, <3>1, <4>1
      <4>. QED  BY <1>0, <1>1, <1>2, <3>1, <4>1, <4>2
    <3>. QED  BY <2>1, <3>2, <3>3
  <2>4. TriedIsBehind'
    <3>1. ASSUME NEW i \in DOMAIN pushed'
          PROVE  pushed'[i].sequence_number < expected_sequence_'[pushed'[i].key]
      <4>1. CASE i \in DOMAIN pushed
        BY <1>0, <1>1, <1>2, <2>0, <4>1
      <4>2. CASE i = Len(pushed) + 1
        BY <1>0, <1>1, <2>0, <4>2
      <4>. QED  BY <2>1, <4>1, <4>2
    <3>2. ASSUME NEW x \in failed'
          PROVE  x.sequence_number < expected_sequence_'[x.key]
      BY <1>0, <1>1, <1>2, <1>5
    <3>. QED  BY <3>1, <3>2 DEF TriedIsBehind
  <2>5. FailedIsNotPushed'
    <3>. SUFFICES ASSUME NEW x \in failed, NEW i \in DOMAIN pushed'  PROVE  pushed'[i] # x
      BY <1>5 DEF FailedIsNotPushed
    <3>1. CASE i \in DOMAIN pushed
      BY <2>0, <3>1 DEF BufferInv, FailedIsNotPushed
    <3>2. CASE i = Len(pushed) + 1
      BY <1>2, <2>0, <3>2
    <3>. QED  BY <2>1, <3>1, <3>2
  <2>6. Cardinality(failed) \in Nat
    BY <1>0, FS_CardinalityType
  <2>7. IsFiniteSet(failed)' /\ SentCountsAttempts'
    BY <1>0, <1>3, <1>5, <2>0, <2>6 DEF SentCountsAttempts
  <2>. QED  BY <1>4, <2>2, <2>3, <2>4, <2>5, <2>7 DEF BufferInv
<1>6. CASE /\ output_queue' = output_queue
           /\ pushed' = pushed
           /\ failed' = failed \union {m}
  <2>1. TypeOK'
    BY <1>0, <1>1, <1>3, <1>6 DEF TypeOK
  <2>2. OutputInOrder'
    BY <1>6 DEF BufferInv, OutputInOrder
  <2>3. TriedIsBehind'
    <3>1. ASSUME NEW i \in DOMAIN pushed'
          PROVE  pushed'[i].sequence_number < expected_sequence_'[pushed'[i].key]
      BY <1>0, <1>1, <1>2, <1>6
    <3>2. ASSUME NEW x \in failed'
          PROVE  x.sequence_number < expected_sequence_'[x.key]
      <4>1. CASE x \in failed
        BY <1>0, <1>1, <1>2, <4>1
      <4>2. CASE x = m
        BY <1>0, <1>1, <4>2
      <4>. QED  BY <1>6, <4>1, <4>2
    <3>. QED  BY <3>1, <3>2 DEF TriedIsBehind
  <2>4. FailedIsNotPushed'
    BY <1>2, <1>6 DEF BufferInv, FailedIsNotPushed
  <2>5. m \notin failed
    BY <1>2
  <2>6. /\ IsFiniteSet(failed \union {m})
        /\ Cardinality(failed \union {m}) = Cardinality(failed) + 1
        /\ Cardinality(failed) \in Nat
    BY <1>0, <2>5, FS_AddElement, FS_CardinalityType
  <2>7. IsFiniteSet(failed)' /\ SentCountsAttempts'
    BY <1>0, <1>3, <1>6, <2>6, LenProperties DEF SentCountsAttempts
  <2>. QED  BY <1>4, <2>1, <2>2, <2>3, <2>4, <2>7 DEF BufferInv
<1>7. TryPushAll(<<m>>)
  BY DEF Tries
<1>. QED  BY <1>0, <1>5, <1>6, <1>7, PushOne

\* The invariant holds of a new buffer.
LEMMA BufferInit == Init => BufferInv
<1>. SUFFICES ASSUME Init  PROVE  BufferInv
  OBVIOUS
<1>1. IsFiniteSet({}) /\ Cardinality({}) = 0
  BY FS_EmptySet
<1>2. TypeOK
  BY OrderingBufferAssumption DEF Init, TypeOK
<1>3. NothingBuffered /\ OutputInOrder /\ TriedIsBehind /\ FailedIsNotPushed
  BY DEF Init, NothingBuffered, OutputInOrder, TriedIsBehind, FailedIsNotPushed
<1>4. IsFiniteSet(failed) /\ SentCountsAttempts
  BY <1>1 DEF Init, SentCountsAttempts
<1>. QED  BY <1>2, <1>3, <1>4 DEF BufferInv

\* Every call, and every pop of the consumer, keeps it.
LEMMA BufferStep == BufferInv /\ [Next]_vars => BufferInv'
<1>. SUFFICES ASSUME BufferInv, [Next]_vars  PROVE  BufferInv'
  OBVIOUS
<1>1. CASE UNCHANGED vars
  BY <1>1 DEF vars, counters, BufferInv, TypeOK, NothingBuffered, OutputInOrder, TriedIsBehind,
              FailedIsNotPushed, SentCountsAttempts
<1>2. ASSUME NEW m \in Message, add_message(m)  PROVE  BufferInv'
  BY <1>1, <1>2, AddTries, TryKeeps
<1>3. CASE flush_all
  BY <1>1, <1>3, FlushIsIdle
<1>4. CASE Consume
  <2>1. /\ output_queue' = Tail(output_queue) /\ output_queue # <<>>
        /\ UNCHANGED <<buffers_, expected_sequence_, counters, pushed, failed>>
    BY <1>4 DEF Consume
  <2>2. output_queue' \in Seq(Message) /\ Len(output_queue') <= Capacity
    BY <2>1, OrderingBufferAssumption DEF BufferInv, TypeOK
  <2>. QED  BY <2>1, <2>2 DEF counters, BufferInv, TypeOK, NothingBuffered, OutputInOrder,
              TriedIsBehind, FailedIsNotPushed, SentCountsAttempts
<1>. QED  BY <1>1, <1>2, <1>3, <1>4 DEF Next

\* The invariant holds in every reachable state.
LEMMA BufferInvHolds == Spec => []BufferInv
BY BufferInit, BufferStep, PTL DEF Spec

-----------------------------------------------------------------------------
\* Whatever is added when, every variable of the buffer stays in its range, and
\* the output queue within its capacity.
THEOREM BufferTypeCorrect == Spec => []TypeOK
BY BufferInvHolds, PTL DEF BufferInv

\* add_message skips every gap at once, so nothing is ever kept back, and
\* try_send_next and flush_all never find anything to send.
THEOREM GapsAreSkipped == Spec => []NothingBuffered
BY BufferInvHolds, PTL DEF BufferInv

\* What leaves the buffer is in order, key by key, and leaves it once,
\* whatever order it was added in and whichever pushes failed.
THEOREM OutputIsOrdered == Spec => []OutputInOrder
BY BufferInvHolds, PTL DEF BufferInv

\* A message whose push failed never enters the output queue, however often it
\* is added again.
THEOREM FailureIsFinal == Spec => []NoSecondChance
<1>1. BufferInv => NoSecondChance
  BY DEF BufferInv, TriedIsBehind, FailedIsNotPushed, NoSecondChance
<1>. QED  BY <1>1, BufferInvHolds, PTL

\* messages_sent_ is the number of messages tried: those pushed and those that
\* failed.
THEOREM SentIsAttempts == Spec => []SentCountsAttempts
BY BufferInvHolds, PTL DEF BufferInv
=============================================================================
