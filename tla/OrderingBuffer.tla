--------------------------- MODULE OrderingBuffer ---------------------------
(***************************************************************************)
(* OrderingBuffer (include/ordering_buffer.h, src/ordering_buffer.cpp).    *)
(* The class is in the repository but in no target and has no caller; the  *)
(* model calls its public functions in every order, with any message, as   *)
(* often as a caller that retries would.  The thread at the other end of   *)
(* the output queue pops whenever it likes.                                *)
(***************************************************************************)
EXTENDS Integers, Sequences, FiniteSets, SequencesExt

CONSTANTS
  Key,           \* the pairs (producer_id, msg_type)
  MaxSequence,   \* bound: the largest sequence number
  Capacity       \* capacity() of the output queue

ASSUME OrderingBufferAssumption == MaxSequence \in Nat /\ Capacity \in Nat \ {0}

Message == [key : Key, sequence_number : 1 .. MaxSequence]

VARIABLES
  buffers_,            \* the messages kept back, by key
  expected_sequence_,  \* by key; 0 when there is no entry
  messages_buffered_,
  messages_sent_,
  output_queue,
  pushed,              \* history: all that ever entered output_queue, in order
  failed               \* history: the messages whose try_push returned false

counters == <<messages_buffered_, messages_sent_>>
vars == <<buffers_, expected_sequence_, counters, output_queue, pushed, failed>>

Init ==
  /\ buffers_ = [k \in Key |-> {}]
  /\ expected_sequence_ = [k \in Key |-> 0]
  /\ messages_buffered_ = 0
  /\ messages_sent_ = 0
  /\ output_queue = <<>>
  /\ pushed = <<>>
  /\ failed = {}

\* A mistake: the queue is taken to have room.
PushAll(s) ==
  /\ output_queue' = output_queue \o s
  /\ pushed' = pushed \o s
  /\ UNCHANGED failed

\* output_queue->try_push of the messages of s, one after the other.
TryPushAll(s) ==
  LET n == IF Len(s) <= Capacity - Len(output_queue)
             THEN Len(s) ELSE Capacity - Len(output_queue)
  IN  /\ output_queue' = output_queue \o SubSeq(s, 1, n)
      /\ pushed' = pushed \o SubSeq(s, 1, n)
      /\ failed' = failed \union {s[i] : i \in n + 1 .. Len(s)}

\* The messages of S, all of one key, in the order try_send_next sends them.
InOrder(S) ==
  CHOOSE s \in SetToSeqs(S) :
    \A i, j \in DOMAIN s : i < j => s[i].sequence_number < s[j].sequence_number

\* What try_send_next finds to send for key k when number e comes next: the
\* messages kept back with the numbers e, e + 1, ..., as far as there is room.
SendNext(k, e, room) ==
  {m \in buffers_[k] :
     /\ m.sequence_number \in e .. e + room - 1
     /\ \A n \in e .. m.sequence_number : \E x \in buffers_[k] : x.sequence_number = n}

\* A mistake: a late message is sent on.
AddLateSends(m) ==
  /\ m.sequence_number < expected_sequence_[m.key]
  /\ TryPushAll(<<m>>)
  /\ UNCHANGED <<buffers_, expected_sequence_, counters>>

\* A mistake: the number is only moved on when the push succeeds.
AddFirstOnSuccess(m) ==
  /\ expected_sequence_[m.key] = 0
  /\ expected_sequence_' = [expected_sequence_ EXCEPT ![m.key] =
       IF Len(output_queue) < Capacity THEN m.sequence_number + 1 ELSE @]
  /\ messages_sent_' = messages_sent_ + 1
  /\ TryPushAll(<<m>>)
  /\ UNCHANGED <<buffers_, messages_buffered_>>

\* A mistake: a gap is kept for later, but not counted.
AddAheadBuffers(m) ==
  /\ expected_sequence_[m.key] \in 1 .. m.sequence_number - 1
  /\ buffers_' = [buffers_ EXCEPT ![m.key] = @ \union {m}]
  /\ UNCHANGED <<expected_sequence_, counters, output_queue, pushed, failed>>

\* add_message, first message of its key: the next number is expected and the
\* message counted as sent, whether or not the push succeeds.
AddFirst(m) ==
  /\ expected_sequence_[m.key] = 0
  /\ expected_sequence_' = [expected_sequence_ EXCEPT ![m.key] = m.sequence_number + 1]
  /\ messages_sent_' = messages_sent_ + 1
  /\ TryPushAll(<<m>>)
  /\ UNCHANGED <<buffers_, messages_buffered_>>

\* add_message, the expected number: as above, and if the push succeeds
\* try_send_next sends what was kept back.
AddExpected(m) ==
  /\ expected_sequence_[m.key] = m.sequence_number
  /\ LET next == SendNext(m.key, m.sequence_number + 1, Capacity - Len(output_queue) - 1)
     IN  /\ expected_sequence_' = [expected_sequence_ EXCEPT
                                     ![m.key] = m.sequence_number + 1 + Cardinality(next)]
         /\ messages_sent_' = messages_sent_ + 1 + Cardinality(next)
         /\ messages_buffered_' = messages_buffered_ - Cardinality(next)
         /\ buffers_' = [buffers_ EXCEPT ![m.key] = @ \ next]
         /\ TryPushAll(<<m>> \o InOrder(next))

\* add_message, a number past the expected one: the gap is skipped.
AddAhead(m) ==
  /\ expected_sequence_[m.key] \in 1 .. m.sequence_number - 1
  /\ expected_sequence_' = [expected_sequence_ EXCEPT ![m.key] = m.sequence_number + 1]
  /\ messages_sent_' = messages_sent_ + 1
  /\ TryPushAll(<<m>>)
  /\ UNCHANGED <<buffers_, messages_buffered_>>

\* add_message, a number before the expected one: dropped, and add_message
\* returns true.
AddLate(m) ==
  /\ m.sequence_number < expected_sequence_[m.key]
  /\ UNCHANGED vars

add_message(m) == AddFirst(m) \/ AddExpected(m) \/ AddAhead(m) \/ AddLate(m)

\* flush_all: push everything kept back, key by key and sorted within its key,
\* and forget it, whether or not the pushes succeed.
flush_all ==
  LET all == UNION {buffers_[k] : k \in Key}
  IN  /\ \E s \in [1 .. Cardinality(all) -> all] :
           /\ {s[i] : i \in DOMAIN s} = all
           /\ \A i, j \in DOMAIN s : i < j /\ s[i].key = s[j].key
                                       => s[i].sequence_number < s[j].sequence_number
           /\ \A i, j, l \in DOMAIN s : i < j /\ j < l /\ s[i].key = s[l].key
                                          => s[j].key = s[i].key
           /\ TryPushAll(s)
      /\ messages_sent_' = messages_sent_ + Cardinality(all)
      /\ buffers_' = [k \in Key |-> {}]
      /\ messages_buffered_' = 0
      /\ UNCHANGED expected_sequence_

\* The consumer's try_pop.
Consume ==
  /\ output_queue # <<>>
  /\ output_queue' = Tail(output_queue)
  /\ UNCHANGED <<buffers_, expected_sequence_, counters, pushed, failed>>

Next == (\E m \in Message : add_message(m)) \/ flush_all \/ Consume

Spec == Init /\ [][Next]_vars

-----------------------------------------------------------------------------
(* Properties *)

\* Every variable stays in its range.
TypeOK ==
  /\ buffers_ \in [Key -> SUBSET Message]
  /\ expected_sequence_ \in [Key -> 0 .. MaxSequence + 1]
  /\ messages_buffered_ \in Nat /\ messages_sent_ \in Nat
  /\ output_queue \in Seq(Message) /\ Len(output_queue) <= Capacity
  /\ pushed \in Seq(Message)
  /\ failed \subseteq Message

\* Whatever order messages are added in, and whichever pushes fail, what
\* leaves the buffer is in order, key by key, and nothing leaves it twice.
OutputInOrder ==
  \A i, j \in DOMAIN pushed :
    i < j /\ pushed[i].key = pushed[j].key
      => pushed[i].sequence_number < pushed[j].sequence_number

\* add_message never keeps a message back: a gap is skipped, not waited for,
\* so try_send_next and flush_all never have anything to send.
NothingBuffered ==
  /\ \A k \in Key : buffers_[k] = {}
  /\ messages_buffered_ = 0

\* A message whose push failed is gone: adding it again finds it late, and
\* add_message then returns true without sending it.
NoSecondChance ==
  \A m \in failed :
    /\ m.sequence_number < expected_sequence_[m.key]
    /\ \A i \in DOMAIN pushed : pushed[i] # m

\* messages_sent_ counts attempts: all that was pushed and all that failed.
SentCountsAttempts == messages_sent_ = Len(pushed) + Cardinality(failed)
=============================================================================
