------------------------------ MODULE Strategy ------------------------------
(***************************************************************************)
(* The strategies (include/strategy.h, src/strategy.cpp): the consumers.   *)
(* Each one pops from a queue of its own and compares the sequence number  *)
(* of a message with the one it expects from that producer for that type.  *)
(***************************************************************************)
EXTENDS Integers, Sequences

CONSTANTS
  Strategies,   \* the strategies' ids
  Producers, MsgTypes, Message

VARIABLES strategy, input_queues

\* The keys of expected_sequence_.
Key == Producers \X MsgTypes
KeyOf(m) == <<m.producer_id, m.msg_type>>

\* The fields of a Strategy, and its thread's position.
Object ==
  [ running_             : BOOLEAN,
    pc                   : {"new", "loop", "drain", "exit"},
    expected_sequence_   : [Key -> Nat],
    ordering_violations_ : Nat,
    messages_delivered_  : Nat,
    log                  : Seq(Message) ]

Init ==
  strategy = [i \in Strategies |->
    [ running_             |-> FALSE,
      pc                   |-> "new",
      expected_sequence_   |-> [k \in Key |-> 0],   \* 0: no entry for k
      ordering_violations_ |-> 0,
      messages_delivered_  |-> 0,
      log                  |-> <<>> ]]   \* history: what it was given

\* start(): the thread enters strategy_loop.
Start(i) ==
  /\ ~ strategy[i].running_
  /\ strategy' = [strategy EXCEPT ![i].running_ = TRUE, ![i].pc = "loop"]
  /\ UNCHANGED input_queues

\* start() when the thread cannot be created: running_ is already set, and the
\* exception goes to the caller.
StartFails(i) ==
  /\ ~ strategy[i].running_
  /\ strategy' = [strategy EXCEPT ![i].running_ = TRUE]
  /\ UNCHANGED input_queues

\* The store in stop().
Stop(i) ==
  /\ strategy[i].running_
  /\ strategy' = [strategy EXCEPT ![i].running_ = FALSE]
  /\ UNCHANGED input_queues

\* The outer loop: empty the queue once more, or leave.
Loop(i) ==
  /\ strategy[i].pc = "loop"
  /\ strategy' = [strategy EXCEPT
                    ![i].pc = IF strategy[i].running_ THEN "drain" ELSE "exit"]
  /\ UNCHANGED input_queues

\* A mistake: a key without an entry is taken for one that expects 0.
FirstComparedToo(s, m) ==
  LET expected == s.expected_sequence_[KeyOf(m)]
  IN  [s EXCEPT
         !.ordering_violations_ = IF expected # m.sequence_number THEN @ + 1 ELSE @,
         !.expected_sequence_[KeyOf(m)] = m.sequence_number + 1,
         !.messages_delivered_ = @ + 1,
         !.log = Append(@, m)]

\* What process_message makes of message m in strategy object s: an entry
\* that differs from the message's number is a violation; either way the
\* next number is expected from now on.
process_message(s, m) ==
  LET expected == s.expected_sequence_[KeyOf(m)]
  IN  [s EXCEPT
         !.ordering_violations_ =
            IF expected \notin {0, m.sequence_number} THEN @ + 1 ELSE @,
         !.expected_sequence_[KeyOf(m)] = m.sequence_number + 1,
         !.messages_delivered_ = @ + 1,
         !.log = Append(@, m)]

\* try_pop returns a message.
Pop(i) ==
  /\ strategy[i].pc = "drain"
  /\ input_queues[i] # <<>>
  /\ strategy' = [strategy EXCEPT ![i] = process_message(@, Head(input_queues[i]))]
  /\ input_queues' = [input_queues EXCEPT ![i] = Tail(@)]

\* try_pop returns false.
Empty(i) ==
  /\ strategy[i].pc = "drain"
  /\ input_queues[i] = <<>>
  /\ strategy' = [strategy EXCEPT ![i].pc = "loop"]
  /\ UNCHANGED input_queues

strategy_loop(i) == Loop(i) \/ Pop(i) \/ Empty(i)
=============================================================================
