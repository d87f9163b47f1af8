------------------------------ MODULE Producer ------------------------------
(***************************************************************************)
(* The producers (include/producer.h, src/producer.cpp): each one numbers  *)
(* its messages 1, 2, 3, ... whatever their type, and pushes them into a   *)
(* queue of its own.                                                       *)
(***************************************************************************)
EXTENDS Integers, Sequences

CONSTANTS
  Producers,    \* the producers' ids
  MsgTypes,     \* the types a message may have
  Message,      \* the messages there can be
  NoMessage,    \* "no message in hand"
  Capacity,     \* capacity() of a queue
  PushTries,    \* how often try_push is called for one message (100)
  MaxMessages   \* bound: messages one producer generates

VARIABLES
  producer,       \* the Producer objects, each with its thread's position
  output_queues,  \* output_queues[i]: the queue of producer i
  lost            \* history: the messages some thread gave up on, and where

\* The fields of a Producer, and its thread's position and local variables.
Object ==
  [ running_           : BOOLEAN,
    pc                 : {"new", "begin", "loop", "push", "exit"},
    message            : Message \union {NoMessage},
    retry              : 0 .. PushTries - 1,
    next_sequence_     : 1 .. MaxMessages + 1,
    messages_produced_ : 0 .. MaxMessages ]

Init ==
  producer = [i \in Producers |->
    [ running_           |-> FALSE,
      pc                 |-> "new",
      message            |-> NoMessage,   \* the message being pushed
      retry              |-> 0,           \* failed try_push calls for it
      next_sequence_     |-> 1,
      messages_produced_ |-> 0 ]]

\* The constructor of Message; timestamps are left out.
NewMessage(type, prod_id, seq) ==
  [msg_type |-> type, producer_id |-> prod_id, sequence_number |-> seq, processor_id |-> 0]

\* start(): the thread enters producer_loop.
Start(i) ==
  /\ ~ producer[i].running_
  /\ producer' = [producer EXCEPT ![i].running_ = TRUE, ![i].pc = "begin"]
  /\ UNCHANGED <<output_queues, lost>>

\* start() when the thread cannot be created: running_ is already set, and the
\* exception goes to the caller.
StartFails(i) ==
  /\ ~ producer[i].running_
  /\ producer' = [producer EXCEPT ![i].running_ = TRUE]
  /\ UNCHANGED <<output_queues, lost>>

\* The store in stop(); the join that follows it waits for pc = "exit".
Stop(i) ==
  /\ producer[i].running_
  /\ producer' = [producer EXCEPT ![i].running_ = FALSE]
  /\ UNCHANGED <<output_queues, lost>>

\* The thread reads its rate from the configuration and enters its loop.
Begin(i) ==
  /\ producer[i].pc = "begin"
  /\ producer' = [producer EXCEPT ![i].pc = "loop"]
  /\ UNCHANGED <<output_queues, lost>>

\* It is time for the next message.  Its type is drawn at random.
Generate(i) ==
  /\ producer[i].pc = "loop"
  /\ producer[i].running_
  /\ producer[i].next_sequence_ <= MaxMessages
  /\ \E t \in MsgTypes :
       producer' = [producer EXCEPT
         ![i].message = NewMessage(t, i, producer[i].next_sequence_),
         ![i].next_sequence_ = @ + 1,
         ![i].retry = 0,
         ![i].pc = "push"]
  /\ UNCHANGED <<output_queues, lost>>

\* A mistake: sent is not set, so the message is pushed again.
SendAgain(i) ==
  /\ producer[i].pc = "push"
  /\ Len(output_queues[i]) < Capacity
  /\ output_queues' = [output_queues EXCEPT ![i] = Append(@, producer[i].message)]
  /\ producer' = [producer EXCEPT ![i].messages_produced_ = @ + 1]
  /\ UNCHANGED lost

\* try_push returns true.
Send(i) ==
  /\ producer[i].pc = "push"
  /\ Len(output_queues[i]) < Capacity
  /\ output_queues' = [output_queues EXCEPT ![i] = Append(@, producer[i].message)]
  /\ producer' = [producer EXCEPT ![i].messages_produced_ = @ + 1,
                                  ![i].message = NoMessage,
                                  ![i].pc = "loop"]
  /\ UNCHANGED lost

\* try_push returns false and there are tries left.
Retry(i) ==
  /\ producer[i].pc = "push"
  /\ Len(output_queues[i]) = Capacity
  /\ producer[i].retry + 1 < PushTries
  /\ producer' = [producer EXCEPT ![i].retry = @ + 1]
  /\ UNCHANGED <<output_queues, lost>>

\* A mistake: a message is counted whether it was sent or not.
GiveUpCounts(i) ==
  /\ producer[i].pc = "push"
  /\ Len(output_queues[i]) = Capacity
  /\ producer[i].retry + 1 = PushTries
  /\ lost' = lost \union {[message |-> producer[i].message, at |-> "producer"]}
  /\ producer' = [producer EXCEPT ![i].messages_produced_ = @ + 1,
                                  ![i].message = NoMessage,
                                  ![i].pc = "loop"]
  /\ UNCHANGED output_queues

\* try_push returns false for the last time: the message is forgotten, and
\* no counter says so.
GiveUp(i) ==
  /\ producer[i].pc = "push"
  /\ Len(output_queues[i]) = Capacity
  /\ producer[i].retry + 1 = PushTries
  /\ lost' = lost \union {[message |-> producer[i].message, at |-> "producer"]}
  /\ producer' = [producer EXCEPT ![i].message = NoMessage, ![i].pc = "loop"]
  /\ UNCHANGED output_queues

\* The loop finds running_ false.
Exit(i) ==
  /\ producer[i].pc = "loop"
  /\ ~ producer[i].running_
  /\ producer' = [producer EXCEPT ![i].pc = "exit"]
  /\ UNCHANGED <<output_queues, lost>>

producer_loop(i) == Begin(i) \/ Generate(i) \/ Send(i) \/ Retry(i) \/ GiveUp(i) \/ Exit(i)
=============================================================================
