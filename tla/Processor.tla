------------------------------ MODULE Processor ------------------------------
(***************************************************************************)
(* The processors (include/processor.h, src/processor.cpp): each one pops  *)
(* from a queue of its own, marks the message with its id and pushes it    *)
(* into another queue of its own.                                          *)
(***************************************************************************)
EXTENDS Integers, Sequences

CONSTANTS
  Processors,   \* the processors' ids
  Message, NoMessage, Capacity,
  PushTries     \* how often try_push is called for one message (1000)

VARIABLES processor, input_queues, output_queues, lost

\* The fields of a Processor, and its thread's position and local variables.
Object ==
  [ running_            : BOOLEAN,
    pc                  : {"new", "loop", "drain", "push", "exit"},
    message             : Message \union {NoMessage},
    retry               : 0 .. PushTries - 1,
    messages_processed_ : Nat ]

Init ==
  processor = [i \in Processors |->
    [ running_            |-> FALSE,
      pc                  |-> "new",
      message             |-> NoMessage,   \* the message being pushed
      retry               |-> 0,           \* failed try_push calls for it
      messages_processed_ |-> 0 ]]

\* start(): the thread enters processor_loop.
Start(i) ==
  /\ ~ processor[i].running_
  /\ processor' = [processor EXCEPT ![i].running_ = TRUE, ![i].pc = "loop"]
  /\ UNCHANGED <<input_queues, output_queues, lost>>

\* start() when the thread cannot be created: running_ is already set, and the
\* exception goes to the caller.
StartFails(i) ==
  /\ ~ processor[i].running_
  /\ processor' = [processor EXCEPT ![i].running_ = TRUE]
  /\ UNCHANGED <<input_queues, output_queues, lost>>

\* The store in stop().
Stop(i) ==
  /\ processor[i].running_
  /\ processor' = [processor EXCEPT ![i].running_ = FALSE]
  /\ UNCHANGED <<input_queues, output_queues, lost>>

\* A mistake: the loop does not look at running_.
LoopForever(i) ==
  /\ processor[i].pc = "loop"
  /\ processor' = [processor EXCEPT ![i].pc = "drain"]
  /\ UNCHANGED <<input_queues, output_queues, lost>>

\* The outer loop: empty the queue once more, or leave.
Loop(i) ==
  /\ processor[i].pc = "loop"
  /\ processor' = [processor EXCEPT
                     ![i].pc = IF processor[i].running_ THEN "drain" ELSE "exit"]
  /\ UNCHANGED <<input_queues, output_queues, lost>>

\* try_pop returns a message; simulate_processing marks it.
Pop(i) ==
  /\ processor[i].pc = "drain"
  /\ input_queues[i] # <<>>
  /\ processor' = [processor EXCEPT
                     ![i].message = [Head(input_queues[i]) EXCEPT !.processor_id = i],
                     ![i].retry = 0,
                     ![i].pc = "push"]
  /\ input_queues' = [input_queues EXCEPT ![i] = Tail(@)]
  /\ UNCHANGED <<output_queues, lost>>

\* try_pop returns false.
Empty(i) ==
  /\ processor[i].pc = "drain"
  /\ input_queues[i] = <<>>
  /\ processor' = [processor EXCEPT ![i].pc = "loop"]
  /\ UNCHANGED <<input_queues, output_queues, lost>>

\* try_push returns true.
Send(i) ==
  /\ processor[i].pc = "push"
  /\ Len(output_queues[i]) < Capacity
  /\ output_queues' = [output_queues EXCEPT ![i] = Append(@, processor[i].message)]
  /\ processor' = [processor EXCEPT ![i].messages_processed_ = @ + 1,
                                    ![i].message = NoMessage,
                                    ![i].pc = "drain"]
  /\ UNCHANGED <<input_queues, lost>>

\* try_push returns false and there are tries left.
Retry(i) ==
  /\ processor[i].pc = "push"
  /\ Len(output_queues[i]) = Capacity
  /\ processor[i].retry + 1 < PushTries
  /\ processor' = [processor EXCEPT ![i].retry = @ + 1]
  /\ UNCHANGED <<input_queues, output_queues, lost>>

\* try_push returns false for the last time: the message is forgotten, and
\* no counter says so.
GiveUp(i) ==
  /\ processor[i].pc = "push"
  /\ Len(output_queues[i]) = Capacity
  /\ processor[i].retry + 1 = PushTries
  /\ lost' = lost \union {[message |-> processor[i].message, at |-> "processor"]}
  /\ processor' = [processor EXCEPT ![i].message = NoMessage, ![i].pc = "drain"]
  /\ UNCHANGED <<input_queues, output_queues>>

processor_loop(i) ==
  Loop(i) \/ Pop(i) \/ Empty(i) \/ Send(i) \/ Retry(i) \/ GiveUp(i)
=============================================================================
