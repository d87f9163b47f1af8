------------------------------- MODULE Router -------------------------------
(***************************************************************************)
(* Stage1Router and Stage2Router (src/stage1_router.cpp,                   *)
(* src/stage2_router.cpp): one thread that moves messages from many input  *)
(* queues to the output queue its rules name.  The two classes are the     *)
(* same code but for the queues and for Route.                             *)
(*                                                                         *)
(* The thread scans the input queues in turn and empties each one before   *)
(* it goes on to the next; it looks at running_ only between two scans.    *)
(***************************************************************************)
EXTENDS Integers, Sequences

CONSTANTS
  Inputs, Outputs,   \* the indices of the input and of the output queues
  Route(_),          \* the output queue for a message type
  Stage,             \* the router's name in lost
  Message, NoMessage, Capacity,
  PushTries,         \* how often try_push is called for one message (1000)
  CounterRange       \* the counters are unsigned and wrap here (2^64)

VARIABLES router, input_queues, output_queues, lost

\* fetch_add(1) on an atomic unsigned counter.
Incremented(n) == (n + 1) % CounterRange

\* The fields of a router, and its thread's position and local variables.
Object ==
  [ running_         : BOOLEAN,
    pc               : {"new", "loop", "scan", "push", "exit"},
    cursor           : Inputs,
    message          : Message \union {NoMessage},
    retry            : 0 .. PushTries - 1,
    messages_routed_ : 0 .. CounterRange - 1,
    routing_errors_  : 0 .. CounterRange - 1 ]

Init ==
  router =
    [ running_         |-> FALSE,
      pc               |-> "new",
      cursor           |-> 0,           \* the input queue being emptied
      message          |-> NoMessage,   \* the message being pushed
      retry            |-> 0,           \* failed try_push calls for it
      messages_routed_ |-> 0,
      routing_errors_  |-> 0 ]

\* start(): the thread enters routing_loop.
Start ==
  /\ ~ router.running_
  /\ router' = [router EXCEPT !.running_ = TRUE, !.pc = "loop"]
  /\ UNCHANGED <<input_queues, output_queues, lost>>

\* start() when the thread cannot be created: running_ is already set, and the
\* exception goes to the caller.
StartFails ==
  /\ ~ router.running_
  /\ router' = [router EXCEPT !.running_ = TRUE]
  /\ UNCHANGED <<input_queues, output_queues, lost>>

\* The store in stop().
Stop ==
  /\ router.running_
  /\ router' = [router EXCEPT !.running_ = FALSE]
  /\ UNCHANGED <<input_queues, output_queues, lost>>

\* A mistake: a scan goes on where the last one ended.
LoopKeepsCursor ==
  /\ router.pc = "loop"
  /\ router' = [router EXCEPT !.pc = IF router.running_ THEN "scan" ELSE "exit"]
  /\ UNCHANGED <<input_queues, output_queues, lost>>

\* The outer loop: begin another scan, or leave when running_ is false.
Loop ==
  /\ router.pc = "loop"
  /\ router' = [router EXCEPT !.pc = IF router.running_ THEN "scan" ELSE "exit",
                              !.cursor = 0]
  /\ UNCHANGED <<input_queues, output_queues, lost>>

\* A mistake: the message is taken from the wrong end of the queue.
PopNewest ==
  LET queue == input_queues[router.cursor]
  IN  /\ router.pc = "scan"
      /\ queue # <<>>
      /\ Route(queue[Len(queue)].msg_type) \in Outputs
      /\ router' = [router EXCEPT !.message = queue[Len(queue)], !.retry = 0, !.pc = "push"]
      /\ input_queues' = [input_queues EXCEPT
                            ![router.cursor] = SubSeq(@, 1, Len(@) - 1)]
      /\ UNCHANGED <<output_queues, lost>>

\* try_pop returns a message whose rule names an output queue that exists.
Pop ==
  /\ router.pc = "scan"
  /\ input_queues[router.cursor] # <<>>
  /\ Route(Head(input_queues[router.cursor]).msg_type) \in Outputs
  /\ router' = [router EXCEPT !.message = Head(input_queues[router.cursor]),
                              !.retry = 0,
                              !.pc = "push"]
  /\ input_queues' = [input_queues EXCEPT ![router.cursor] = Tail(@)]
  /\ UNCHANGED <<output_queues, lost>>

\* try_pop returns a message whose rule names no output queue.
PopUnroutable ==
  /\ router.pc = "scan"
  /\ input_queues[router.cursor] # <<>>
  /\ Route(Head(input_queues[router.cursor]).msg_type) \notin Outputs
  /\ router' = [router EXCEPT !.routing_errors_ = Incremented(@)]
  /\ lost' = lost \union {[message |-> Head(input_queues[router.cursor]), at |-> Stage]}
  /\ input_queues' = [input_queues EXCEPT ![router.cursor] = Tail(@)]
  /\ UNCHANGED output_queues

\* A mistake: the end of the input queues is noticed one queue too late.
NextQueueTooFar ==
  /\ router.pc = "scan"
  /\ input_queues[router.cursor] = <<>>
  /\ router' = [router EXCEPT !.cursor = @ + 1]
  /\ UNCHANGED <<input_queues, output_queues, lost>>

\* A mistake: after the last queue the scan begins again, without a look at
\* running_.
NextQueueRound ==
  /\ router.pc = "scan"
  /\ input_queues[router.cursor] = <<>>
  /\ router' = [router EXCEPT !.cursor = IF @ + 1 \in Inputs THEN @ + 1 ELSE 0]
  /\ UNCHANGED <<input_queues, output_queues, lost>>

\* try_pop returns false: on to the next input queue.
NextQueue ==
  /\ router.pc = "scan"
  /\ input_queues[router.cursor] = <<>>
  /\ router' = IF router.cursor + 1 \in Inputs
                 THEN [router EXCEPT !.cursor = @ + 1]
                 ELSE [router EXCEPT !.pc = "loop"]
  /\ UNCHANGED <<input_queues, output_queues, lost>>

\* A mistake: the message goes to the output with the input's number.
TargetByInput == router.cursor

Target == Route(router.message.msg_type)

\* try_push returns true.
Send ==
  /\ router.pc = "push"
  /\ Len(output_queues[Target]) < Capacity
  /\ output_queues' = [output_queues EXCEPT ![Target] = Append(@, router.message)]
  /\ router' = [router EXCEPT !.messages_routed_ = Incremented(@),
                              !.message = NoMessage,
                              !.pc = "scan"]
  /\ UNCHANGED <<input_queues, lost>>

\* try_push returns false and there are tries left.
Retry ==
  /\ router.pc = "push"
  /\ Len(output_queues[Target]) = Capacity
  /\ router.retry + 1 < PushTries
  /\ router' = [router EXCEPT !.retry = @ + 1]
  /\ UNCHANGED <<input_queues, output_queues, lost>>

\* A mistake: the failure is not counted.
GiveUpSilently ==
  /\ router.pc = "push"
  /\ Len(output_queues[Target]) = Capacity
  /\ router.retry + 1 = PushTries
  /\ router' = [router EXCEPT !.message = NoMessage, !.pc = "scan"]
  /\ lost' = lost \union {[message |-> router.message, at |-> Stage]}
  /\ UNCHANGED <<input_queues, output_queues>>

\* A mistake: instead of giving up, any output queue with room will do.
SendElsewhere ==
  /\ router.pc = "push"
  /\ Len(output_queues[Target]) = Capacity
  /\ router.retry + 1 = PushTries
  /\ \E o \in Outputs :
       /\ Len(output_queues[o]) < Capacity
       /\ output_queues' = [output_queues EXCEPT ![o] = Append(@, router.message)]
  /\ router' = [router EXCEPT !.message = NoMessage, !.pc = "scan"]
  /\ UNCHANGED <<input_queues, lost>>

\* try_push returns false for the last time: a routing error.
GiveUp ==
  /\ router.pc = "push"
  /\ Len(output_queues[Target]) = Capacity
  /\ router.retry + 1 = PushTries
  /\ router' = [router EXCEPT !.routing_errors_ = Incremented(@),
                              !.message = NoMessage,
                              !.pc = "scan"]
  /\ lost' = lost \union {[message |-> router.message, at |-> Stage]}
  /\ UNCHANGED <<input_queues, output_queues>>

routing_loop == Loop \/ Pop \/ PopUnroutable \/ NextQueue \/ Send \/ Retry \/ GiveUp
=============================================================================
