----------------------------- MODULE RouterLoad -----------------------------
(***************************************************************************)
(* Stage1Router under load: the producers go on for ever, the processors   *)
(* pop what the router pushes, and nobody stops anything.  Pipeline bounds *)
(* what a producer generates, so only here can a queue be refilled as fast *)
(* as the router empties it.                                               *)
(***************************************************************************)
EXTENDS Config

CONSTANTS MsgTypes, NoMessage, Capacity, PushTries, CounterRange

ASSUME LoadAssumption ==
  validate /\ {Capacity, PushTries, CounterRange} \subseteq Nat \ {0}

VARIABLES router, input_queues, output_queues, lost
vars == <<router, input_queues, output_queues, lost>>

\* All that the router looks at in a message is its type.
Message == [msg_type : MsgTypes]

R == INSTANCE Router WITH
       Stage <- "stage1", Route <- get_processor_for_message,
       Inputs <- Producers, Outputs <- Processors

Init ==
  /\ R!Init
  /\ input_queues  = [i \in Producers |-> <<>>]
  /\ output_queues = [o \in Processors |-> <<>>]
  /\ lost = {}

\* A producer's try_push succeeds.
Feed(i) ==
  /\ Len(input_queues[i]) < Capacity
  /\ \E m \in Message : input_queues' = [input_queues EXCEPT ![i] = Append(@, m)]
  /\ UNCHANGED <<router, output_queues, lost>>

\* A processor's try_pop succeeds.
Drain(o) ==
  /\ output_queues[o] # <<>>
  /\ output_queues' = [output_queues EXCEPT ![o] = Tail(@)]
  /\ UNCHANGED <<router, input_queues, lost>>

Next ==
  \/ R!Start \/ R!routing_loop
  \/ \E i \in Producers : Feed(i)
  \/ \E o \in Processors : Drain(o)

\* The router's and the processors' threads keep running.  Nothing says how
\* often a producer sends.
Fairness ==
  /\ WF_vars(R!Start) /\ WF_vars(R!routing_loop)
  /\ \A o \in Processors : WF_vars(Drain(o))

FairSpec == Init /\ [][Next]_vars /\ Fairness

-----------------------------------------------------------------------------
(* Properties *)

\* The router is at queue i, or on its way from there to an output queue.
At(i) == router.pc \in {"scan", "push"} /\ router.cursor = i

\* Queue i holds messages for ever and the router never comes to it again.
Starved(i) == <>[](input_queues[i] # <<>> /\ ~ At(i))

\* Queue j is refilled again and again, and the router stays with it for ever.
Floods(j) == <>[]At(j) /\ []<><<Feed(j)>>_vars

\* A router can leave a queue unserved for ever, but only for one other queue
\* that is refilled in time for ever: not because several queues are busy, not
\* because pushes fail or messages have no route, and not by passing a queue
\* over in its scan.  A queue whose rivals fall silent gets its turn.
OnlyAFloodStarves ==
  \A i \in Producers : Starved(i) => \E j \in Producers \ {i} : Floods(j)
=============================================================================
