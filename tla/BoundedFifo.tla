---------------------------- MODULE BoundedFifo ----------------------------
(***************************************************************************)
(* What a LockFreeSPSCQueue promises its two clients, without its ring of  *)
(* slots: a first-in first-out queue of at most Capacity messages.         *)
(*                                                                         *)
(* A try_push that returns true is a Call and one Push; one that returns   *)
(* false is a Refuse, and a try_pop that returns false a stuttering step.  *)
(* A call may be refused although there is room, or find nothing although  *)
(* there is a message: to its thread the other one is then a little later. *)
(* The module SpscQueue is shown to implement this one.                    *)
(***************************************************************************)
EXTENDS Naturals, Sequences

CONSTANTS
  Msg,       \* the messages that may be pushed
  NoMsg,     \* "nothing pushed / popped yet"
  Capacity   \* capacity(): the most messages the queue holds

VARIABLES
  q,         \* the contents, oldest first
  arg,       \* the argument of the latest try_push
  calling,   \* a try_push has begun and will return true
  out        \* the message the latest successful try_pop returned

fifoVars == <<q, arg, calling, out>>

FifoInit ==
  /\ q = <<>>
  /\ arg = NoMsg
  /\ calling = FALSE
  /\ out = NoMsg

\* The pusher calls try_push(m), which will succeed ...
Call(m) ==
  /\ ~ calling
  /\ calling' = TRUE
  /\ arg' = m
  /\ UNCHANGED <<q, out>>

\* ... or is refused and returns false.
Refuse(m) ==
  /\ ~ calling
  /\ arg' = m
  /\ UNCHANGED <<q, calling, out>>

\* try_push takes effect and returns true: its argument becomes the newest
\* element, once for the call.
Push ==
  /\ calling
  /\ calling' = FALSE
  /\ Len(q) < Capacity
  /\ q' = Append(q, arg)
  /\ UNCHANGED <<arg, out>>

\* try_pop takes effect: the oldest element leaves and is returned.
Pop ==
  /\ q # <<>>
  /\ q' = Tail(q)
  /\ out' = Head(q)
  /\ UNCHANGED <<arg, calling>>

FifoNext == (\E m \in Msg : Call(m) \/ Refuse(m)) \/ Push \/ Pop

FifoSpec == FifoInit /\ [][FifoNext]_fifoVars
=============================================================================
