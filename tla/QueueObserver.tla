--------------------------- MODULE QueueObserver ---------------------------
(***************************************************************************)
(* size() and empty() of LockFreeSPSCQueue, called again and again by a    *)
(* third thread, as Monitor does, while one thread pushes and one pops.    *)
(* Each takes two relaxed loads, and the third thread, too, sees a store   *)
(* only when it arrives: headView and tailView are what its loads return.  *)
(* Of the queue it sees nothing but the indices.                           *)
(***************************************************************************)
EXTENDS RingIndices

ASSUME ObserverAssumption == Size \in Nat \ {0}

VARIABLES
  headView, tailView,
  call,     \* the function being called and what its first load returned;
            \* history: whether that was an old value, and what has been done
            \* to the queue since
  depth,    \* what the latest size() returned
  isEmpty,  \* what the latest empty() returned
  during    \* history: the numbers of messages held since the call began

views   == <<headView, tailView>>
answers == <<depth, isEmpty>>
vars    == <<indices, views, call, answers, during>>

Idle == [fn |-> "idle", first |-> 0, stale |-> FALSE, moved |-> {}]

\* The number of messages in the queue.
Depth == (tail_ - head_) % Size

Init ==
  /\ IndexInit
  /\ headView = 0 /\ tailView = 0
  /\ call = Idle
  /\ depth = 0 /\ isEmpty = TRUE
  /\ during = {}

\* What a step of the queue adds to the history of a call.
Witness(step) ==
  IF call = Idle THEN UNCHANGED <<call, during>>
  ELSE /\ call' = [call EXCEPT !.moved = @ \union {step}]
       /\ during' = during \union {Depth'}

\* The two threads at work.
QueueStep ==
  /\ \/ PushIndex /\ Witness("push")
     \/ PopIndex /\ Witness("pop")
  /\ UNCHANGED <<views, answers>>

\* The latest store of an index reaches the observer.
HeadArrives ==
  /\ headView # head_
  /\ headView' = head_
  /\ UNCHANGED <<indices, tailView, call, answers, during>>

TailArrives ==
  /\ tailView # tail_
  /\ tailView' = tail_
  /\ UNCHANGED <<indices, headView, call, answers, during>>

\* A call begins with a load of an index, of which it sees the value view.
FirstLoad(fn, view, index) ==
  /\ call = Idle
  /\ call' = [fn |-> fn, first |-> view, stale |-> view # index, moved |-> {}]
  /\ during' = {Depth}
  /\ UNCHANGED <<indices, views, answers>>

Return ==
  /\ call' = Idle
  /\ during' = {}
  /\ UNCHANGED <<indices, views>>

\* size() loads tail_ ...
SizeLoadTail == FirstLoad("size", tailView, tail_)

\* A mistake: the difference is not masked.
SizeUnmasked ==
  /\ call.fn = "size"
  /\ depth' = call.first - headView
  /\ Return
  /\ UNCHANGED isEmpty

\* ... then head_, and masks the difference.
SizeLoadHead ==
  /\ call.fn = "size"
  /\ depth' = (call.first - headView) % Size
  /\ Return
  /\ UNCHANGED isEmpty

\* empty() loads head_ ...
EmptyLoadHead == FirstLoad("empty", headView, head_)

\* A mistake: full is taken for empty.
EmptyOffByOne ==
  /\ call.fn = "empty"
  /\ isEmpty' = (call.first = (tailView + 1) % Size)
  /\ Return
  /\ UNCHANGED depth

\* ... and compares it with tail_.
EmptyLoadTail ==
  /\ call.fn = "empty"
  /\ isEmpty' = (call.first = tailView)
  /\ Return
  /\ UNCHANGED depth

size  == SizeLoadTail \/ SizeLoadHead
empty == EmptyLoadHead \/ EmptyLoadTail

Next == QueueStep \/ HeadArrives \/ TailArrives \/ size \/ empty

Spec == Init /\ [][Next]_vars

\* The observer calls both functions for ever, and a store reaches it in
\* finite time.  Nothing says that anyone pushes or pops.
FairSpec ==
  /\ Spec
  /\ WF_vars(HeadArrives) /\ WF_vars(TailArrives)
  /\ WF_vars(SizeLoadHead) /\ WF_vars(EmptyLoadTail)
  /\ SF_vars(SizeLoadTail) /\ SF_vars(EmptyLoadHead)

-----------------------------------------------------------------------------
(* Properties *)

\* Every variable stays in its range; in particular size() never returns more
\* than capacity(), however its loads fall.
TypeOK ==
  /\ {head_, tail_, headView, tailView} \subseteq 0 .. Size - 1
  /\ call \in [fn : {"idle", "size", "empty"}, first : 0 .. Size - 1,
               stale : BOOLEAN, moved : SUBSET {"push", "pop"}]
  /\ depth \in 0 .. Size - 1
  /\ isEmpty \in BOOLEAN
  /\ during \subseteq 0 .. Size - 1

\* The loads of this call are of one picture: none returned an old value, and
\* between them the queue was not both pushed to and popped from.
Untorn ==
  /\ ~ call.stale
  /\ call.fn = "size" => headView = head_
  /\ call.fn = "empty" => tailView = tail_
  /\ call.moved # {"push", "pop"}

\* An answer is true of some moment of its call, although the two loads are
\* not one: only an old value, or a push and a pop between the loads, can make
\* size() return a depth the queue did not have and empty() miss the truth.
AnswersWithinCall ==
  [][ /\ call.fn = "size" /\ call' = Idle /\ Untorn => depth' \in during
      /\ call.fn = "empty" /\ call' = Idle /\ Untorn =>
           \E d \in during : isEmpty' = (d = 0) ]_vars

\* When the queue comes to rest, both functions come to tell the truth about
\* it, whatever they have said before: a stale answer does not stay.
AnswersSettle ==
  <>[][UNCHANGED indices]_vars
    => <>[](depth = Depth /\ isEmpty = (Depth = 0))
=============================================================================
