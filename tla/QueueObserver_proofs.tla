------------------------ MODULE QueueObserver_proofs ------------------------
(***************************************************************************)
(* What size() and empty() of LockFreeSPSCQueue may answer a third thread, *)
(* for every ring size.                                                    *)
(***************************************************************************)
EXTENDS QueueObserver, TLAPS

\* The number of slots from index h up to index t.
Between(h, t) == (t - h) % Size

\* What a call that has made its first load may rely on, as long as that load
\* was of the latest store.  The number of messages now is one of those of the
\* call; and the index loaded first, together with the other one as it stands
\* now, gives such a number too, unless the other one has moved.
NowIsWitnessed == call # Idle => Between(head_, tail_) \in during

SizeIsWitnessed ==
  call.fn = "size" /\ ~ call.stale =>
    /\ "push" \notin call.moved => tail_ = call.first
    /\ "pop" \notin call.moved => Between(head_, call.first) \in during

EmptyIsWitnessed ==
  call.fn = "empty" /\ ~ call.stale =>
    /\ "pop" \notin call.moved => head_ = call.first
    /\ "push" \notin call.moved => Between(call.first, tail_) \in during

ObserverInv == TypeOK /\ NowIsWitnessed /\ SizeIsWitnessed /\ EmptyIsWitnessed

-----------------------------------------------------------------------------
\* Masked with Size, a number at most one lap off the ring goes round it.
LEMMA Wraps ==
  ASSUME NEW n \in Int, - Size < n, n < 2 * Size
  PROVE  n % Size = IF n < 0 THEN n + Size ELSE IF n < Size THEN n ELSE n - Size
<1>1. CASE n < 0
  BY <1>1, ObserverAssumption
<1>2. CASE n \in 0 .. Size - 1
  BY <1>2, ObserverAssumption
<1>3. CASE n >= Size
  BY <1>3, ObserverAssumption
<1>. QED  BY <1>1, <1>2, <1>3, ObserverAssumption

\* The next index is one of the ring; the distance between two indices fits
\* into it and is zero only from an index to itself.
LEMMA RingFacts ==
  ASSUME NEW h \in 0 .. Size - 1, NEW t \in 0 .. Size - 1
  PROVE  /\ (t + 1) % Size \in 0 .. Size - 1
         /\ Between(h, t) \in 0 .. Size - 1
         /\ Between(h, t) = 0 <=> h = t
<1>1. (t + 1) % Size \in 0 .. Size - 1
  BY Wraps, ObserverAssumption
<1>2. (t - h) % Size = IF t - h < 0 THEN t - h + Size ELSE t - h
  BY Wraps, ObserverAssumption
<1>. QED  BY <1>1, <1>2, ObserverAssumption DEF Between

\* The invariant holds of a new queue that nobody has asked yet.
LEMMA ObserverInit == Init => ObserverInv
<1>. SUFFICES ASSUME Init  PROVE  ObserverInv
  OBVIOUS
<1>1. call = Idle /\ Idle.fn = "idle"
  BY DEF Init, Idle
<1>2. 0 \in 0 .. Size - 1
  BY ObserverAssumption
<1>3. TypeOK
  BY <1>2 DEF Init, IndexInit, TypeOK, Idle
<1>. QED  BY <1>1, <1>3 DEF ObserverInv, NowIsWitnessed, SizeIsWitnessed, EmptyIsWitnessed

\* What the type invariant says of the indices and of a call.
LEMMA CallFacts ==
  ASSUME TypeOK
  PROVE  /\ head_ \in 0 .. Size - 1 /\ tail_ \in 0 .. Size - 1
         /\ headView \in 0 .. Size - 1 /\ tailView \in 0 .. Size - 1
         /\ Between(head_, tail_) \in 0 .. Size - 1
         /\ call.first \in 0 .. Size - 1 /\ call.moved \subseteq {"push", "pop"}
         /\ call.fn \in {"size", "empty"} => call # Idle
<1>1. /\ head_ \in 0 .. Size - 1 /\ tail_ \in 0 .. Size - 1
      /\ headView \in 0 .. Size - 1 /\ tailView \in 0 .. Size - 1
  BY DEF TypeOK
<1>2. call.first \in 0 .. Size - 1 /\ call.moved \subseteq {"push", "pop"}
  BY DEF TypeOK
<1>3. Idle.fn = "idle"
  BY DEF Idle
<1>. QED  BY <1>1, <1>2, <1>3, RingFacts

\* A push moves tail_ and a pop head_.  The call at work takes note of the
\* number of messages there are then.
LEMMA QueueStepKeeps ==
  ASSUME ObserverInv, QueueStep
  PROVE  ObserverInv'
<1>0. TypeOK
  BY DEF ObserverInv
<1>1. head_' \in 0 .. Size - 1 /\ tail_' \in 0 .. Size - 1
  <2>1. head_ \in 0 .. Size - 1 /\ tail_ \in 0 .. Size - 1
    BY <1>0, CallFacts
  <2>2. (head_ + 1) % Size \in 0 .. Size - 1 /\ (tail_ + 1) % Size \in 0 .. Size - 1
    BY <2>1, RingFacts
  <2>. QED  BY <2>1, <2>2 DEF QueueStep, PushIndex, PopIndex
<1>2. Between(head_', tail_') \in 0 .. Size - 1 /\ Depth' = Between(head_', tail_')
  <2>1. Between(head_', tail_') \in 0 .. Size - 1
    BY <1>1, RingFacts
  <2>. QED  BY <2>1 DEF Depth, Between
<1>3. /\ UNCHANGED <<headView, tailView, depth, isEmpty>>
      /\ \/ tail_' = tail_ /\ Witness("pop")
         \/ head_' = head_ /\ Witness("push")
  BY DEF QueueStep, PushIndex, PopIndex, views, answers
<1>4. CASE call = Idle
  <2>1. call' = call /\ during' = during /\ call.fn = "idle"
    BY <1>3, <1>4 DEF Witness, Idle
  <2>2. TypeOK'
    BY <1>0, <1>1, <1>3, <2>1 DEF TypeOK
  <2>. QED  BY <1>4, <2>1, <2>2 DEF ObserverInv, NowIsWitnessed, SizeIsWitnessed,
                                   EmptyIsWitnessed, Idle
<1>5. CASE call # Idle
  <2>1. PICK s \in {"push", "pop"} :
          /\ s = "pop" => tail_' = tail_
          /\ s = "push" => head_' = head_
          /\ call' = [call EXCEPT !.moved = @ \union {s}]
          /\ during' = during \union {Between(head_', tail_')}
    BY <1>2, <1>3, <1>5 DEF Witness
  <2>2. /\ call'.fn = call.fn /\ call'.first = call.first /\ call'.stale = call.stale
        /\ call'.moved = call.moved \union {s}
    BY <1>0, <2>1 DEF TypeOK
  <2>3. TypeOK'
    <3>1. during' \subseteq 0 .. Size - 1
      BY <1>0, <1>2, <2>1 DEF TypeOK
    <3>2. call' \in [fn : {"idle", "size", "empty"}, first : 0 .. Size - 1,
                     stale : BOOLEAN, moved : SUBSET {"push", "pop"}]
      BY <1>0, <2>1 DEF TypeOK
    <3>. QED  BY <1>0, <1>1, <1>3, <3>1, <3>2 DEF TypeOK
  <2>4. NowIsWitnessed'
    <3>1. Between(head_, tail_)' = Between(head_', tail_')
      BY DEF Between
    <3>. QED  BY <2>1, <3>1 DEF NowIsWitnessed
  <2>5. SizeIsWitnessed'
    <3>1. ASSUME call'.fn = "size", ~ call'.stale, "push" \notin call'.moved
          PROVE  tail_' = call'.first
      BY <2>1, <2>2, <3>1 DEF ObserverInv, SizeIsWitnessed
    <3>2. ASSUME call'.fn = "size", ~ call'.stale, "pop" \notin call'.moved
          PROVE  Between(head_', call'.first) \in during'
      <4>1. head_' = head_ /\ call'.first = call.first
        BY <2>1, <2>2, <3>2
      <4>2. Between(head_, call.first) \in during
        BY <2>2, <3>2 DEF ObserverInv, SizeIsWitnessed
      <4>. QED  BY <2>1, <4>1, <4>2
    <3>3. Between(head_, call.first)' = Between(head_', call'.first)
      BY DEF Between
    <3>. QED  BY <3>1, <3>2, <3>3 DEF SizeIsWitnessed
  <2>6. EmptyIsWitnessed'
    <3>1. ASSUME call'.fn = "empty", ~ call'.stale, "pop" \notin call'.moved
          PROVE  head_' = call'.first
      BY <2>1, <2>2, <3>1 DEF ObserverInv, EmptyIsWitnessed
    <3>2. ASSUME call'.fn = "empty", ~ call'.stale, "push" \notin call'.moved
          PROVE  Between(call'.first, tail_') \in during'
      <4>1. tail_' = tail_ /\ call'.first = call.first
        BY <2>1, <2>2, <3>2
      <4>2. Between(call.first, tail_) \in during
        BY <2>2, <3>2 DEF ObserverInv, EmptyIsWitnessed
      <4>. QED  BY <2>1, <4>1, <4>2
    <3>3. Between(call.first, tail_)' = Between(call'.first, tail_')
      BY DEF Between
    <3>. QED  BY <3>1, <3>2, <3>3 DEF EmptyIsWitnessed
  <2>. QED  BY <2>3, <2>4, <2>5, <2>6 DEF ObserverInv
<1>. QED  BY <1>4, <1>5

\* The first load: what it returned, and how many messages there were.
LEMMA FirstLoadKeeps ==
  ASSUME ObserverInv, SizeLoadTail \/ EmptyLoadHead
  PROVE  ObserverInv'
<1>0. TypeOK
  BY DEF ObserverInv
<1>1. /\ UNCHANGED <<head_, tail_, headView, tailView, depth, isEmpty>>
      /\ during' = {Between(head_, tail_)}
  BY DEF SizeLoadTail, EmptyLoadHead, FirstLoad, indices, views, answers, Depth, Between
<1>2. during' \subseteq 0 .. Size - 1
  BY <1>0, <1>1, CallFacts
<1>3. NowIsWitnessed'
  BY <1>1 DEF NowIsWitnessed, Between
<1>4. CASE SizeLoadTail
  <2>1. /\ call' = [fn |-> "size", first |-> tailView, stale |-> tailView # tail_, moved |-> {}]
    BY <1>4 DEF SizeLoadTail, FirstLoad
  <2>2. /\ call'.fn = "size" /\ call'.first = tailView /\ call'.moved = {}
        /\ ~ call'.stale => tailView = tail_
    BY <2>1
  <2>3. call' \in [fn : {"idle", "size", "empty"}, first : 0 .. Size - 1,
                   stale : BOOLEAN, moved : SUBSET {"push", "pop"}]
    BY <1>0, <2>1, CallFacts
  <2>4. TypeOK'
    BY <1>0, <1>1, <1>2, <2>3 DEF TypeOK
  <2>5. SizeIsWitnessed' /\ EmptyIsWitnessed'
    BY <1>1, <2>2 DEF SizeIsWitnessed, EmptyIsWitnessed, Between
  <2>. QED  BY <1>3, <2>4, <2>5 DEF ObserverInv
<1>5. CASE EmptyLoadHead
  <2>1. /\ call' = [fn |-> "empty", first |-> headView, stale |-> headView # head_, moved |-> {}]
    BY <1>5 DEF EmptyLoadHead, FirstLoad
  <2>2. /\ call'.fn = "empty" /\ call'.first = headView /\ call'.moved = {}
        /\ ~ call'.stale => headView = head_
    BY <2>1
  <2>3. call' \in [fn : {"idle", "size", "empty"}, first : 0 .. Size - 1,
                   stale : BOOLEAN, moved : SUBSET {"push", "pop"}]
    BY <1>0, <2>1, CallFacts
  <2>4. TypeOK'
    BY <1>0, <1>1, <1>2, <2>3 DEF TypeOK
  <2>5. SizeIsWitnessed' /\ EmptyIsWitnessed'
    BY <1>1, <2>2 DEF SizeIsWitnessed, EmptyIsWitnessed, Between
  <2>. QED  BY <1>3, <2>4, <2>5 DEF ObserverInv
<1>. QED  BY <1>4, <1>5

\* The second load, with which the call returns.
LEMMA ReturnKeeps ==
  ASSUME ObserverInv, SizeLoadHead \/ EmptyLoadTail
  PROVE  ObserverInv'
<1>0. TypeOK
  BY DEF ObserverInv
<1>1. /\ UNCHANGED <<head_, tail_, headView, tailView>> /\ call' = Idle /\ during' = {}
  BY DEF SizeLoadHead, EmptyLoadTail, Return, indices, views
<1>2. depth' \in 0 .. Size - 1 /\ isEmpty' \in BOOLEAN
  <2>1. Between(headView, call.first) \in 0 .. Size - 1
    BY <1>0, CallFacts, RingFacts
  <2>2. CASE SizeLoadHead
    BY <1>0, <2>1, <2>2 DEF SizeLoadHead, Between, TypeOK
  <2>3. CASE EmptyLoadTail
    <3>1. depth' = depth
      BY <2>3 DEF EmptyLoadTail
    <3>2. isEmpty' \in BOOLEAN
      BY <2>3 DEF EmptyLoadTail
    <3>. QED  BY <1>0, <3>1, <3>2 DEF TypeOK
  <2>. QED  BY <2>2, <2>3
<1>3. Idle \in [fn : {"idle", "size", "empty"}, first : 0 .. Size - 1,
                stale : BOOLEAN, moved : SUBSET {"push", "pop"}]
  BY ObserverAssumption DEF Idle
<1>4. TypeOK'
  BY <1>0, <1>1, <1>2, <1>3 DEF TypeOK
<1>5. call'.fn = "idle"
  BY <1>1 DEF Idle
<1>6. NowIsWitnessed'
  BY <1>1 DEF NowIsWitnessed, Idle
<1>. QED  BY <1>4, <1>5, <1>6 DEF ObserverInv, SizeIsWitnessed, EmptyIsWitnessed

\* Every step keeps the invariant.
LEMMA ObserverStep == ObserverInv /\ [Next]_vars => ObserverInv'
<1>. SUFFICES ASSUME ObserverInv, [Next]_vars  PROVE  ObserverInv'
  OBVIOUS
<1>1. CASE HeadArrives \/ TailArrives \/ UNCHANGED vars
  <2>1. UNCHANGED <<head_, tail_, call, during, depth, isEmpty>>
    BY <1>1 DEF HeadArrives, TailArrives, vars, indices, answers
  <2>2. headView' \in 0 .. Size - 1 /\ tailView' \in 0 .. Size - 1
    BY <1>1, CallFacts DEF ObserverInv, HeadArrives, TailArrives, vars, views
  <2>3. TypeOK'
    BY <2>1, <2>2 DEF ObserverInv, TypeOK
  <2>. QED  BY <2>1, <2>3 DEF ObserverInv, NowIsWitnessed, SizeIsWitnessed, EmptyIsWitnessed,
                             Between, Idle
<1>. QED  BY <1>1, QueueStepKeeps, FirstLoadKeeps, ReturnKeeps DEF Next, size, empty

\* The invariant holds in every reachable state.
LEMMA ObserverInvHolds == Spec => []ObserverInv
BY ObserverInit, ObserverStep, PTL DEF Spec

-----------------------------------------------------------------------------
\* On a ring of any size every variable stays in its range: size() never
\* returns more than capacity(), however stale its loads are.
THEOREM ObserverTypeCorrect == Spec => []TypeOK
BY ObserverInvHolds, PTL DEF ObserverInv

\* A call of size() or empty() whose loads were of the latest stores, with no
\* push and pop both between them, answers what was true at some moment of the
\* call.
THEOREM AnswersAreWitnessed == Spec => AnswersWithinCall
<1>1. ASSUME ObserverInv, [Next]_vars, call.fn = "size", call' = Idle, Untorn
      PROVE  depth' \in during
  <2>0. /\ call # Idle /\ TypeOK /\ ~ call.stale /\ headView = head_
        /\ "push" \notin call.moved \/ "pop" \notin call.moved
    BY <1>1, CallFacts DEF ObserverInv, Untorn
  <2>1. depth' = Between(head_, call.first)
    <3>1. Idle.fn = "idle"
      BY DEF Idle
    <3>2. CASE SizeLoadHead
      BY <2>0, <3>2 DEF SizeLoadHead, Between
    <3>3. CASE QueueStep
      <4>1. call'.fn = call.fn
        BY <2>0, <3>3 DEF QueueStep, Witness, TypeOK
      <4>. QED  BY <1>1, <3>1, <4>1
    <3>4. ~ SizeLoadTail /\ ~ EmptyLoadHead /\ ~ EmptyLoadTail
      BY <1>1, <2>0 DEF SizeLoadTail, EmptyLoadHead, FirstLoad, EmptyLoadTail
    <3>5. ~ HeadArrives /\ ~ TailArrives /\ ~ UNCHANGED vars
      BY <1>1, <2>0 DEF HeadArrives, TailArrives, vars
    <3>. QED  BY <1>1, <3>2, <3>3, <3>4, <3>5 DEF Next, size, empty
  <2>2. CASE "pop" \notin call.moved
    BY <1>1, <2>0, <2>1, <2>2 DEF ObserverInv, SizeIsWitnessed
  <2>3. CASE "push" \notin call.moved
    BY <1>1, <2>0, <2>1, <2>3 DEF ObserverInv, SizeIsWitnessed, NowIsWitnessed
  <2>. QED  BY <2>0, <2>2, <2>3
<1>2. ASSUME ObserverInv, [Next]_vars, call.fn = "empty", call' = Idle, Untorn
      PROVE  \E d \in during : isEmpty' = (d = 0)
  <2>0. /\ call # Idle /\ TypeOK /\ ~ call.stale /\ tailView = tail_
        /\ "push" \notin call.moved \/ "pop" \notin call.moved
        /\ head_ \in 0 .. Size - 1 /\ tail_ \in 0 .. Size - 1 /\ call.first \in 0 .. Size - 1
    BY <1>2, CallFacts DEF ObserverInv, Untorn
  <2>1. isEmpty' = (call.first = tail_)
    <3>1. Idle.fn = "idle"
      BY DEF Idle
    <3>2. CASE EmptyLoadTail
      BY <2>0, <3>2, Zenon DEF EmptyLoadTail
    <3>3. CASE QueueStep
      <4>1. call'.fn = call.fn
        BY <2>0, <3>3 DEF QueueStep, Witness, TypeOK
      <4>. QED  BY <1>2, <3>1, <4>1
    <3>4. ~ SizeLoadTail /\ ~ EmptyLoadHead /\ ~ SizeLoadHead
      BY <1>2, <2>0 DEF SizeLoadTail, EmptyLoadHead, FirstLoad, SizeLoadHead
    <3>5. ~ HeadArrives /\ ~ TailArrives /\ ~ UNCHANGED vars
      BY <1>2, <2>0 DEF HeadArrives, TailArrives, vars
    <3>. QED  BY <1>2, <3>2, <3>3, <3>4, <3>5 DEF Next, size, empty
  <2>2. CASE "pop" \notin call.moved
    <3>1. Between(head_, tail_) \in during /\ head_ = call.first
      BY <1>2, <2>0, <2>2 DEF ObserverInv, EmptyIsWitnessed, NowIsWitnessed
    <3>2. (Between(head_, tail_) = 0) = (call.first = tail_)
      BY <2>0, <3>1, RingFacts
    <3>. QED  BY <2>1, <3>1, <3>2, Zenon
  <2>3. CASE "push" \notin call.moved
    <3>1. Between(call.first, tail_) \in during
      BY <1>2, <2>0, <2>3 DEF ObserverInv, EmptyIsWitnessed
    <3>2. (Between(call.first, tail_) = 0) = (call.first = tail_)
      BY <2>0, RingFacts
    <3>. QED  BY <2>1, <3>1, <3>2, Zenon
  <2>. QED  BY <2>0, <2>2, <2>3
<1>. QED  BY <1>1, <1>2, ObserverInvHolds, PTL DEF AnswersWithinCall, Spec
=============================================================================
