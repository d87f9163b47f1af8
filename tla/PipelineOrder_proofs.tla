------------------------ MODULE PipelineOrder_proofs ------------------------
(***************************************************************************)
(* The messages of one producer that the rules send the same way, those of *)
(* one type among them, reach one strategy in order, whatever the          *)
(* configuration; so the pipeline implements OrderedStreams, and all that  *)
(* the strategies count as violations is gaps.                             *)
(*                                                                         *)
(* A message passes nine levels on its way, from its producer's hand to a  *)
(* strategy's log.  The argument: by the rules (Routed) a route uses one   *)
(* queue at each level, each queue holds it in order (Sorted), and what is *)
(* further on its way is older than what is not (InOrder).                 *)
(***************************************************************************)
EXTENDS Pipeline_proofs

-----------------------------------------------------------------------------
(* The levels *)

\* The messages, as their producers made them, in a family of queues, in a
\* hand, and in a family of hands.
QueueItems(f) == {ItemOf(m) : m \in HeldIn(f)}
HandItems(m)  == IF m = NoMessage THEN {} ELSE {ItemOf(m)}
HandsItems(f) == {ItemOf(m) : m \in HandsOf(f)}

\* The nine levels, the last one first, and the messages given up on.
Levels ==
  << QueueItems(Logs), QueueItems(stage2_queues), HandItems(stage2.message),
     QueueItems(processor_queues), HandsItems(processor),
     QueueItems(stage1_queues), HandItems(stage1.message),
     QueueItems(producer_queues), HandsItems(producer),
     {ItemOf(l.message) : l \in lost} >>

\* One producer's messages of types that the rules send the same way.
SameRoute(a, b) ==
  /\ a.producer_id = b.producer_id
  /\ get_processor_for_message(a.msg_type) = get_processor_for_message(b.msg_type)
  /\ get_strategy_for_message(a.msg_type) = get_strategy_for_message(b.msg_type)

\* On every route, what is in A is older than what is in B.
Before(A, B) ==
  \A a \in A, b \in B : SameRoute(a, b) => a.sequence_number < b.sequence_number

InOrder(L) == \A j, k \in 1 .. 9 : j < k => Before(L[j], L[k])

\* Each queue of the family f holds the messages of each route in order.
Sorted(f) ==
  \A i \in DOMAIN f : \A j, k \in DOMAIN f[i] :
    j < k /\ SameRoute(f[i][j], f[i][k]) => f[i][j].sequence_number < f[i][k].sequence_number

\* Where the rules want message m.
AtProcessor(m, i) == get_processor_for_message(m.msg_type) = i
Marked(m, i) == AtProcessor(m, i) /\ m.processor_id = i
AtStrategy(m, s) ==
  /\ get_strategy_for_message(m.msg_type) = s
  /\ m.processor_id = get_processor_for_message(m.msg_type)

RoutedProducers ==
  /\ \A i \in Producers : producer[i].message # NoMessage => producer[i].message.producer_id = i
  /\ \A i \in Producers : \A k \in DOMAIN producer_queues[i] :
       producer_queues[i][k].producer_id = i
RoutedProcessors ==
  /\ \A i \in Processors : \A k \in DOMAIN stage1_queues[i] : AtProcessor(stage1_queues[i][k], i)
  /\ \A i \in Processors : processor[i].message # NoMessage => Marked(processor[i].message, i)
  /\ \A i \in Processors : \A k \in DOMAIN processor_queues[i] : Marked(processor_queues[i][k], i)
RoutedStrategies ==
  /\ stage2.message # NoMessage =>
       stage2.message.processor_id = get_processor_for_message(stage2.message.msg_type)
  /\ \A s \in Strategies : \A k \in DOMAIN stage2_queues[s] : AtStrategy(stage2_queues[s][k], s)
  /\ \A s \in Strategies : \A k \in DOMAIN Logs[s] : AtStrategy(Logs[s][k], s)
Routed == RoutedProducers /\ RoutedProcessors /\ RoutedStrategies

AllSorted ==
  /\ Sorted(producer_queues) /\ Sorted(stage1_queues) /\ Sorted(processor_queues)
  /\ Sorted(stage2_queues) /\ Sorted(Logs)

\* No message has a number its producer has not given yet.
Numbered ==
  \A k \in 1 .. 10 : \A x \in Levels[k] :
    x.sequence_number < producer[x.producer_id].next_sequence_

OrderInv == Routed /\ AllSorted /\ InOrder(Levels) /\ Numbered

-----------------------------------------------------------------------------
(* Queues and hands *)

Pushed(f, i, m) == [f EXCEPT ![i] = Append(@, m)]
Popped(f, i)    == [f EXCEPT ![i] = Tail(@)]

\* What is in a family of queues after a push.
LEMMA PushFacts ==
  ASSUME NEW ids, NEW f \in [ids -> Seq(Message)], NEW i \in ids, NEW m \in Message,
         NEW g, g = Pushed(f, i, m)
  PROVE  /\ g \in [ids -> Seq(Message)]
         /\ \A j \in ids \ {i} : g[j] = f[j]
         /\ DOMAIN g[i] = DOMAIN f[i] \union {Len(f[i]) + 1}
         /\ DOMAIN f[i] = 1 .. Len(f[i])
         /\ \A k \in DOMAIN f[i] : g[i][k] = f[i][k]
         /\ g[i][Len(f[i]) + 1] = m
<1>1. f[i] \in Seq(Message) /\ g[i] = Append(f[i], m)
  BY DEF Pushed
<1>2. \A j \in ids \ {i} : g[j] = f[j]
  BY DEF Pushed
<1>3. g \in [ids -> Seq(Message)]
  BY <1>1, <1>2 DEF Pushed
<1>4. /\ DOMAIN g[i] = DOMAIN f[i] \union {Len(f[i]) + 1}
      /\ DOMAIN f[i] = 1 .. Len(f[i])
  BY ONLY <1>1
<1>5. /\ \A k \in DOMAIN f[i] : g[i][k] = f[i][k]
      /\ g[i][Len(f[i]) + 1] = m
  BY ONLY <1>1
<1>. QED  BY <1>2, <1>3, <1>4, <1>5

\* What is in a family of queues after a pop.
LEMMA PopFacts ==
  ASSUME NEW ids, NEW f \in [ids -> Seq(Message)], NEW i \in ids, f[i] # <<>>,
         NEW g, g = Popped(f, i)
  PROVE  /\ g \in [ids -> Seq(Message)]
         /\ \A j \in ids \ {i} : g[j] = f[j]
         /\ 1 \in DOMAIN f[i] /\ f[i][1] = Head(f[i]) /\ Head(f[i]) \in Message
         /\ \A k \in DOMAIN g[i] : k \in Nat \ {0} /\ k + 1 \in DOMAIN f[i] /\ g[i][k] = f[i][k + 1]
         /\ \A k \in DOMAIN f[i] : k = 1 \/ (k - 1 \in DOMAIN g[i] /\ g[i][k - 1] = f[i][k])
<1>1. f[i] \in Seq(Message) /\ f[i] # <<>> /\ g[i] = Tail(f[i])
  BY DEF Popped
<1>2. \A j \in ids \ {i} : g[j] = f[j]
  BY DEF Popped
<1>3. g \in [ids -> Seq(Message)]
  BY <1>1, <1>2 DEF Popped
<1>4. /\ 1 \in DOMAIN f[i] /\ f[i][1] = Head(f[i]) /\ Head(f[i]) \in Message
  BY ONLY <1>1
<1>5. \A k \in DOMAIN g[i] : k \in Nat \ {0} /\ k + 1 \in DOMAIN f[i] /\ g[i][k] = f[i][k + 1]
  BY ONLY <1>1
<1>6. \A k \in DOMAIN f[i] : k = 1 \/ (k - 1 \in DOMAIN g[i] /\ g[i][k - 1] = f[i][k])
  BY ONLY <1>1
<1>. QED  BY <1>2, <1>3, <1>4, <1>5, <1>6

\* Where an element of a queue comes from.
LEMMA PushElems ==
  ASSUME NEW ids, NEW f \in [ids -> Seq(Message)], NEW i \in ids, NEW m \in Message,
         NEW g, g = Pushed(f, i, m)
  PROVE  \A j \in ids : \A k \in DOMAIN g[j] :
           (k \in DOMAIN f[j] /\ g[j][k] = f[j][k]) \/ (j = i /\ g[j][k] = m)
<1>1. /\ g \in [ids -> Seq(Message)]
      /\ \A j \in ids \ {i} : g[j] = f[j]
      /\ DOMAIN g[i] = DOMAIN f[i] \union {Len(f[i]) + 1}
      /\ DOMAIN f[i] = 1 .. Len(f[i])
      /\ \A k \in DOMAIN f[i] : g[i][k] = f[i][k]
      /\ g[i][Len(f[i]) + 1] = m
  BY PushFacts
<1>. QED  BY <1>1

\* A pop brings nothing new into the queues.
LEMMA PopElems ==
  ASSUME NEW ids, NEW f \in [ids -> Seq(Message)], NEW i \in ids, f[i] # <<>>,
         NEW g, g = Popped(f, i)
  PROVE  \A j \in ids : \A k \in DOMAIN g[j] : \E n \in DOMAIN f[j] : g[j][k] = f[j][n]
<1>1. /\ g \in [ids -> Seq(Message)]
      /\ \A j \in ids \ {i} : g[j] = f[j]
      /\ 1 \in DOMAIN f[i] /\ f[i][1] = Head(f[i]) /\ Head(f[i]) \in Message
      /\ \A k \in DOMAIN g[i] : k \in Nat \ {0} /\ k + 1 \in DOMAIN f[i] /\ g[i][k] = f[i][k + 1]
      /\ \A k \in DOMAIN f[i] : k = 1 \/ (k - 1 \in DOMAIN g[i] /\ g[i][k - 1] = f[i][k])
  BY PopFacts
<1>2. ASSUME NEW k \in DOMAIN g[i]  PROVE  \E n \in DOMAIN f[i] : g[i][k] = f[i][n]
  BY <1>1, <1>2
<1>3. ASSUME NEW j \in ids \ {i}, NEW k \in DOMAIN g[j]
      PROVE  \E n \in DOMAIN f[j] : g[j][k] = f[j][n]
  BY <1>1, <1>3
<1>. QED  BY <1>2, <1>3

\* The items of a family of queues, one by one.
LEMMA QueueItemsFacts ==
  ASSUME NEW ids, NEW f \in [ids -> Seq(Message)]
  PROVE  /\ \A i \in ids : \A k \in DOMAIN f[i] :
              f[i][k] \in Message /\ ItemOf(f[i][k]) \in QueueItems(f)
         /\ \A x \in QueueItems(f) : \E i \in ids : \E k \in DOMAIN f[i] : x = ItemOf(f[i][k])
BY DEF QueueItems, HeldIn

\* A push adds the message's item.
LEMMA PushItems ==
  ASSUME NEW ids, NEW f \in [ids -> Seq(Message)], NEW i \in ids, NEW m \in Message,
         NEW g, g = Pushed(f, i, m)
  PROVE  QueueItems(g) = QueueItems(f) \union {ItemOf(m)}
<1>1. /\ g \in [ids -> Seq(Message)]
      /\ \A j \in ids \ {i} : g[j] = f[j]
      /\ DOMAIN g[i] = DOMAIN f[i] \union {Len(f[i]) + 1}
      /\ DOMAIN f[i] = 1 .. Len(f[i])
      /\ \A k \in DOMAIN f[i] : g[i][k] = f[i][k]
      /\ g[i][Len(f[i]) + 1] = m
  BY PushFacts
<1>2. /\ \A j \in ids : \A k \in DOMAIN f[j] : ItemOf(f[j][k]) \in QueueItems(f)
      /\ \A x \in QueueItems(f) : \E j \in ids : \E k \in DOMAIN f[j] : x = ItemOf(f[j][k])
  BY QueueItemsFacts
<1>3. /\ \A j \in ids : \A k \in DOMAIN g[j] : ItemOf(g[j][k]) \in QueueItems(g)
      /\ \A x \in QueueItems(g) : \E j \in ids : \E k \in DOMAIN g[j] : x = ItemOf(g[j][k])
  BY <1>1, QueueItemsFacts
<1>4. ASSUME NEW x \in QueueItems(g)  PROVE  x \in QueueItems(f) \union {ItemOf(m)}
  <2>1. PICK j \in ids : \E k \in DOMAIN g[j] : x = ItemOf(g[j][k])
    BY <1>3
  <2>2. PICK k \in DOMAIN g[j] : x = ItemOf(g[j][k])
    BY <2>1
  <2>3. g[j][k] = m \/ (k \in DOMAIN f[j] /\ g[j][k] = f[j][k])
    BY <1>1
  <2>. QED  BY <1>2, <2>2, <2>3
<1>5. ASSUME NEW x \in QueueItems(f)  PROVE  x \in QueueItems(g)
  <2>1. PICK j \in ids : \E k \in DOMAIN f[j] : x = ItemOf(f[j][k])
    BY <1>2
  <2>2. PICK k \in DOMAIN f[j] : x = ItemOf(f[j][k])
    BY <2>1
  <2>3. k \in DOMAIN g[j] /\ g[j][k] = f[j][k]
    BY <1>1
  <2>. QED  BY <1>3, <2>2, <2>3
<1>6. ItemOf(m) \in QueueItems(g)
  <2>1. Len(f[i]) + 1 \in DOMAIN g[i]
    BY <1>1
  <2>. QED  BY <1>1, <1>3, <2>1
<1>. QED  BY <1>4, <1>5, <1>6

\* A pop removes no item but that of the message it returns.
LEMMA PopItems ==
  ASSUME NEW ids, NEW f \in [ids -> Seq(Message)], NEW i \in ids, f[i] # <<>>,
         NEW g, g = Popped(f, i)
  PROVE  QueueItems(f) = QueueItems(g) \union {ItemOf(Head(f[i]))}
<1>1. /\ g \in [ids -> Seq(Message)]
      /\ \A j \in ids \ {i} : g[j] = f[j]
      /\ 1 \in DOMAIN f[i] /\ f[i][1] = Head(f[i])
      /\ \A k \in DOMAIN g[i] : k + 1 \in DOMAIN f[i] /\ g[i][k] = f[i][k + 1]
      /\ \A k \in DOMAIN f[i] : k = 1 \/ (k - 1 \in DOMAIN g[i] /\ g[i][k - 1] = f[i][k])
  BY PopFacts
<1>2. /\ \A j \in ids : \A k \in DOMAIN f[j] : ItemOf(f[j][k]) \in QueueItems(f)
      /\ \A x \in QueueItems(f) : \E j \in ids : \E k \in DOMAIN f[j] : x = ItemOf(f[j][k])
  BY QueueItemsFacts
<1>3. /\ \A j \in ids : \A k \in DOMAIN g[j] : ItemOf(g[j][k]) \in QueueItems(g)
      /\ \A x \in QueueItems(g) : \E j \in ids : \E k \in DOMAIN g[j] : x = ItemOf(g[j][k])
  BY <1>1, QueueItemsFacts
<1>4. ASSUME NEW x \in QueueItems(g)  PROVE  x \in QueueItems(f)
  <2>1. PICK j \in ids : \E k \in DOMAIN g[j] : x = ItemOf(g[j][k])
    BY <1>3
  <2>2. PICK k \in DOMAIN g[j] : x = ItemOf(g[j][k])
    BY <2>1
  <2>3. \E n \in DOMAIN f[j] : g[j][k] = f[j][n]
    <3>1. CASE j = i
      BY <1>1, <3>1
    <3>2. CASE j # i
      BY <1>1, <3>2
    <3>. QED  BY <3>1, <3>2
  <2>. QED  BY <1>2, <2>2, <2>3
<1>5. ASSUME NEW x \in QueueItems(f)  PROVE  x \in QueueItems(g) \union {ItemOf(Head(f[i]))}
  <2>1. PICK j \in ids : \E k \in DOMAIN f[j] : x = ItemOf(f[j][k])
    BY <1>2
  <2>2. PICK k \in DOMAIN f[j] : x = ItemOf(f[j][k])
    BY <2>1
  <2>3. x = ItemOf(Head(f[i])) \/ \E n \in DOMAIN g[j] : g[j][n] = f[j][k]
    BY <1>1, <2>2
  <2>. QED  BY <1>3, <2>2, <2>3
<1>6. ItemOf(Head(f[i])) \in QueueItems(f)
  BY <1>1, <1>2
<1>. QED  BY <1>4, <1>5, <1>6

\* A thread of a family takes a message into its empty hand, or gives the one
\* it has away.
LEMMA TakeItem ==
  ASSUME NEW ids, NEW f, NEW g, DOMAIN f = ids, DOMAIN g = ids, NEW i \in ids,
         \A j \in ids \ {i} : g[j].message = f[j].message,
         f[i].message = NoMessage, g[i].message # NoMessage
  PROVE  HandsItems(g) = HandsItems(f) \union {ItemOf(g[i].message)}
BY DEF HandsItems, HandsOf

\* The items of a family of hands, one by one.
LEMMA HandsItemsFacts ==
  ASSUME NEW ids, NEW f, DOMAIN f = ids
  PROVE  /\ \A i \in ids : f[i].message # NoMessage => ItemOf(f[i].message) \in HandsItems(f)
         /\ \A x \in HandsItems(f) :
              \E i \in ids : f[i].message # NoMessage /\ x = ItemOf(f[i].message)
BY DEF HandsItems, HandsOf

\* Other fields of an object do not matter.
LEMMA KeepItems ==
  ASSUME NEW ids, NEW f, NEW g, DOMAIN f = ids, DOMAIN g = ids,
         \A j \in ids : g[j].message = f[j].message
  PROVE  HandsItems(g) = HandsItems(f)
BY DEF HandsItems, HandsOf

-----------------------------------------------------------------------------
(* Order *)

\* A message as its producer made it keeps its producer, type and number.
LEMMA ItemFacts ==
  ASSUME NEW a \in Message
  PROVE  /\ ItemOf(a).producer_id = a.producer_id /\ ItemOf(a).msg_type = a.msg_type
         /\ ItemOf(a).sequence_number = a.sequence_number
         /\ a.producer_id \in Producers /\ a.msg_type \in MsgTypes
         /\ a.sequence_number \in 1 .. MaxMessages
         /\ ItemOf(a) \in Streams!Item
BY DEF ItemOf, Message, Streams!Item

\* A pop takes the oldest message of its route, if the queues are sorted and
\* no route is in two of them.
LEMMA PopBefore ==
  ASSUME NEW ids, NEW f \in [ids -> Seq(Message)], NEW i \in ids, f[i] # <<>>,
         NEW g, g = Popped(f, i), Sorted(f),
         \A j \in ids : \A k \in DOMAIN f[j], n \in DOMAIN f[i] :
            SameRoute(f[j][k], f[i][n]) => j = i
  PROVE  Before({ItemOf(Head(f[i]))}, QueueItems(g))
<1>1. /\ g \in [ids -> Seq(Message)]
      /\ \A j \in ids \ {i} : g[j] = f[j]
      /\ 1 \in DOMAIN f[i] /\ f[i][1] = Head(f[i]) /\ Head(f[i]) \in Message
      /\ \A k \in DOMAIN g[i] : k \in Nat \ {0} /\ k + 1 \in DOMAIN f[i] /\ g[i][k] = f[i][k + 1]
  BY PopFacts
<1>2. /\ \A j \in ids : \A k \in DOMAIN g[j] : g[j][k] \in Message
      /\ \A x \in QueueItems(g) : \E j \in ids : \E k \in DOMAIN g[j] : x = ItemOf(g[j][k])
  BY <1>1, QueueItemsFacts
<1>3. ASSUME NEW x \in QueueItems(g), SameRoute(ItemOf(Head(f[i])), x)
      PROVE  ItemOf(Head(f[i])).sequence_number < x.sequence_number
  <2>1. PICK j \in ids : \E k \in DOMAIN g[j] : x = ItemOf(g[j][k])
    BY <1>2
  <2>2. PICK k \in DOMAIN g[j] : x = ItemOf(g[j][k])
    BY <2>1
  <2>3. SameRoute(g[j][k], f[i][1])
    BY <1>1, <1>2, <1>3, <2>2, ItemFacts DEF SameRoute
  <2>4. j = i
    <3>1. SUFFICES ASSUME j # i  PROVE  FALSE
      OBVIOUS
    <3>2. k \in DOMAIN f[j] /\ g[j][k] = f[j][k]
      BY <1>1, <3>1
    <3>. QED  BY <1>1, <2>3, <3>1, <3>2
  <2>5. /\ 1 < k + 1 /\ k + 1 \in DOMAIN f[i] /\ 1 \in DOMAIN f[i] /\ i \in DOMAIN f
        /\ g[j][k] = f[i][k + 1]
    BY <1>1, <2>4
  <2>6. SameRoute(f[i][1], f[i][k + 1])
    BY <2>3, <2>5 DEF SameRoute
  <2>7. f[i][1].sequence_number < f[i][k + 1].sequence_number
    BY <2>5, <2>6 DEF Sorted
  <2>. QED  BY <1>1, <1>2, <2>2, <2>5, <2>7, ItemFacts
<1>. QED  BY <1>3 DEF Before

\* A pop leaves the queues sorted.
LEMMA PopSorted ==
  ASSUME NEW ids, NEW f \in [ids -> Seq(Message)], NEW i \in ids, f[i] # <<>>,
         NEW g, g = Popped(f, i), Sorted(f)
  PROVE  Sorted(g)
<1>1. /\ g \in [ids -> Seq(Message)] /\ DOMAIN g = ids /\ DOMAIN f = ids
      /\ \A j \in ids \ {i} : g[j] = f[j]
      /\ \A k \in DOMAIN g[i] : k \in Nat \ {0} /\ k + 1 \in DOMAIN f[i] /\ g[i][k] = f[i][k + 1]
  BY PopFacts
<1>2. ASSUME NEW h \in ids, NEW j \in DOMAIN g[h], NEW k \in DOMAIN g[h],
             j < k, SameRoute(g[h][j], g[h][k])
      PROVE  g[h][j].sequence_number < g[h][k].sequence_number
  <2>1. CASE h # i
    BY <1>1, <1>2, <2>1 DEF Sorted
  <2>2. CASE h = i
    <3>1. /\ j + 1 \in DOMAIN f[i] /\ k + 1 \in DOMAIN f[i] /\ j + 1 < k + 1
          /\ g[h][j] = f[i][j + 1] /\ g[h][k] = f[i][k + 1]
      BY <1>1, <1>2, <2>2
    <3>. QED  BY <1>1, <1>2, <3>1 DEF Sorted
  <2>. QED  BY <2>1, <2>2
<1>. QED  BY <1>1, <1>2 DEF Sorted

\* A push leaves the queues sorted if the message is younger than what is
\* there of its route.
LEMMA PushSorted ==
  ASSUME NEW ids, NEW f \in [ids -> Seq(Message)], NEW i \in ids, NEW m \in Message,
         NEW g, g = Pushed(f, i, m), Sorted(f),
         Before(QueueItems(f), {ItemOf(m)})
  PROVE  Sorted(g)
<1>1. /\ g \in [ids -> Seq(Message)] /\ DOMAIN g = ids /\ DOMAIN f = ids
      /\ \A j \in ids \ {i} : g[j] = f[j]
      /\ DOMAIN g[i] = DOMAIN f[i] \union {Len(f[i]) + 1}
      /\ DOMAIN f[i] = 1 .. Len(f[i])
      /\ \A k \in DOMAIN f[i] : g[i][k] = f[i][k]
      /\ g[i][Len(f[i]) + 1] = m
  BY PushFacts
<1>2. \A k \in DOMAIN f[i] : f[i][k] \in Message /\ ItemOf(f[i][k]) \in QueueItems(f)
  BY QueueItemsFacts
<1>3. ASSUME NEW h \in ids, NEW j \in DOMAIN g[h], NEW k \in DOMAIN g[h],
             j < k, SameRoute(g[h][j], g[h][k])
      PROVE  g[h][j].sequence_number < g[h][k].sequence_number
  <2>1. CASE h # i
    BY <1>1, <1>3, <2>1 DEF Sorted
  <2>2. CASE h = i /\ k \in DOMAIN f[i]
    <3>1. j \in DOMAIN f[i] /\ g[h][j] = f[i][j] /\ g[h][k] = f[i][k]
      BY <1>1, <1>3, <2>2
    <3>. QED  BY <1>1, <1>3, <2>2, <3>1 DEF Sorted
  <2>3. CASE h = i /\ k = Len(f[i]) + 1
    <3>1. j \in DOMAIN f[i] /\ g[h][j] = f[i][j] /\ g[h][k] = m
      BY <1>1, <1>3, <2>3
    <3>2. SameRoute(ItemOf(f[i][j]), ItemOf(m))
      BY <1>2, <1>3, <3>1, ItemFacts DEF SameRoute
    <3>3. ItemOf(f[i][j]).sequence_number < ItemOf(m).sequence_number
      BY <1>2, <3>1, <3>2 DEF Before
    <3>. QED  BY <1>2, <3>1, <3>3, ItemFacts
  <2>. QED  BY <1>1, <2>1, <2>2, <2>3
<1>. QED  BY <1>1, <1>3 DEF Sorted

\* The levels, one by one, before and after a step.
LEMMA LevelFacts ==
  /\ Levels[1] = QueueItems(Logs) /\ Levels[2] = QueueItems(stage2_queues)
  /\ Levels[3] = HandItems(stage2.message) /\ Levels[4] = QueueItems(processor_queues)
  /\ Levels[5] = HandsItems(processor) /\ Levels[6] = QueueItems(stage1_queues)
  /\ Levels[7] = HandItems(stage1.message) /\ Levels[8] = QueueItems(producer_queues)
  /\ Levels[9] = HandsItems(producer) /\ Levels[10] = {ItemOf(l.message) : l \in lost}
  /\ Levels'[1] = QueueItems(Logs)' /\ Levels'[2] = QueueItems(stage2_queues)'
  /\ Levels'[3] = HandItems(stage2.message)' /\ Levels'[4] = QueueItems(processor_queues)'
  /\ Levels'[5] = HandsItems(processor)' /\ Levels'[6] = QueueItems(stage1_queues)'
  /\ Levels'[7] = HandItems(stage1.message)' /\ Levels'[8] = QueueItems(producer_queues)'
  /\ Levels'[9] = HandsItems(producer)' /\ Levels'[10] = {ItemOf(l.message) : l \in lost'}
BY DEF Levels

\* x goes from level b of L to level c, and L becomes M.
Moved(L, M, b, c, x) ==
  /\ L[b] = M[b] \union {x} /\ M[c] = L[c] \union {x}
  /\ \A k \in 1 .. 10 : k \notin {b, c} => M[k] = L[k]

\* Going on to the next level keeps the order if x is the oldest of its route
\* on its level.
LEMMA MoveInOrder ==
  ASSUME NEW L, NEW M, NEW b \in 2 .. 9, NEW x, InOrder(L), Moved(L, M, b, b - 1, x),
         Before({x}, M[b])
  PROVE  InOrder(M)
<1>. SUFFICES ASSUME NEW j \in 1 .. 9, NEW k \in 1 .. 9, j < k  PROVE  Before(M[j], M[k])
  BY DEF InOrder
<1>1. M[k] \subseteq L[k] \/ k = b - 1
  BY DEF Moved
<1>2. M[j] \subseteq L[j] \/ (j = b - 1 /\ M[j] = L[j] \union {x})
  BY DEF Moved
<1>3. CASE k # b - 1 /\ j # b - 1
  BY <1>1, <1>2, <1>3 DEF InOrder, Before
<1>4. CASE k = b - 1
  <2>1. M[k] = L[k] \union {x} /\ M[j] \subseteq L[j] /\ x \in L[b] /\ j < b
    BY <1>2, <1>4 DEF Moved
  <2>2. Before(L[j], L[k]) /\ Before(L[j], L[b])
    BY <2>1 DEF InOrder
  <2>. QED  BY <2>1, <2>2 DEF Before
<1>5. CASE j = b - 1
  <2>1. M[j] = L[j] \union {x} /\ M[k] \subseteq L[k] /\ x \in L[b]
    BY <1>1, <1>5 DEF Moved
  <2>2. Before(L[j], L[k])
    BY DEF InOrder
  <2>3. Before({x}, M[k])
    <3>1. CASE k = b
      BY <3>1
    <3>2. CASE k # b
      <4>1. Before(L[b], L[k])
        BY <1>5, <3>2 DEF InOrder
      <4>. QED  BY <2>1, <4>1 DEF Before
    <3>. QED  BY <3>1, <3>2
  <2>. QED  BY <2>1, <2>2, <2>3 DEF Before
<1>. QED  BY <1>3, <1>4, <1>5

\* Losing something keeps the order.
LEMMA LoseInOrder ==
  ASSUME NEW L, NEW M, InOrder(L), \A k \in 1 .. 9 : M[k] \subseteq L[k]
  PROVE  InOrder(M)
BY DEF InOrder, Before

\* What a step does to the levels.
Stays    == \A k \in 1 .. 10 : Levels'[k] = Levels[k]
Drops    == \E b \in 2 .. 9 : \E x \in Levels[b] : Moved(Levels, Levels', b, 10, x)
Advances ==
  \E b \in 2 .. 9 : \E x \in Levels[b] :
    Moved(Levels, Levels', b, b - 1, x) /\ Before({x}, Levels'[b])
Adds(i) ==
  \E x \in Streams!Item :
    /\ x.producer_id = i
    /\ x.sequence_number = producer[i].next_sequence_
    /\ producer'[i].next_sequence_ = producer[i].next_sequence_ + 1
    /\ Levels'[9] = Levels[9] \union {x}
    /\ \A k \in 1 .. 10 : k # 9 => Levels'[k] = Levels[k]

\* Every level is a set of items.
LEMMA LevelTypes ==
  ASSUME TypeInv
  PROVE  \A k \in 1 .. 10 : Levels[k] \subseteq Streams!Item
<1>0. ObjectsOK
  BY DEF TypeInv
<1>1. \A m \in Message : ItemOf(m) \in Streams!Item
  BY ItemFacts
<1>2. Logs \in [Strategies -> Seq(Message)]
  BY <1>0 DEF Logs, ObjectsOK, StrategiesOK, T!Object
<1>3. /\ Levels[1] \subseteq Streams!Item /\ Levels[2] \subseteq Streams!Item
      /\ Levels[4] \subseteq Streams!Item /\ Levels[6] \subseteq Streams!Item
      /\ Levels[8] \subseteq Streams!Item
  BY <1>0, <1>1, <1>2, LevelFacts DEF ObjectsOK, QueuesOK, QueueItems, HeldIn
<1>4. Levels[3] \subseteq Streams!Item /\ Levels[7] \subseteq Streams!Item
  BY <1>0, <1>1, LevelFacts DEF ObjectsOK, Stage1OK, Stage2OK, S1!Object, S2!Object, HandItems
<1>5. Levels[5] \subseteq Streams!Item /\ Levels[9] \subseteq Streams!Item
  BY <1>0, <1>1, LevelFacts DEF ObjectsOK, ProducersOK, ProcessorsOK, P!Object, W!Object,
                                HandsItems, HandsOf
<1>6. Levels[10] \subseteq Streams!Item
  BY <1>0, <1>1, LevelFacts DEF ObjectsOK, LostOK
<1>. QED  BY <1>3, <1>4, <1>5, <1>6

\* Each of these keeps the order of the levels, and the numbers below the next
\* one.
LEMMA FlowKeeps ==
  ASSUME TypeInv, TypeInv', InOrder(Levels), Numbered,
         \/ /\ Stays \/ Drops \/ Advances
            /\ \A j \in Producers : producer'[j].next_sequence_ = producer[j].next_sequence_
         \/ \E i \in Producers :
              /\ Adds(i)
              /\ \A j \in Producers \ {i} :
                   producer'[j].next_sequence_ = producer[j].next_sequence_
  PROVE  InOrder(Levels)' /\ Numbered'
<1>0. \A k \in 1 .. 10 : Levels[k] \subseteq Streams!Item /\ Levels[k]' \subseteq Streams!Item
  <2>1. \A k \in 1 .. 10 : Levels[k] \subseteq Streams!Item
    BY LevelTypes
  <2>2. (\A k \in 1 .. 10 : Levels[k] \subseteq Streams!Item)'
    BY LevelTypes, PTL
  <2>. QED  BY <2>1, <2>2
<1>1. \A x \in Streams!Item : x.producer_id \in Producers /\ x.sequence_number \in Nat
  BY BoundFacts DEF Streams!Item
<1>2. \A j \in Producers : /\ producer[j].next_sequence_ \in Nat
                           /\ producer'[j].next_sequence_ \in Nat
  <2>1. ProducersOK /\ ProducersOK'
    BY DEF TypeInv, ObjectsOK
  <2>. QED  BY <2>1, BoundFacts DEF ProducersOK, P!Object
<1>3. ASSUME Stays \/ Drops \/ Advances,
             \A j \in Producers : producer'[j].next_sequence_ = producer[j].next_sequence_
      PROVE  Numbered'
  <2>1. ASSUME NEW k \in 1 .. 10, NEW x \in Levels'[k]
        PROVE  \E n \in 1 .. 10 : x \in Levels[n]
    <3>1. CASE Stays
      BY <2>1, <3>1 DEF Stays
    <3>2. ASSUME NEW b \in 2 .. 9, NEW c \in 1 .. 10, NEW y \in Levels[b],
                 Moved(Levels, Levels', b, c, y)
          PROVE  \E n \in 1 .. 10 : x \in Levels[n]
      <4>1. CASE k = c
        <5>1. x \in Levels[c] \/ x \in Levels[b]
          BY <2>1, <3>2, <4>1 DEF Moved
        <5>. QED  BY <5>1
      <4>2. CASE k # c
        BY <2>1, <3>2, <4>2 DEF Moved
      <4>. QED  BY <4>1, <4>2
    <3>3. CASE Drops
      BY <3>2, <3>3 DEF Drops
    <3>4. CASE Advances
      <4>1. \A b \in 2 .. 9 : b - 1 \in 1 .. 10
        OBVIOUS
      <4>. QED  BY <3>2, <3>4, <4>1 DEF Advances
    <3>. QED  BY <1>3, <3>1, <3>3, <3>4
  <2>2. ASSUME NEW k \in 1 .. 10, NEW x \in Levels'[k]
        PROVE  x.sequence_number < producer'[x.producer_id].next_sequence_
    <3>1. PICK n \in 1 .. 10 : x \in Levels[n]
      BY <2>1, <2>2
    <3>2. x.producer_id \in Producers
      BY <1>0, <1>1, <3>1
    <3>. QED  BY <1>3, <3>1, <3>2 DEF Numbered
  <2>. QED  BY <2>2 DEF Numbered
<1>4. CASE Stays /\ \A j \in Producers : producer'[j].next_sequence_ = producer[j].next_sequence_
  BY <1>3, <1>4, LoseInOrder DEF Stays
<1>5. CASE Drops /\ \A j \in Producers : producer'[j].next_sequence_ = producer[j].next_sequence_
  <2>1. \A k \in 1 .. 9 : Levels'[k] \subseteq Levels[k]
    BY <1>5 DEF Drops, Moved
  <2>. QED  BY <1>3, <1>5, <2>1, LoseInOrder
<1>6. CASE Advances /\ \A j \in Producers : producer'[j].next_sequence_ = producer[j].next_sequence_
  <2>1. InOrder(Levels)'
    BY <1>6, MoveInOrder DEF Advances
  <2>. QED  BY <1>3, <1>6, <2>1
<1>7. ASSUME NEW i \in Producers, Adds(i),
             \A j \in Producers \ {i} : producer'[j].next_sequence_ = producer[j].next_sequence_
      PROVE  InOrder(Levels)' /\ Numbered'
  <2>1. PICK x \in Streams!Item :
          /\ x.producer_id = i
          /\ x.sequence_number = producer[i].next_sequence_
          /\ producer'[i].next_sequence_ = producer[i].next_sequence_ + 1
          /\ Levels'[9] = Levels[9] \union {x}
          /\ \A k \in 1 .. 10 : k # 9 => Levels'[k] = Levels[k]
    BY <1>7 DEF Adds
  <2>2. ASSUME NEW k \in 1 .. 8  PROVE  Before(Levels[k], {x})
    <3>1. ASSUME NEW y \in Levels[k], SameRoute(y, x)
          PROVE  y.sequence_number < x.sequence_number
      BY <2>1, <3>1 DEF Numbered, SameRoute
    <3>. QED  BY <3>1 DEF Before
  <2>3. ASSUME NEW j \in 1 .. 9, NEW k \in 1 .. 9, j < k
        PROVE  Before(Levels'[j], Levels'[k])
    <3>1. j \in 1 .. 8 /\ Before(Levels[j], Levels[k]) /\ Levels'[j] = Levels[j]
      BY <2>1, <2>3 DEF InOrder
    <3>2. Before(Levels[j], {x})
      BY <2>2, <3>1
    <3>3. Levels'[k] \subseteq Levels[k] \union {x}
      BY <2>1
    <3>. QED  BY <3>1, <3>2, <3>3 DEF Before
  <2>4. ASSUME NEW k \in 1 .. 10, NEW y \in Levels'[k]
        PROVE  y.sequence_number < producer'[y.producer_id].next_sequence_
    <3>1. y = x \/ y \in Levels[k]
      BY <2>1, <2>4
    <3>2. y = x => y.sequence_number < producer'[y.producer_id].next_sequence_
      BY <1>2, <2>1
    <3>3. y \in Levels[k] =>
            /\ y.sequence_number < producer[y.producer_id].next_sequence_
            /\ y.producer_id \in Producers /\ y.sequence_number \in Nat
      BY <1>0, <1>1 DEF Numbered
    <3>4. y \in Levels[k] => y.sequence_number < producer'[y.producer_id].next_sequence_
      BY <1>2, <1>7, <2>1, <3>3
    <3>. QED  BY <3>1, <3>2, <3>4
  <2>. QED  BY <2>3, <2>4 DEF InOrder, Numbered
<1>. QED  BY <1>4, <1>5, <1>6, <1>7

-----------------------------------------------------------------------------
(* What a component leaves alone *)

\* A step of one stage leaves the levels of the others alone.
LEMMA Frames ==
  /\ AtProducers  => \A k \in 1 .. 7 : Levels'[k] = Levels[k]
  /\ AtStage1     => \A k \in {1, 2, 3, 4, 5, 9} : Levels'[k] = Levels[k]
  /\ AtProcessors => \A k \in {1, 2, 3, 7, 8, 9} : Levels'[k] = Levels[k]
  /\ AtStage2     => \A k \in {1, 5, 6, 7, 8, 9} : Levels'[k] = Levels[k]
  /\ AtStrategies => \A k \in 3 .. 10 : Levels'[k] = Levels[k]
<1>1. UNCHANGED strategy => Levels'[1] = Levels[1]
  BY LevelFacts DEF Logs
<1>2. UNCHANGED stage2_queues => Levels'[2] = Levels[2]
  BY LevelFacts
<1>3. UNCHANGED stage2 => Levels'[3] = Levels[3]
  BY LevelFacts
<1>4. UNCHANGED processor_queues => Levels'[4] = Levels[4]
  BY LevelFacts
<1>5. UNCHANGED processor => Levels'[5] = Levels[5]
  BY LevelFacts
<1>6. UNCHANGED stage1_queues => Levels'[6] = Levels[6]
  BY LevelFacts
<1>7. UNCHANGED stage1 => Levels'[7] = Levels[7]
  BY LevelFacts
<1>8. UNCHANGED producer_queues => Levels'[8] = Levels[8]
  BY LevelFacts
<1>9. UNCHANGED producer => Levels'[9] = Levels[9]
  BY LevelFacts
<1>10. UNCHANGED lost => Levels'[10] = Levels[10]
  BY LevelFacts
<1>11. AtProducers  => \A k \in 1 .. 7 : Levels'[k] = Levels[k]
  BY <1>1, <1>2, <1>3, <1>4, <1>5, <1>6, <1>7 DEF AtProducers
<1>12. AtStage1     => \A k \in {1, 2, 3, 4, 5, 9} : Levels'[k] = Levels[k]
  BY <1>1, <1>2, <1>3, <1>4, <1>5, <1>9 DEF AtStage1
<1>13. AtProcessors => \A k \in {1, 2, 3, 7, 8, 9} : Levels'[k] = Levels[k]
  BY <1>1, <1>2, <1>3, <1>7, <1>8, <1>9 DEF AtProcessors
<1>14. AtStage2     => \A k \in {1, 5, 6, 7, 8, 9} : Levels'[k] = Levels[k]
  BY <1>1, <1>5, <1>6, <1>7, <1>8, <1>9 DEF AtStage2
<1>15. AtStrategies => \A k \in 3 .. 10 : Levels'[k] = Levels[k]
  BY <1>3, <1>4, <1>5, <1>6, <1>7, <1>8, <1>9, <1>10 DEF AtStrategies
<1>. QED  BY <1>11, <1>12, <1>13, <1>14, <1>15

\* What a thread gives up on becomes an item of level 10.
LEMMA LoseItem ==
  ASSUME NEW m, NEW stage, lost' = lost \union {[message |-> m, at |-> stage]}
  PROVE  Levels'[10] = Levels[10] \union {ItemOf(m)}
<1>. SUFFICES ASSUME NEW e, e = [message |-> m, at |-> stage]
              PROVE  Levels'[10] = Levels[10] \union {ItemOf(m)}
  OBVIOUS
<1>1. e.message = m
  OBVIOUS
<1>2. lost' = lost \union {e}
  OBVIOUS
<1>3. {ItemOf(l.message) : l \in lost'} = {ItemOf(l.message) : l \in lost} \union {ItemOf(m)}
  BY ONLY <1>1, <1>2
<1>. QED  BY <1>3, LevelFacts

\* A message leaves a hand.
LEMMA HandAdvances ==
  ASSUME NEW b \in 2 .. 9, NEW x, Moved(Levels, Levels', b, b - 1, x), Before({x}, Levels'[b])
  PROVE  Advances
BY DEF Advances, Moved

\* x leaves level b of L, a family of queues, as the oldest of its route.
QueueOldest(L, M, b, x) == L[b] = M[b] \union {x} /\ Before({x}, M[b])

\* What a pop does, if the queues are sorted and no route is in two of them.
LEMMA PopOldest ==
  ASSUME NEW ids, NEW f \in [ids -> Seq(Message)], NEW i \in ids, f[i] # <<>>,
         NEW m, m = Head(f[i]), NEW g, g = Popped(f, i), Sorted(f),
         \A j \in ids : \A k \in DOMAIN f[j], n \in DOMAIN f[i] :
            SameRoute(f[j][k], f[i][n]) => j = i,
         NEW L, NEW M, NEW b, L[b] = QueueItems(f), M[b] = QueueItems(g)
  PROVE  Sorted(g) /\ QueueOldest(L, M, b, ItemOf(m))
<1>1. Sorted(g)
  BY PopSorted
<1>2. QueueItems(f) = QueueItems(g) \union {ItemOf(m)}
  BY PopItems
<1>3. Before({ItemOf(m)}, QueueItems(g))
  BY PopBefore
<1>. QED  BY <1>1, <1>2, <1>3 DEF QueueOldest

\* What is in one hand.
LEMMA HandFacts ==
  /\ HandItems(NoMessage) = {}
  /\ \A m \in Message : HandItems(m) = {ItemOf(m)}
BY NoMessageAssumption DEF HandItems

\* A message that goes from any level to lost is dropped.
LEMMA HandDrops ==
  ASSUME NEW b \in 2 .. 9, NEW x, Moved(Levels, Levels', b, 10, x)
  PROVE  Drops
BY DEF Drops, Moved

-----------------------------------------------------------------------------
(* The producers *)

\* The steps that move no message.
LEMMA ProducerKeeps ==
  ASSUME TypeInv, NEW i \in Producers,
         \/ P!Start(i) \/ P!StartFails(i) \/ P!Stop(i)
         \/ P!Begin(i) \/ P!Retry(i) \/ P!Exit(i)
  PROVE  /\ UNCHANGED <<producer_queues, lost>>
         /\ DOMAIN producer' = Producers
         /\ \A j \in Producers : /\ producer'[j].message = producer[j].message
                                 /\ producer'[j].next_sequence_ = producer[j].next_sequence_
<1>0. producer \in [Producers -> P!Object] /\ producer[i] \in P!Object
  BY DEF TypeInv, ObjectsOK, ProducersOK
<1>1. CASE P!Start(i)
  BY <1>0, <1>1 DEF P!Start, P!Object
<1>2. CASE P!StartFails(i)
  BY <1>0, <1>2 DEF P!StartFails, P!Object
<1>3. CASE P!Stop(i)
  BY <1>0, <1>3 DEF P!Stop, P!Object
<1>4. CASE P!Begin(i)
  BY <1>0, <1>4 DEF P!Begin, P!Object
<1>5. CASE P!Retry(i)
  BY <1>0, <1>5 DEF P!Retry, P!Object
<1>6. CASE P!Exit(i)
  BY <1>0, <1>6 DEF P!Exit, P!Object
<1>. QED  BY <1>1, <1>2, <1>3, <1>4, <1>5, <1>6

\* The steps that end with an empty hand.
LEMMA ProducerFrees ==
  ASSUME TypeInv, NEW i \in Producers, P!Send(i) \/ P!GiveUp(i)
  PROVE  /\ producer[i].message \in Message /\ producer'[i].message = NoMessage
         /\ DOMAIN producer' = Producers
         /\ \A j \in Producers : producer'[j].next_sequence_ = producer[j].next_sequence_
         /\ \A j \in Producers \ {i} : producer'[j] = producer[j]
         /\ HandsItems(producer) = HandsItems(producer') \union {ItemOf(producer[i].message)}
<1>0. /\ producer \in [Producers -> P!Object] /\ producer[i] \in P!Object
      /\ producer[i].pc = "push" => producer[i].message \in Message
  BY DEF TypeInv, ObjectsOK, ProducersOK, P!Object
<1>1. /\ producer[i].message \in Message /\ producer'[i].message = NoMessage
      /\ DOMAIN producer' = Producers
      /\ \A j \in Producers : producer'[j].next_sequence_ = producer[j].next_sequence_
      /\ \A j \in Producers \ {i} : producer'[j] = producer[j]
  <2>1. CASE P!Send(i)
    BY <1>0, <2>1 DEF P!Send, P!Object
  <2>2. CASE P!GiveUp(i)
    BY <1>0, <2>2 DEF P!GiveUp, P!Object
  <2>. QED  BY <2>1, <2>2
<1>2. /\ DOMAIN producer = Producers
      /\ \A j \in Producers \ {i} : producer[j].message = producer'[j].message
      /\ producer[i].message # NoMessage
  BY <1>0, <1>1, NoMessageAssumption
<1>3. HandsItems(producer) = HandsItems(producer') \union {ItemOf(producer[i].message)}
  BY ONLY <1>1, <1>2, TakeItem
<1>. QED  BY <1>1, <1>3

\* A step of a producer: a new message, a message moved on, a message dropped, or
\* nothing that matters to the order.
LEMMA ProducerFlow ==
  ASSUME TypeInv, TypeInv', OrderInv, NEW i \in Producers, AtProducers,
         P!Start(i) \/ P!StartFails(i) \/ P!Stop(i) \/ P!producer_loop(i)
  PROVE  /\ RoutedProducers' /\ Sorted(producer_queues)'
         /\ \/ /\ Stays \/ Drops \/ Advances
               /\ \A j \in Producers : producer'[j].next_sequence_ = producer[j].next_sequence_
            \/ /\ Adds(i)
               /\ \A j \in Producers \ {i} :
                    producer'[j].next_sequence_ = producer[j].next_sequence_
<1>0. /\ producer \in [Producers -> P!Object] /\ producer[i] \in P!Object
      /\ producer_queues \in [Producers -> Seq(Message)]
      /\ \A j \in Producers : producer[j].pc = "push" <=> producer[j].message # NoMessage
      /\ \A j \in Producers : producer[j].message \in Message \union {NoMessage}
      /\ RoutedProducers /\ Sorted(producer_queues) /\ InOrder(Levels)
  BY DEF TypeInv, ObjectsOK, ProducersOK, P!Object, QueuesOK, OrderInv, Routed, AllSorted
<1>1. \A k \in 1 .. 7 : Levels'[k] = Levels[k]
  BY Frames
<1>2. /\ producer' \in [Producers -> P!Object]
      /\ producer_queues' \in [Producers -> Seq(Message)]
      /\ DOMAIN producer = Producers /\ DOMAIN producer' = Producers
  BY <1>0 DEF TypeInv, ObjectsOK, ProducersOK, QueuesOK
<1>3. CASE P!Start(i) \/ P!StartFails(i) \/ P!Stop(i) \/ P!Begin(i) \/ P!Retry(i) \/ P!Exit(i)
  <2>1. /\ UNCHANGED <<producer_queues, lost>>
        /\ \A j \in Producers : /\ producer'[j].message = producer[j].message
                                /\ producer'[j].next_sequence_ = producer[j].next_sequence_
    BY <1>3, ProducerKeeps
  <2>2. Levels'[8] = Levels[8] /\ Levels'[10] = Levels[10]
    BY <2>1, LevelFacts
  <2>3. HandsItems(producer') = HandsItems(producer)
    BY <1>2, <2>1, KeepItems
  <2>4. Levels'[9] = Levels[9]
    BY <2>3, LevelFacts
  <2>5. Stays
    BY <1>1, <2>2, <2>4 DEF Stays
  <2>. QED  BY <1>0, <2>1, <2>5 DEF RoutedProducers, Sorted
<1>4. CASE P!Generate(i)
  <2>1. PICK t \in MsgTypes :
          producer' = [producer EXCEPT
            ![i].message = P!NewMessage(t, i, producer[i].next_sequence_),
            ![i].next_sequence_ = @ + 1,
            ![i].retry = 0,
            ![i].pc = "push"]
    BY <1>4 DEF P!Generate
  <2>2. PICK m \in Message : /\ m = P!NewMessage(t, i, producer[i].next_sequence_)
                             /\ m.producer_id = i
                             /\ m.sequence_number = producer[i].next_sequence_
    BY <1>0, <1>4, IdFacts, BoundFacts DEF P!NewMessage, P!Object, P!Generate, Message
  <2>3. /\ producer'[i].message = m
        /\ producer'[i].next_sequence_ = producer[i].next_sequence_ + 1
        /\ \A j \in Producers \ {i} : producer'[j] = producer[j]
        /\ UNCHANGED <<producer_queues, lost>>
    BY <1>0, <1>4, <2>1, <2>2 DEF P!Generate, P!Object
  <2>4. producer[i].message = NoMessage /\ m # NoMessage
    BY <1>0, <1>4, NoMessageAssumption DEF P!Generate
  <2>5. HandsItems(producer') = HandsItems(producer) \union {ItemOf(producer'[i].message)}
    <3>1. \A j \in Producers \ {i} : producer'[j].message = producer[j].message
      BY <2>3
    <3>2. producer'[i].message # NoMessage
      BY <2>3, <2>4
    <3>. QED  BY ONLY <1>2, <2>4, <3>1, <3>2, TakeItem
  <2>6. /\ Levels'[9] = Levels[9] \union {ItemOf(m)}
        /\ Levels'[8] = Levels[8] /\ Levels'[10] = Levels[10]
    BY <2>3, <2>5, LevelFacts
  <2>7. Adds(i)
    <3>1. \A k \in 1 .. 10 : k # 9 => Levels'[k] = Levels[k]
      BY <1>1, <2>6
    <3>2. /\ ItemOf(m) \in Streams!Item /\ ItemOf(m).producer_id = i
          /\ ItemOf(m).sequence_number = producer[i].next_sequence_
      BY <2>2, ItemFacts
    <3>. QED  BY <2>3, <2>6, <3>1, <3>2 DEF Adds
  <2>. QED  BY <1>0, <2>2, <2>3, <2>7 DEF RoutedProducers, Sorted
<1>5. CASE P!Send(i) \/ P!GiveUp(i)
  <2>1. /\ producer[i].message \in Message /\ producer'[i].message = NoMessage
        /\ \A j \in Producers : producer'[j].next_sequence_ = producer[j].next_sequence_
        /\ \A j \in Producers \ {i} : producer'[j] = producer[j]
        /\ HandsItems(producer) = HandsItems(producer') \union {ItemOf(producer[i].message)}
    BY <1>5, ProducerFrees
  <2>2. PICK m \in Message : m = producer[i].message /\ m.producer_id = i
    BY <1>0, <2>1, NoMessageAssumption DEF RoutedProducers
  <2>3. ItemOf(m) \in Levels[9] /\ Levels[9] = Levels'[9] \union {ItemOf(m)}
    BY <2>1, <2>2, LevelFacts
  <2>4. \A j \in Producers : producer'[j].message # NoMessage => producer'[j].message.producer_id = j
    BY <1>0, <2>1 DEF RoutedProducers
  <2>5. CASE P!Send(i)
    <3>1. /\ producer_queues' = Pushed(producer_queues, i, m)
          /\ UNCHANGED lost
      BY <2>2, <2>5 DEF P!Send, Pushed
    <3>2. QueueItems(producer_queues') = QueueItems(producer_queues) \union {ItemOf(m)}
      BY ONLY <1>0, <3>1, m \in Message, i \in Producers, PushItems
    <3>3. Levels'[8] = Levels[8] \union {ItemOf(m)} /\ Levels'[10] = Levels[10]
      BY <3>1, <3>2, LevelFacts
    <3>4. Moved(Levels, Levels', 9, 8, ItemOf(m))
      BY <1>1, <2>3, <3>3 DEF Moved
    <3>5. Before({ItemOf(m)}, Levels'[9])
      <4>1. ASSUME NEW x \in Levels'[9]  PROVE  ~ SameRoute(ItemOf(m), x)
        <5>0. x \in HandsItems(producer')
          BY <4>1, LevelFacts
        <5>1. PICK j \in Producers : producer'[j].message # NoMessage /\ x = ItemOf(producer'[j].message)
          BY ONLY <1>2, <5>0, HandsItemsFacts
        <5>2. j # i /\ producer[j].message # NoMessage /\ x = ItemOf(producer[j].message)
          BY <2>1, <5>1
        <5>3. producer[j].message \in Message /\ producer[j].message.producer_id = j
          BY <1>0, <5>2 DEF RoutedProducers
        <5>4. x.producer_id = j /\ ItemOf(m).producer_id = i
          BY <2>2, <5>2, <5>3, ItemFacts
        <5>. QED  BY <5>2, <5>4 DEF SameRoute
      <4>. QED  BY <4>1 DEF Before
    <3>6. Advances
      <4>1. 9 \in 2 .. 9 /\ 9 - 1 = 8
        OBVIOUS
      <4>. QED  BY <3>4, <3>5, <4>1, HandAdvances
    <3>7. Before(QueueItems(producer_queues), {ItemOf(m)})
      <4>1. Before(Levels[8], Levels[9])
        BY <1>0 DEF InOrder
      <4>. QED  BY <2>3, <4>1, LevelFacts DEF Before
    <3>8. Sorted(producer_queues')
      BY ONLY <1>0, <3>1, <3>7, m \in Message, i \in Producers, PushSorted
    <3>9. ASSUME NEW j \in Producers, NEW k \in DOMAIN producer_queues'[j]
          PROVE  producer_queues'[j][k].producer_id = j
      <4>1. \/ k \in DOMAIN producer_queues[j] /\ producer_queues'[j][k] = producer_queues[j][k]
            \/ j = i /\ producer_queues'[j][k] = m
        BY ONLY <1>0, <3>1, <3>9, m \in Message, i \in Producers, PushElems
      <4>. QED  BY <1>0, <2>2, <4>1 DEF RoutedProducers
    <3>. QED  BY <2>1, <2>4, <3>6, <3>8, <3>9 DEF RoutedProducers
  <2>6. CASE P!GiveUp(i)
    <3>1. /\ lost' = lost \union {[message |-> m, at |-> "producer"]}
          /\ UNCHANGED producer_queues
      BY <2>2, <2>6 DEF P!GiveUp
    <3>2. Levels'[10] = Levels[10] \union {ItemOf(m)} /\ Levels'[8] = Levels[8]
      BY <3>1, LoseItem, LevelFacts
    <3>3. Moved(Levels, Levels', 9, 10, ItemOf(m))
      BY <1>1, <2>3, <3>2 DEF Moved
    <3>4. Drops
      BY <3>3, HandDrops
    <3>. QED  BY <1>0, <2>1, <2>4, <3>1, <3>4 DEF RoutedProducers, Sorted
  <2>. QED  BY <1>5, <2>5, <2>6
<1>. QED  BY <1>3, <1>4, <1>5 DEF P!producer_loop
-----------------------------------------------------------------------------
(* The stage 1 router *)

\* The steps that move no message.
LEMMA Stage1Keeps ==
  ASSUME TypeInv,
         \/ S1!Start \/ S1!StartFails \/ S1!Stop
         \/ S1!Loop \/ S1!NextQueue \/ S1!Retry
  PROVE  /\ UNCHANGED <<producer_queues, stage1_queues, lost>>
         /\ stage1'.message = stage1.message
<1>0. stage1 \in S1!Object
  BY DEF TypeInv, ObjectsOK, Stage1OK
<1>1. CASE S1!Start
  BY <1>0, <1>1 DEF S1!Start, S1!Object
<1>2. CASE S1!StartFails
  BY <1>0, <1>2 DEF S1!StartFails, S1!Object
<1>3. CASE S1!Stop
  BY <1>0, <1>3 DEF S1!Stop, S1!Object
<1>4. CASE S1!Loop
  BY <1>0, <1>4 DEF S1!Loop, S1!Object
<1>5. CASE S1!NextQueue
  BY <1>0, <1>5 DEF S1!NextQueue, S1!Object
<1>6. CASE S1!Retry
  BY <1>0, <1>6 DEF S1!Retry, S1!Object
<1>. QED  BY <1>1, <1>2, <1>3, <1>4, <1>5, <1>6

\* The steps that pop: the message is in the router's hand afterwards, or lost.
LEMMA Stage1Pops ==
  ASSUME TypeInv, S1!Pop \/ S1!PopUnroutable
  PROVE  \E i \in Producers : \E m \in Message :
           /\ producer_queues[i] # <<>> /\ m = Head(producer_queues[i])
           /\ producer_queues' = Popped(producer_queues, i)
           /\ UNCHANGED stage1_queues
           /\ stage1.message = NoMessage
           /\ \/ stage1'.message = m /\ UNCHANGED lost
              \/ /\ stage1'.message = NoMessage
                 /\ lost' = lost \union {[message |-> m, at |-> "stage1"]}
<1>0. /\ stage1 \in S1!Object /\ stage1.cursor \in Producers
      /\ stage1.pc = "scan" => stage1.message = NoMessage
      /\ QueuesOK(producer_queues, Producers)
  BY DEF TypeInv, ObjectsOK, Stage1OK, S1!Object
<1>1. PICK i \in Producers : i = stage1.cursor
  BY <1>0
<1>2. /\ producer_queues[i] # <<>> /\ stage1.message = NoMessage
      /\ producer_queues' = Popped(producer_queues, i)
      /\ UNCHANGED stage1_queues
  BY <1>0, <1>1 DEF S1!Pop, S1!PopUnroutable, Popped
<1>3. PICK m \in Message : m = Head(producer_queues[i])
  BY <1>0, <1>2, PopType
<1>4. CASE S1!Pop
  <2>1. stage1' = [stage1 EXCEPT !.message = m, !.retry = 0, !.pc = "push"] /\ UNCHANGED lost
    BY <1>1, <1>3, <1>4 DEF S1!Pop
  <2>2. stage1'.message = m
    BY ONLY <1>0, <2>1 DEF S1!Object
  <2>. QED  BY <1>2, <1>3, <2>1, <2>2
<1>5. CASE S1!PopUnroutable
  <2>1. /\ lost' = lost \union {[message |-> m, at |-> "stage1"]}
        /\ stage1' = [stage1 EXCEPT !.routing_errors_ = S1!Incremented(@)]
    BY <1>1, <1>3, <1>5 DEF S1!PopUnroutable
  <2>2. stage1'.message = NoMessage
    BY ONLY <1>0, <1>2, <2>1 DEF S1!Object
  <2>. QED  BY <1>2, <1>3, <2>1, <2>2
<1>. QED  BY <1>4, <1>5

\* The steps that end with an empty hand: the message is where the rules want
\* it, or lost.
LEMMA Stage1Frees ==
  ASSUME TypeInv, S1!Send \/ S1!GiveUp
  PROVE  \E m \in Message : \E o \in Processors :
           /\ m = stage1.message /\ stage1'.message = NoMessage
           /\ o = get_processor_for_message(m.msg_type)
           /\ UNCHANGED producer_queues
           /\ \/ stage1_queues' = Pushed(stage1_queues, o, m) /\ UNCHANGED lost
              \/ /\ UNCHANGED stage1_queues
                 /\ lost' = lost \union {[message |-> m, at |-> "stage1"]}
<1>0. /\ stage1 \in S1!Object /\ stage1.pc = "push"
      /\ stage1.message \in Message /\ S1!Target \in Processors
  BY DEF TypeInv, ObjectsOK, Stage1OK, S1!Object, S1!Send, S1!GiveUp, S1!Target
<1>1. PICK m \in Message : m = stage1.message
  BY <1>0
<1>2. PICK o \in Processors : o = S1!Target /\ o = get_processor_for_message(m.msg_type)
  BY <1>0, <1>1 DEF S1!Target
<1>3. CASE S1!Send
  <2>1. /\ stage1_queues' = Pushed(stage1_queues, o, m)
        /\ UNCHANGED <<producer_queues, lost>>
    BY <1>1, <1>2, <1>3 DEF S1!Send, Pushed
  <2>2. stage1'.message = NoMessage
    BY <1>0, <1>3 DEF S1!Send, S1!Object
  <2>. QED  BY <1>1, <1>2, <2>1, <2>2
<1>4. CASE S1!GiveUp
  <2>1. /\ lost' = lost \union {[message |-> m, at |-> "stage1"]}
        /\ UNCHANGED <<producer_queues, stage1_queues>>
    BY <1>1, <1>4 DEF S1!GiveUp
  <2>2. stage1'.message = NoMessage
    BY <1>0, <1>4 DEF S1!GiveUp, S1!Object
  <2>. QED  BY <1>1, <1>2, <2>1, <2>2
<1>. QED  BY <1>3, <1>4

\* A step of the stage 1 router leaves everything in order.
LEMMA Stage1Flow ==
  ASSUME TypeInv, TypeInv', OrderInv, AtStage1,
         S1!Start \/ S1!StartFails \/ S1!Stop \/ S1!routing_loop
  PROVE  /\ RoutedProducers' /\ RoutedProcessors'
         /\ Sorted(producer_queues)' /\ Sorted(stage1_queues)'
         /\ Stays \/ Drops \/ Advances
<1>0. /\ producer_queues \in [Producers -> Seq(Message)]
      /\ stage1_queues \in [Processors -> Seq(Message)]
      /\ RoutedProducers /\ RoutedProcessors
      /\ Sorted(producer_queues) /\ Sorted(stage1_queues) /\ InOrder(Levels)
  BY DEF TypeInv, ObjectsOK, QueuesOK, OrderInv, Routed, AllSorted
<1>1. /\ \A k \in {1, 2, 3, 4, 5, 9} : Levels'[k] = Levels[k]
      /\ UNCHANGED <<producer, processor, processor_queues>>
  BY Frames DEF AtStage1
<1>2. ASSUME UNCHANGED stage1_queues
      PROVE  RoutedProcessors' /\ Sorted(stage1_queues)' /\ Levels'[6] = Levels[6]
  BY <1>0, <1>1, <1>2, LevelFacts DEF RoutedProcessors, Sorted
<1>3. ASSUME UNCHANGED producer_queues
      PROVE  RoutedProducers' /\ Sorted(producer_queues)' /\ Levels'[8] = Levels[8]
  BY <1>0, <1>1, <1>3, LevelFacts DEF RoutedProducers, Sorted
<1>4. CASE S1!Start \/ S1!StartFails \/ S1!Stop \/ S1!Loop \/ S1!NextQueue \/ S1!Retry
  <2>1. /\ UNCHANGED <<producer_queues, stage1_queues, lost>>
        /\ stage1'.message = stage1.message
    BY <1>4, Stage1Keeps
  <2>2. Levels'[7] = Levels[7] /\ Levels'[10] = Levels[10]
    BY <2>1, LevelFacts DEF HandItems
  <2>3. Stays
    BY <1>1, <1>2, <1>3, <2>1, <2>2 DEF Stays
  <2>. QED  BY <1>2, <1>3, <2>1, <2>3
<1>5. CASE S1!Pop \/ S1!PopUnroutable
  <2>1. PICK i \in Producers, m \in Message :
           /\ producer_queues[i] # <<>> /\ m = Head(producer_queues[i])
           /\ producer_queues' = Popped(producer_queues, i)
           /\ UNCHANGED stage1_queues
           /\ stage1.message = NoMessage
           /\ \/ stage1'.message = m /\ UNCHANGED lost
              \/ /\ stage1'.message = NoMessage
                 /\ lost' = lost \union {[message |-> m, at |-> "stage1"]}
    BY <1>5, Stage1Pops
  <2>2. \A j \in Producers : \A k \in DOMAIN producer_queues[j], n \in DOMAIN producer_queues[i] :
           SameRoute(producer_queues[j][k], producer_queues[i][n]) => j = i
    BY <1>0 DEF RoutedProducers, SameRoute
  <2>3. Sorted(producer_queues') /\ QueueOldest(Levels, Levels', 8, ItemOf(m))
    <3>1. Levels[8] = QueueItems(producer_queues) /\ Levels'[8] = QueueItems(producer_queues')
      BY LevelFacts
    <3>. QED  BY ONLY <1>0, <2>1, <2>2, <3>1, i \in Producers, PopOldest
  <2>4. RoutedProducers'
    <3>1. \A j \in Producers : \A k \in DOMAIN producer_queues'[j] :
            \E n \in DOMAIN producer_queues[j] : producer_queues'[j][k] = producer_queues[j][n]
      BY ONLY <1>0, <2>1, i \in Producers, PopElems
    <3>. QED  BY <1>0, <1>1, <3>1 DEF RoutedProducers
  <2>5. Drops \/ Advances
    <3>1. CASE stage1'.message = m /\ UNCHANGED lost
      <4>1. Levels'[7] = Levels[7] \union {ItemOf(m)} /\ Levels'[10] = Levels[10]
        BY <2>1, <3>1, HandFacts, LevelFacts
      <4>2. Moved(Levels, Levels', 8, 7, ItemOf(m))
        BY <1>1, <1>2, <2>1, <2>3, <4>1 DEF Moved, QueueOldest
      <4>. QED  BY <2>3, <4>2, HandAdvances DEF QueueOldest
    <3>2. CASE /\ stage1'.message = NoMessage
               /\ lost' = lost \union {[message |-> m, at |-> "stage1"]}
      <4>1. Levels'[7] = Levels[7] /\ Levels'[10] = Levels[10] \union {ItemOf(m)}
        BY <2>1, <3>2, LoseItem, LevelFacts
      <4>2. Moved(Levels, Levels', 8, 10, ItemOf(m))
        BY <1>1, <1>2, <2>1, <2>3, <4>1 DEF Moved, QueueOldest
      <4>. QED  BY <4>2, HandDrops
    <3>. QED  BY <2>1, <3>1, <3>2
  <2>. QED  BY <1>2, <2>1, <2>3, <2>4, <2>5
<1>6. CASE S1!Send \/ S1!GiveUp
  <2>1. PICK m \in Message, o \in Processors :
           /\ m = stage1.message /\ stage1'.message = NoMessage
           /\ o = get_processor_for_message(m.msg_type)
           /\ UNCHANGED producer_queues
           /\ \/ stage1_queues' = Pushed(stage1_queues, o, m) /\ UNCHANGED lost
              \/ /\ UNCHANGED stage1_queues
                 /\ lost' = lost \union {[message |-> m, at |-> "stage1"]}
    BY <1>6, Stage1Frees
  <2>2. Levels[7] = {ItemOf(m)} /\ Levels'[7] = {} /\ Before({ItemOf(m)}, Levels'[7])
    BY <2>1, HandFacts, LevelFacts DEF Before
  <2>3. CASE stage1_queues' = Pushed(stage1_queues, o, m) /\ UNCHANGED lost
    <3>1. QueueItems(stage1_queues') = QueueItems(stage1_queues) \union {ItemOf(m)}
      BY ONLY <1>0, <2>3, m \in Message, o \in Processors, PushItems
    <3>2. Levels'[6] = Levels[6] \union {ItemOf(m)} /\ Levels'[10] = Levels[10]
      BY <2>3, <3>1, LevelFacts
    <3>3. Moved(Levels, Levels', 7, 6, ItemOf(m))
      BY <1>1, <1>3, <2>1, <2>2, <3>2 DEF Moved
    <3>4. Advances
      BY <2>2, <3>3, HandAdvances
    <3>5. Before(QueueItems(stage1_queues), {ItemOf(m)})
      <4>1. Before(Levels[6], Levels[7])
        BY <1>0 DEF InOrder
      <4>. QED  BY <2>2, <4>1, LevelFacts
    <3>6. Sorted(stage1_queues')
      BY ONLY <1>0, <2>3, <3>5, m \in Message, o \in Processors, PushSorted
    <3>7. \A j \in Processors : \A k \in DOMAIN stage1_queues'[j] :
            \/ k \in DOMAIN stage1_queues[j] /\ stage1_queues'[j][k] = stage1_queues[j][k]
            \/ j = o /\ stage1_queues'[j][k] = m
      BY ONLY <1>0, <2>3, m \in Message, o \in Processors, PushElems
    <3>8. RoutedProcessors'
      <4>1. ASSUME NEW j \in Processors, NEW k \in DOMAIN stage1_queues'[j]
            PROVE  AtProcessor(stage1_queues'[j][k], j)
        BY <1>0, <2>1, <3>7, <4>1 DEF RoutedProcessors, AtProcessor
      <4>. QED  BY <1>0, <1>1, <4>1 DEF RoutedProcessors
    <3>. QED  BY <1>3, <2>1, <3>4, <3>6, <3>8
  <2>4. CASE /\ UNCHANGED stage1_queues
             /\ lost' = lost \union {[message |-> m, at |-> "stage1"]}
    <3>1. Levels'[10] = Levels[10] \union {ItemOf(m)}
      BY <2>4, LoseItem
    <3>2. Moved(Levels, Levels', 7, 10, ItemOf(m))
      BY <1>1, <1>2, <1>3, <2>1, <2>2, <2>4, <3>1 DEF Moved
    <3>3. Drops
      BY <3>2, HandDrops
    <3>. QED  BY <1>2, <1>3, <2>1, <2>4, <3>3
  <2>. QED  BY <2>1, <2>3, <2>4
<1>. QED  BY <1>4, <1>5, <1>6 DEF S1!routing_loop

-----------------------------------------------------------------------------
(* The processors *)

\* The steps that move no message.
LEMMA ProcessorKeeps ==
  ASSUME TypeInv, NEW i \in Processors,
         \/ W!Start(i) \/ W!StartFails(i) \/ W!Stop(i)
         \/ W!Loop(i) \/ W!Empty(i) \/ W!Retry(i)
  PROVE  /\ UNCHANGED <<stage1_queues, processor_queues, lost>>
         /\ \A j \in Processors : processor'[j].message = processor[j].message
<1>0. processor \in [Processors -> W!Object] /\ processor[i] \in W!Object
  BY DEF TypeInv, ObjectsOK, ProcessorsOK
<1>1. CASE W!Start(i)
  BY <1>0, <1>1 DEF W!Start, W!Object
<1>2. CASE W!StartFails(i)
  BY <1>0, <1>2 DEF W!StartFails, W!Object
<1>3. CASE W!Stop(i)
  BY <1>0, <1>3 DEF W!Stop, W!Object
<1>4. CASE W!Loop(i)
  BY <1>0, <1>4 DEF W!Loop, W!Object
<1>5. CASE W!Empty(i)
  BY <1>0, <1>5 DEF W!Empty, W!Object
<1>6. CASE W!Retry(i)
  BY <1>0, <1>6 DEF W!Retry, W!Object
<1>. QED  BY <1>1, <1>2, <1>3, <1>4, <1>5, <1>6

\* The message a processor pops is marked, and otherwise as it was.
LEMMA ProcessorPops ==
  ASSUME TypeInv, NEW i \in Processors, W!Pop(i)
  PROVE  \E m \in Message, n \in Message :
           /\ stage1_queues[i] # <<>> /\ m = Head(stage1_queues[i])
           /\ stage1_queues' = Popped(stage1_queues, i)
           /\ n.processor_id = i /\ n.msg_type = m.msg_type /\ ItemOf(n) = ItemOf(m)
           /\ processor[i].message = NoMessage /\ processor'[i].message = n
           /\ \A j \in Processors \ {i} : processor'[j] = processor[j]
           /\ UNCHANGED <<processor_queues, lost>>
<1>0. /\ processor \in [Processors -> W!Object] /\ processor[i] \in W!Object
      /\ processor[i].pc = "push" <=> processor[i].message # NoMessage
      /\ QueuesOK(stage1_queues, Processors)
  BY DEF TypeInv, ObjectsOK, ProcessorsOK
<1>1. /\ stage1_queues[i] # <<>> /\ stage1_queues' = Popped(stage1_queues, i)
      /\ UNCHANGED <<processor_queues, lost>> /\ processor[i].message = NoMessage
  BY <1>0 DEF W!Pop, Popped
<1>2. PICK m \in Message : m = Head(stage1_queues[i])
  BY <1>0, <1>1, PopType
<1>3. PICK n \in Message : n = [m EXCEPT !.processor_id = i]
  BY DEF Message
<1>4. n.processor_id = i /\ n.msg_type = m.msg_type /\ ItemOf(n) = ItemOf(m)
  BY <1>3 DEF Message, ItemOf
<1>5. processor' = [processor EXCEPT ![i].message = n, ![i].retry = 0, ![i].pc = "push"]
  BY <1>2, <1>3 DEF W!Pop
<1>6. /\ processor'[i].message = n
      /\ \A j \in Processors \ {i} : processor'[j] = processor[j]
  BY ONLY <1>0, <1>5, i \in Processors DEF W!Object
<1>. QED  BY <1>1, <1>2, <1>4, <1>6

\* The steps that end with an empty hand: the message is queued, or lost.
LEMMA ProcessorFrees ==
  ASSUME TypeInv, NEW i \in Processors, W!Send(i) \/ W!GiveUp(i)
  PROVE  \E m \in Message :
           /\ m = processor[i].message /\ processor'[i].message = NoMessage
           /\ \A j \in Processors \ {i} : processor'[j] = processor[j]
           /\ UNCHANGED stage1_queues
           /\ \/ processor_queues' = Pushed(processor_queues, i, m) /\ UNCHANGED lost
              \/ /\ UNCHANGED processor_queues
                 /\ lost' = lost \union {[message |-> m, at |-> "processor"]}
<1>0. /\ processor \in [Processors -> W!Object] /\ processor[i] \in W!Object
      /\ processor[i].message \in Message
  BY DEF TypeInv, ObjectsOK, ProcessorsOK, W!Object, W!Send, W!GiveUp
<1>1. PICK m \in Message : m = processor[i].message
  BY <1>0
<1>2. CASE W!Send(i)
  <2>1. /\ processor_queues' = Pushed(processor_queues, i, m)
        /\ UNCHANGED <<stage1_queues, lost>>
    BY <1>1, <1>2 DEF W!Send, Pushed
  <2>2. /\ processor'[i].message = NoMessage
        /\ \A j \in Processors \ {i} : processor'[j] = processor[j]
    BY <1>0, <1>2 DEF W!Send, W!Object
  <2>. QED  BY <1>1, <2>1, <2>2
<1>3. CASE W!GiveUp(i)
  <2>1. /\ lost' = lost \union {[message |-> m, at |-> "processor"]}
        /\ UNCHANGED <<stage1_queues, processor_queues>>
    BY <1>1, <1>3 DEF W!GiveUp
  <2>2. /\ processor'[i].message = NoMessage
        /\ \A j \in Processors \ {i} : processor'[j] = processor[j]
    BY <1>0, <1>3 DEF W!GiveUp, W!Object
  <2>. QED  BY <1>1, <2>1, <2>2
<1>. QED  BY <1>2, <1>3

\* A step of a processor leaves everything in order.
LEMMA ProcessorFlow ==
  ASSUME TypeInv, TypeInv', OrderInv, NEW i \in Processors, AtProcessors,
         W!Start(i) \/ W!StartFails(i) \/ W!Stop(i) \/ W!processor_loop(i)
  PROVE  /\ RoutedProcessors'
         /\ Sorted(stage1_queues)' /\ Sorted(processor_queues)'
         /\ Stays \/ Drops \/ Advances
<1>0. /\ stage1_queues \in [Processors -> Seq(Message)]
      /\ processor_queues \in [Processors -> Seq(Message)]
      /\ DOMAIN processor = Processors /\ DOMAIN processor' = Processors
      /\ \A j \in Processors : processor[j].message \in Message \union {NoMessage}
      /\ RoutedProcessors
      /\ Sorted(stage1_queues) /\ Sorted(processor_queues) /\ InOrder(Levels)
  BY DEF TypeInv, ObjectsOK, ProcessorsOK, W!Object, QueuesOK, OrderInv, Routed, AllSorted
<1>1. \A k \in {1, 2, 3, 7, 8, 9} : Levels'[k] = Levels[k]
  BY Frames
<1>2. ASSUME UNCHANGED stage1_queues
      PROVE  Sorted(stage1_queues)' /\ Levels'[6] = Levels[6]
  BY <1>0, <1>2, LevelFacts DEF Sorted
<1>3. ASSUME UNCHANGED processor_queues
      PROVE  Sorted(processor_queues)' /\ Levels'[4] = Levels[4]
  BY <1>0, <1>3, LevelFacts DEF Sorted
<1>4. CASE W!Start(i) \/ W!StartFails(i) \/ W!Stop(i) \/ W!Loop(i) \/ W!Empty(i) \/ W!Retry(i)
  <2>1. /\ UNCHANGED <<stage1_queues, processor_queues, lost>>
        /\ \A j \in Processors : processor'[j].message = processor[j].message
    BY <1>4, ProcessorKeeps
  <2>2. HandsItems(processor') = HandsItems(processor)
    BY ONLY <1>0, <2>1, KeepItems
  <2>3. Levels'[5] = Levels[5] /\ Levels'[10] = Levels[10]
    BY <2>1, <2>2, LevelFacts
  <2>4. Stays
    BY <1>1, <1>2, <1>3, <2>1, <2>3 DEF Stays
  <2>5. RoutedProcessors'
    BY <1>0, <2>1 DEF RoutedProcessors
  <2>. QED  BY <1>2, <1>3, <2>1, <2>4, <2>5
<1>5. CASE W!Pop(i)
  <2>1. PICK m \in Message, n \in Message :
           /\ stage1_queues[i] # <<>> /\ m = Head(stage1_queues[i])
           /\ stage1_queues' = Popped(stage1_queues, i)
           /\ n.processor_id = i /\ n.msg_type = m.msg_type /\ ItemOf(n) = ItemOf(m)
           /\ processor[i].message = NoMessage /\ processor'[i].message = n
           /\ \A j \in Processors \ {i} : processor'[j] = processor[j]
           /\ UNCHANGED <<processor_queues, lost>>
    BY <1>5, ProcessorPops
  <2>2. \A j \in Processors : \A k \in DOMAIN stage1_queues[j], h \in DOMAIN stage1_queues[i] :
           SameRoute(stage1_queues[j][k], stage1_queues[i][h]) => j = i
    BY <1>0 DEF RoutedProcessors, AtProcessor, SameRoute
  <2>3. Sorted(stage1_queues') /\ QueueOldest(Levels, Levels', 6, ItemOf(m))
    <3>1. Levels[6] = QueueItems(stage1_queues) /\ Levels'[6] = QueueItems(stage1_queues')
      BY LevelFacts
    <3>2. /\ stage1_queues \in [Processors -> Seq(Message)] /\ stage1_queues[i] # <<>>
          /\ m = Head(stage1_queues[i]) /\ stage1_queues' = Popped(stage1_queues, i)
          /\ Sorted(stage1_queues)
      BY <1>0, <2>1
    <3>. QED  BY ONLY <2>2, <3>1, <3>2, i \in Processors, PopOldest
  <2>4. HandsItems(processor') = HandsItems(processor) \union {ItemOf(n)}
    <3>1. n # NoMessage /\ \A j \in Processors \ {i} : processor'[j].message = processor[j].message
      BY <2>1, NoMessageAssumption
    <3>. QED  BY ONLY <1>0, <2>1, <3>1, i \in Processors, TakeItem
  <2>5. Levels'[5] = Levels[5] \union {ItemOf(m)} /\ Levels'[10] = Levels[10]
    BY <2>1, <2>4, LevelFacts
  <2>6. Moved(Levels, Levels', 6, 5, ItemOf(m))
    BY <1>1, <1>3, <2>1, <2>3, <2>5 DEF Moved, QueueOldest
  <2>7. Advances
    BY <2>3, <2>6, HandAdvances DEF QueueOldest
  <2>8. RoutedProcessors'
    <3>1. \A j \in Processors : \A k \in DOMAIN stage1_queues'[j] :
            \E h \in DOMAIN stage1_queues[j] : stage1_queues'[j][k] = stage1_queues[j][h]
      <4>1. /\ stage1_queues \in [Processors -> Seq(Message)] /\ stage1_queues[i] # <<>>
            /\ stage1_queues' = Popped(stage1_queues, i)
        BY <1>0, <2>1
      <4>. QED  BY ONLY <4>1, i \in Processors, PopElems
    <3>2. \A j \in Processors : \A k \in DOMAIN stage1_queues'[j] :
            AtProcessor(stage1_queues'[j][k], j)
      BY <1>0, <3>1 DEF RoutedProcessors
    <3>3. AtProcessor(m, i)
      <4>1. 1 \in DOMAIN stage1_queues[i] /\ m = stage1_queues[i][1]
        <5>1. stage1_queues[i] \in Seq(Message)
          BY <1>0
        <5>. QED  BY <2>1, <5>1
      <4>. QED  BY <1>0, <4>1 DEF RoutedProcessors
    <3>4. Marked(n, i)
      BY <2>1, <3>3 DEF Marked, AtProcessor
    <3>5. \A j \in Processors : processor'[j].message # NoMessage => Marked(processor'[j].message, j)
      BY <1>0, <2>1, <3>4 DEF RoutedProcessors
    <3>. QED  BY <1>0, <2>1, <3>2, <3>5 DEF RoutedProcessors
  <2>. QED  BY <1>3, <2>1, <2>3, <2>7, <2>8
<1>6. CASE W!Send(i) \/ W!GiveUp(i)
  <2>1. PICK m \in Message :
           /\ m = processor[i].message /\ processor'[i].message = NoMessage
           /\ \A j \in Processors \ {i} : processor'[j] = processor[j]
           /\ UNCHANGED stage1_queues
           /\ \/ processor_queues' = Pushed(processor_queues, i, m) /\ UNCHANGED lost
              \/ /\ UNCHANGED processor_queues
                 /\ lost' = lost \union {[message |-> m, at |-> "processor"]}
    BY <1>6, ProcessorFrees
  <2>2. m # NoMessage /\ Marked(m, i)
    BY <1>0, <2>1, NoMessageAssumption DEF RoutedProcessors
  <2>3. HandsItems(processor) = HandsItems(processor') \union {ItemOf(m)}
    <3>1. /\ \A j \in Processors \ {i} : processor[j].message = processor'[j].message
          /\ DOMAIN processor = Processors /\ DOMAIN processor' = Processors
          /\ processor'[i].message = NoMessage /\ processor[i].message # NoMessage
      BY <1>0, <2>1, <2>2
    <3>2. HandsItems(processor) = HandsItems(processor') \union {ItemOf(processor[i].message)}
      BY ONLY <3>1, i \in Processors, TakeItem
    <3>. QED  BY <2>1, <3>2
  <2>4. ItemOf(m) \in Levels[5] /\ Levels[5] = Levels'[5] \union {ItemOf(m)}
    BY <2>3, LevelFacts
  <2>5. \A j \in Processors : processor'[j].message # NoMessage => Marked(processor'[j].message, j)
    BY <1>0, <2>1 DEF RoutedProcessors
  <2>6. Before({ItemOf(m)}, Levels'[5])
    <3>1. ASSUME NEW x \in Levels'[5]  PROVE  ~ SameRoute(ItemOf(m), x)
      <4>0. x \in HandsItems(processor')
        BY <3>1, LevelFacts
      <4>1. PICK j \in Processors : processor'[j].message # NoMessage /\ x = ItemOf(processor'[j].message)
        BY ONLY <1>0, <4>0, HandsItemsFacts
      <4>2. j # i /\ processor'[j].message = processor[j].message
        BY <2>1, <4>1
      <4>3. processor'[j].message \in Message /\ Marked(processor'[j].message, j)
        BY <1>0, <2>5, <4>1, <4>2
      <4>4. x.msg_type = processor'[j].message.msg_type /\ ItemOf(m).msg_type = m.msg_type
        BY <4>1, <4>3, ItemFacts
      <4>. QED  BY <2>2, <4>2, <4>3, <4>4 DEF SameRoute, Marked, AtProcessor
    <3>. QED  BY <3>1 DEF Before
  <2>7. CASE processor_queues' = Pushed(processor_queues, i, m) /\ UNCHANGED lost
    <3>1. QueueItems(processor_queues') = QueueItems(processor_queues) \union {ItemOf(m)}
      BY ONLY <1>0, <2>7, m \in Message, i \in Processors, PushItems
    <3>2. Levels'[4] = Levels[4] \union {ItemOf(m)} /\ Levels'[10] = Levels[10]
      BY <2>7, <3>1, LevelFacts
    <3>3. Moved(Levels, Levels', 5, 4, ItemOf(m))
      BY <1>1, <1>2, <2>1, <2>4, <3>2 DEF Moved
    <3>4. Advances
      BY <2>6, <3>3, HandAdvances
    <3>5. Before(QueueItems(processor_queues), {ItemOf(m)})
      <4>1. Before(Levels[4], Levels[5])
        BY <1>0 DEF InOrder
      <4>. QED  BY <2>4, <4>1, LevelFacts DEF Before
    <3>6. Sorted(processor_queues')
      BY ONLY <1>0, <2>7, <3>5, m \in Message, i \in Processors, PushSorted
    <3>7. \A j \in Processors : \A k \in DOMAIN processor_queues'[j] :
            \/ k \in DOMAIN processor_queues[j] /\ processor_queues'[j][k] = processor_queues[j][k]
            \/ j = i /\ processor_queues'[j][k] = m
      <4>1. /\ processor_queues \in [Processors -> Seq(Message)]
            /\ processor_queues' = Pushed(processor_queues, i, m)
        BY <1>0, <2>7
      <4>. QED  BY ONLY <4>1, m \in Message, i \in Processors, PushElems
    <3>8. RoutedProcessors'
      <4>1. ASSUME NEW j \in Processors, NEW k \in DOMAIN processor_queues'[j]
            PROVE  Marked(processor_queues'[j][k], j)
        BY <1>0, <2>2, <3>7, <4>1 DEF RoutedProcessors
      <4>. QED  BY <1>0, <2>1, <2>5, <4>1 DEF RoutedProcessors
    <3>. QED  BY <1>2, <2>1, <3>4, <3>6, <3>8
  <2>8. CASE /\ UNCHANGED processor_queues
             /\ lost' = lost \union {[message |-> m, at |-> "processor"]}
    <3>1. Levels'[10] = Levels[10] \union {ItemOf(m)}
      BY <2>8, LoseItem
    <3>2. Moved(Levels, Levels', 5, 10, ItemOf(m))
      BY <1>1, <1>2, <1>3, <2>1, <2>4, <2>8, <3>1 DEF Moved
    <3>3. Drops
      BY <3>2, HandDrops
    <3>4. RoutedProcessors'
      BY <1>0, <2>1, <2>5, <2>8 DEF RoutedProcessors
    <3>. QED  BY <1>2, <1>3, <2>1, <2>8, <3>3, <3>4
  <2>. QED  BY <2>1, <2>7, <2>8
<1>. QED  BY <1>4, <1>5, <1>6 DEF W!processor_loop

-----------------------------------------------------------------------------
(* The stage 2 router *)

\* The steps that move no message.
LEMMA Stage2Keeps ==
  ASSUME TypeInv,
         \/ S2!Start \/ S2!StartFails \/ S2!Stop
         \/ S2!Loop \/ S2!NextQueue \/ S2!Retry
  PROVE  /\ UNCHANGED <<processor_queues, stage2_queues, lost>>
         /\ stage2'.message = stage2.message
<1>0. stage2 \in S2!Object
  BY DEF TypeInv, ObjectsOK, Stage2OK
<1>1. CASE S2!Start
  BY <1>0, <1>1 DEF S2!Start, S2!Object
<1>2. CASE S2!StartFails
  BY <1>0, <1>2 DEF S2!StartFails, S2!Object
<1>3. CASE S2!Stop
  BY <1>0, <1>3 DEF S2!Stop, S2!Object
<1>4. CASE S2!Loop
  BY <1>0, <1>4 DEF S2!Loop, S2!Object
<1>5. CASE S2!NextQueue
  BY <1>0, <1>5 DEF S2!NextQueue, S2!Object
<1>6. CASE S2!Retry
  BY <1>0, <1>6 DEF S2!Retry, S2!Object
<1>. QED  BY <1>1, <1>2, <1>3, <1>4, <1>5, <1>6

\* The steps that pop: the message is in the router's hand afterwards, or lost.
LEMMA Stage2Pops ==
  ASSUME TypeInv, S2!Pop \/ S2!PopUnroutable
  PROVE  \E i \in Processors : \E m \in Message :
           /\ processor_queues[i] # <<>> /\ m = Head(processor_queues[i])
           /\ processor_queues' = Popped(processor_queues, i)
           /\ UNCHANGED stage2_queues
           /\ stage2.message = NoMessage
           /\ \/ stage2'.message = m /\ UNCHANGED lost
              \/ /\ stage2'.message = NoMessage
                 /\ lost' = lost \union {[message |-> m, at |-> "stage2"]}
<1>0. /\ stage2 \in S2!Object /\ stage2.cursor \in Processors
      /\ stage2.pc = "scan" => stage2.message = NoMessage
      /\ QueuesOK(processor_queues, Processors)
  BY DEF TypeInv, ObjectsOK, Stage2OK, S2!Object
<1>1. PICK i \in Processors : i = stage2.cursor
  BY <1>0
<1>2. /\ processor_queues[i] # <<>> /\ stage2.message = NoMessage
      /\ processor_queues' = Popped(processor_queues, i)
      /\ UNCHANGED stage2_queues
  BY <1>0, <1>1 DEF S2!Pop, S2!PopUnroutable, Popped
<1>3. PICK m \in Message : m = Head(processor_queues[i])
  BY <1>0, <1>2, PopType
<1>4. CASE S2!Pop
  <2>1. stage2' = [stage2 EXCEPT !.message = m, !.retry = 0, !.pc = "push"] /\ UNCHANGED lost
    BY <1>1, <1>3, <1>4 DEF S2!Pop
  <2>2. stage2'.message = m
    BY ONLY <1>0, <2>1 DEF S2!Object
  <2>. QED  BY <1>2, <1>3, <2>1, <2>2
<1>5. CASE S2!PopUnroutable
  <2>1. /\ lost' = lost \union {[message |-> m, at |-> "stage2"]}
        /\ stage2' = [stage2 EXCEPT !.routing_errors_ = S2!Incremented(@)]
    BY <1>1, <1>3, <1>5 DEF S2!PopUnroutable
  <2>2. stage2'.message = NoMessage
    BY ONLY <1>0, <1>2, <2>1 DEF S2!Object
  <2>. QED  BY <1>2, <1>3, <2>1, <2>2
<1>. QED  BY <1>4, <1>5

\* The steps that end with an empty hand: the message is where the rules want
\* it, or lost.
LEMMA Stage2Frees ==
  ASSUME TypeInv, S2!Send \/ S2!GiveUp
  PROVE  \E m \in Message : \E o \in Strategies :
           /\ m = stage2.message /\ stage2'.message = NoMessage
           /\ o = get_strategy_for_message(m.msg_type)
           /\ UNCHANGED processor_queues
           /\ \/ stage2_queues' = Pushed(stage2_queues, o, m) /\ UNCHANGED lost
              \/ /\ UNCHANGED stage2_queues
                 /\ lost' = lost \union {[message |-> m, at |-> "stage2"]}
<1>0. /\ stage2 \in S2!Object /\ stage2.pc = "push"
      /\ stage2.message \in Message /\ S2!Target \in Strategies
  BY DEF TypeInv, ObjectsOK, Stage2OK, S2!Object, S2!Send, S2!GiveUp, S2!Target
<1>1. PICK m \in Message : m = stage2.message
  BY <1>0
<1>2. PICK o \in Strategies : o = S2!Target /\ o = get_strategy_for_message(m.msg_type)
  BY <1>0, <1>1 DEF S2!Target
<1>3. CASE S2!Send
  <2>1. /\ stage2_queues' = Pushed(stage2_queues, o, m)
        /\ UNCHANGED <<processor_queues, lost>>
    BY <1>1, <1>2, <1>3 DEF S2!Send, Pushed
  <2>2. stage2'.message = NoMessage
    BY <1>0, <1>3 DEF S2!Send, S2!Object
  <2>. QED  BY <1>1, <1>2, <2>1, <2>2
<1>4. CASE S2!GiveUp
  <2>1. /\ lost' = lost \union {[message |-> m, at |-> "stage2"]}
        /\ UNCHANGED <<processor_queues, stage2_queues>>
    BY <1>1, <1>4 DEF S2!GiveUp
  <2>2. stage2'.message = NoMessage
    BY <1>0, <1>4 DEF S2!GiveUp, S2!Object
  <2>. QED  BY <1>1, <1>2, <2>1, <2>2
<1>. QED  BY <1>3, <1>4

\* A step of the stage 2 router leaves everything in order.
LEMMA Stage2Flow ==
  ASSUME TypeInv, TypeInv', OrderInv, AtStage2,
         S2!Start \/ S2!StartFails \/ S2!Stop \/ S2!routing_loop
  PROVE  /\ RoutedProcessors' /\ RoutedStrategies'
         /\ Sorted(processor_queues)' /\ Sorted(stage2_queues)'
         /\ Stays \/ Drops \/ Advances
<1>0. /\ processor_queues \in [Processors -> Seq(Message)]
      /\ stage2_queues \in [Strategies -> Seq(Message)]
      /\ RoutedProcessors /\ RoutedStrategies
      /\ Sorted(processor_queues) /\ Sorted(stage2_queues) /\ InOrder(Levels)
  BY DEF TypeInv, ObjectsOK, QueuesOK, OrderInv, Routed, AllSorted
<1>1. /\ \A k \in {1, 5, 6, 7, 8, 9} : Levels'[k] = Levels[k]
      /\ UNCHANGED <<processor, stage1_queues, Logs>>
  BY Frames DEF AtStage2, Logs
<1>2. ASSUME UNCHANGED stage2_queues
      PROVE  Sorted(stage2_queues)' /\ Levels'[2] = Levels[2]
  BY <1>0, <1>2, LevelFacts DEF Sorted
<1>3. ASSUME UNCHANGED processor_queues
      PROVE  RoutedProcessors' /\ Sorted(processor_queues)' /\ Levels'[4] = Levels[4]
  BY <1>0, <1>1, <1>3, LevelFacts DEF RoutedProcessors, Sorted
<1>4. CASE S2!Start \/ S2!StartFails \/ S2!Stop \/ S2!Loop \/ S2!NextQueue \/ S2!Retry
  <2>1. /\ UNCHANGED <<processor_queues, stage2_queues, lost>>
        /\ stage2'.message = stage2.message
    BY <1>4, Stage2Keeps
  <2>2. Levels'[3] = Levels[3] /\ Levels'[10] = Levels[10]
    BY <2>1, LevelFacts DEF HandItems
  <2>3. Stays
    BY <1>1, <1>2, <1>3, <2>1, <2>2 DEF Stays
  <2>4. RoutedStrategies'
    BY <1>0, <1>1, <2>1 DEF RoutedStrategies
  <2>. QED  BY <1>2, <1>3, <2>1, <2>3, <2>4
<1>5. CASE S2!Pop \/ S2!PopUnroutable
  <2>1. PICK i \in Processors, m \in Message :
           /\ processor_queues[i] # <<>> /\ m = Head(processor_queues[i])
           /\ processor_queues' = Popped(processor_queues, i)
           /\ UNCHANGED stage2_queues
           /\ stage2.message = NoMessage
           /\ \/ stage2'.message = m /\ UNCHANGED lost
              \/ /\ stage2'.message = NoMessage
                 /\ lost' = lost \union {[message |-> m, at |-> "stage2"]}
    BY <1>5, Stage2Pops
  <2>2. \A j \in Processors : \A k \in DOMAIN processor_queues[j], n \in DOMAIN processor_queues[i] :
           SameRoute(processor_queues[j][k], processor_queues[i][n]) => j = i
    BY <1>0 DEF RoutedProcessors, Marked, AtProcessor, SameRoute
  <2>3. Sorted(processor_queues') /\ QueueOldest(Levels, Levels', 4, ItemOf(m))
    <3>1. Levels[4] = QueueItems(processor_queues) /\ Levels'[4] = QueueItems(processor_queues')
      BY LevelFacts
    <3>. QED  BY ONLY <1>0, <2>1, <2>2, <3>1, i \in Processors, PopOldest
  <2>4. RoutedProcessors'
    <3>1. \A j \in Processors : \A k \in DOMAIN processor_queues'[j] :
            \E n \in DOMAIN processor_queues[j] : processor_queues'[j][k] = processor_queues[j][n]
      BY ONLY <1>0, <2>1, i \in Processors, PopElems
    <3>. QED  BY <1>0, <1>1, <3>1 DEF RoutedProcessors
  <2>5. RoutedStrategies'
    <3>1. 1 \in DOMAIN processor_queues[i] /\ m = processor_queues[i][1]
      <4>1. processor_queues[i] \in Seq(Message)
        BY <1>0
      <4>. QED  BY <2>1, <4>1
    <3>2. Marked(m, i)
      BY <1>0, <3>1 DEF RoutedProcessors
    <3>3. stage2'.message # NoMessage =>
            stage2'.message.processor_id = get_processor_for_message(stage2'.message.msg_type)
      BY <2>1, <3>2 DEF Marked, AtProcessor
    <3>. QED  BY <1>0, <1>1, <2>1, <3>3 DEF RoutedStrategies
  <2>6. Drops \/ Advances
    <3>1. CASE stage2'.message = m /\ UNCHANGED lost
      <4>1. Levels'[3] = Levels[3] \union {ItemOf(m)} /\ Levels'[10] = Levels[10]
        BY <2>1, <3>1, HandFacts, LevelFacts
      <4>2. Moved(Levels, Levels', 4, 3, ItemOf(m))
        BY <1>1, <1>2, <2>1, <2>3, <4>1 DEF Moved, QueueOldest
      <4>. QED  BY <2>3, <4>2, HandAdvances DEF QueueOldest
    <3>2. CASE /\ stage2'.message = NoMessage
               /\ lost' = lost \union {[message |-> m, at |-> "stage2"]}
      <4>1. Levels'[3] = Levels[3] /\ Levels'[10] = Levels[10] \union {ItemOf(m)}
        BY <2>1, <3>2, LoseItem, LevelFacts
      <4>2. Moved(Levels, Levels', 4, 10, ItemOf(m))
        BY <1>1, <1>2, <2>1, <2>3, <4>1 DEF Moved, QueueOldest
      <4>. QED  BY <4>2, HandDrops
    <3>. QED  BY <2>1, <3>1, <3>2
  <2>. QED  BY <1>2, <2>1, <2>3, <2>4, <2>5, <2>6
<1>6. CASE S2!Send \/ S2!GiveUp
  <2>1. PICK m \in Message, o \in Strategies :
           /\ m = stage2.message /\ stage2'.message = NoMessage
           /\ o = get_strategy_for_message(m.msg_type)
           /\ UNCHANGED processor_queues
           /\ \/ stage2_queues' = Pushed(stage2_queues, o, m) /\ UNCHANGED lost
              \/ /\ UNCHANGED stage2_queues
                 /\ lost' = lost \union {[message |-> m, at |-> "stage2"]}
    BY <1>6, Stage2Frees
  <2>2. Levels[3] = {ItemOf(m)} /\ Levels'[3] = {} /\ Before({ItemOf(m)}, Levels'[3])
    BY <2>1, HandFacts, LevelFacts DEF Before
  <2>3. CASE stage2_queues' = Pushed(stage2_queues, o, m) /\ UNCHANGED lost
    <3>1. QueueItems(stage2_queues') = QueueItems(stage2_queues) \union {ItemOf(m)}
      BY ONLY <1>0, <2>3, m \in Message, o \in Strategies, PushItems
    <3>2. Levels'[2] = Levels[2] \union {ItemOf(m)} /\ Levels'[10] = Levels[10]
      BY <2>3, <3>1, LevelFacts
    <3>3. Moved(Levels, Levels', 3, 2, ItemOf(m))
      BY <1>1, <1>3, <2>1, <2>2, <3>2 DEF Moved
    <3>4. Advances
      BY <2>2, <3>3, HandAdvances
    <3>5. Before(QueueItems(stage2_queues), {ItemOf(m)})
      <4>1. Before(Levels[2], Levels[3])
        BY <1>0 DEF InOrder
      <4>. QED  BY <2>2, <4>1, LevelFacts
    <3>6. Sorted(stage2_queues')
      BY ONLY <1>0, <2>3, <3>5, m \in Message, o \in Strategies, PushSorted
    <3>7. \A j \in Strategies : \A k \in DOMAIN stage2_queues'[j] :
            \/ k \in DOMAIN stage2_queues[j] /\ stage2_queues'[j][k] = stage2_queues[j][k]
            \/ j = o /\ stage2_queues'[j][k] = m
      BY ONLY <1>0, <2>3, m \in Message, o \in Strategies, PushElems
    <3>8. RoutedStrategies'
      <4>1. AtStrategy(m, o)
        BY <1>0, <2>1, NoMessageAssumption DEF RoutedStrategies, AtStrategy
      <4>2. ASSUME NEW j \in Strategies, NEW k \in DOMAIN stage2_queues'[j]
            PROVE  AtStrategy(stage2_queues'[j][k], j)
        BY <1>0, <3>7, <4>1, <4>2 DEF RoutedStrategies
      <4>. QED  BY <1>0, <1>1, <2>1, <4>2 DEF RoutedStrategies
    <3>. QED  BY <1>3, <2>1, <3>4, <3>6, <3>8
  <2>4. CASE /\ UNCHANGED stage2_queues
             /\ lost' = lost \union {[message |-> m, at |-> "stage2"]}
    <3>1. Levels'[10] = Levels[10] \union {ItemOf(m)}
      BY <2>4, LoseItem
    <3>2. Moved(Levels, Levels', 3, 10, ItemOf(m))
      BY <1>1, <1>2, <1>3, <2>1, <2>2, <2>4, <3>1 DEF Moved
    <3>3. Drops
      BY <3>2, HandDrops
    <3>4. RoutedStrategies'
      BY <1>0, <1>1, <2>1, <2>4 DEF RoutedStrategies
    <3>. QED  BY <1>2, <1>3, <2>1, <2>4, <3>3, <3>4
  <2>. QED  BY <2>1, <2>3, <2>4
<1>. QED  BY <1>4, <1>5, <1>6 DEF S2!routing_loop

-----------------------------------------------------------------------------
(* The strategies *)

\* The steps that move no message.
LEMMA StrategyKeeps ==
  ASSUME TypeInv, NEW i \in Strategies,
         T!Start(i) \/ T!StartFails(i) \/ T!Stop(i) \/ T!Loop(i) \/ T!Empty(i)
  PROVE  UNCHANGED <<stage2_queues, Logs>>
<1>0. /\ strategy \in [Strategies -> T!Object] /\ strategy[i] \in T!Object
      /\ \A j \in Strategies : strategy[j] \in T!Object
  BY DEF TypeInv, ObjectsOK, StrategiesOK
<1>1. ASSUME NEW b \in BOOLEAN, strategy' = [strategy EXCEPT ![i].running_ = b]
      PROVE  \A j \in Strategies : strategy'[j].log = strategy[j].log
  BY ONLY <1>0, <1>1, i \in Strategies DEF T!Object
<1>2. ASSUME NEW p, strategy' = [strategy EXCEPT ![i].pc = p]
      PROVE  \A j \in Strategies : strategy'[j].log = strategy[j].log
  BY ONLY <1>0, <1>2, i \in Strategies DEF T!Object
<1>3. ASSUME strategy' = [strategy EXCEPT ![i].running_ = TRUE, ![i].pc = "loop"]
      PROVE  \A j \in Strategies : strategy'[j].log = strategy[j].log
  BY ONLY <1>0, <1>3, i \in Strategies DEF T!Object
<1>4. \A j \in Strategies : strategy'[j].log = strategy[j].log
  <2>1. CASE T!Start(i)
    BY <1>3, <2>1 DEF T!Start
  <2>2. CASE T!StartFails(i)
    BY <1>1, <2>2 DEF T!StartFails
  <2>3. CASE T!Stop(i)
    BY <1>1, <2>3 DEF T!Stop
  <2>4. CASE T!Loop(i)
    BY <1>2, <2>4 DEF T!Loop
  <2>5. CASE T!Empty(i)
    BY <1>2, <2>5 DEF T!Empty
  <2>. QED  BY <2>1, <2>2, <2>3, <2>4, <2>5
<1>5. UNCHANGED stage2_queues
  BY DEF T!Start, T!StartFails, T!Stop, T!Loop, T!Empty
<1>. QED  BY <1>4, <1>5 DEF Logs

\* A pop appends the message to the strategy's log.
LEMMA StrategyPops ==
  ASSUME TypeInv, NEW i \in Strategies, T!Pop(i)
  PROVE  \E m \in Message :
           /\ stage2_queues[i] # <<>> /\ m = Head(stage2_queues[i])
           /\ stage2_queues' = Popped(stage2_queues, i)
           /\ Logs' = Pushed(Logs, i, m)
<1>0. /\ strategy \in [Strategies -> T!Object] /\ strategy[i] \in T!Object
      /\ QueuesOK(stage2_queues, Strategies)
  BY DEF TypeInv, ObjectsOK, StrategiesOK
<1>1. stage2_queues[i] # <<>> /\ stage2_queues' = Popped(stage2_queues, i)
  BY DEF T!Pop, Popped
<1>2. PICK m \in Message : m = Head(stage2_queues[i])
  BY <1>0, <1>1, PopType
<1>3. /\ strategy'[i] = T!process_message(strategy[i], m)
      /\ \A j \in Strategies \ {i} : strategy'[j] = strategy[j]
  BY <1>0, <1>2 DEF T!Pop
<1>4. T!process_message(strategy[i], m).log = Append(strategy[i].log, m)
  BY <1>0 DEF T!process_message, T!Object
<1>5. Logs' = Pushed(Logs, i, m)
  BY <1>3, <1>4 DEF Logs, Pushed
<1>. QED  BY <1>1, <1>2, <1>5

\* A step of a strategy leaves everything in order.
LEMMA StrategyFlow ==
  ASSUME TypeInv, TypeInv', OrderInv, NEW i \in Strategies, AtStrategies,
         T!Start(i) \/ T!StartFails(i) \/ T!Stop(i) \/ T!strategy_loop(i)
  PROVE  /\ RoutedStrategies'
         /\ Sorted(stage2_queues)' /\ Sorted(Logs)'
         /\ (Stays /\ UNCHANGED Logs) \/ (Advances /\ T!Pop(i))
<1>0. /\ stage2_queues \in [Strategies -> Seq(Message)]
      /\ Logs \in [Strategies -> Seq(Message)]
      /\ RoutedStrategies
      /\ Sorted(stage2_queues) /\ Sorted(Logs) /\ InOrder(Levels)
  BY DEF TypeInv, ObjectsOK, QueuesOK, OrderInv, Routed, AllSorted, StrategiesOK, T!Object, Logs
<1>1. (\A k \in 3 .. 10 : Levels'[k] = Levels[k]) /\ UNCHANGED stage2
  BY Frames DEF AtStrategies
<1>2. CASE T!Start(i) \/ T!StartFails(i) \/ T!Stop(i) \/ T!Loop(i) \/ T!Empty(i)
  <2>1. UNCHANGED <<stage2_queues, Logs>>
    BY <1>2, StrategyKeeps
  <2>2. Levels'[1] = Levels[1] /\ Levels'[2] = Levels[2]
    BY <2>1, LevelFacts
  <2>3. Stays
    BY <1>1, <2>2 DEF Stays
  <2>. QED  BY <1>0, <1>1, <2>1, <2>3 DEF RoutedStrategies, Sorted
<1>3. CASE T!Pop(i)
  <2>1. PICK m \in Message :
           /\ stage2_queues[i] # <<>> /\ m = Head(stage2_queues[i])
           /\ stage2_queues' = Popped(stage2_queues, i)
           /\ Logs' = Pushed(Logs, i, m)
    BY <1>3, StrategyPops
  <2>2. \A j \in Strategies : \A k \in DOMAIN stage2_queues[j], n \in DOMAIN stage2_queues[i] :
           SameRoute(stage2_queues[j][k], stage2_queues[i][n]) => j = i
    BY <1>0 DEF RoutedStrategies, AtStrategy, SameRoute
  <2>3. Sorted(stage2_queues') /\ QueueOldest(Levels, Levels', 2, ItemOf(m))
    <3>1. Levels[2] = QueueItems(stage2_queues) /\ Levels'[2] = QueueItems(stage2_queues')
      BY LevelFacts
    <3>2. /\ stage2_queues \in [Strategies -> Seq(Message)] /\ stage2_queues[i] # <<>>
          /\ m = Head(stage2_queues[i]) /\ stage2_queues' = Popped(stage2_queues, i)
          /\ Sorted(stage2_queues)
      BY <1>0, <2>1
    <3>. QED  BY ONLY <2>2, <3>1, <3>2, i \in Strategies, PopOldest
  <2>4. /\ Logs \in [Strategies -> Seq(Message)]
        /\ Logs' = Pushed(Logs, i, m)
    BY <1>0, <2>1
  <2>5. QueueItems(Logs') = QueueItems(Logs) \union {ItemOf(m)}
    BY ONLY <2>4, m \in Message, i \in Strategies, PushItems
  <2>6. Levels'[1] = Levels[1] \union {ItemOf(m)}
    BY <2>5, LevelFacts
  <2>7. Moved(Levels, Levels', 2, 1, ItemOf(m))
    BY <1>1, <2>3, <2>6 DEF Moved, QueueOldest
  <2>8. Advances
    BY <2>3, <2>7, HandAdvances DEF QueueOldest
  <2>9. Sorted(Logs')
    <3>0. Before(Levels[1], Levels[2])
      BY <1>0 DEF InOrder
    <3>1. ItemOf(m) \in Levels[2]
      BY <2>3 DEF QueueOldest
    <3>2. Before(QueueItems(Logs), {ItemOf(m)})
      BY <3>0, <3>1, LevelFacts DEF Before
    <3>3. Sorted(Logs)
      BY <1>0
    <3>. QED  BY ONLY <2>4, <3>2, <3>3, m \in Message, i \in Strategies, PushSorted
  <2>10. RoutedStrategies'
    <3>1. \A j \in Strategies : \A k \in DOMAIN stage2_queues'[j] :
            \E n \in DOMAIN stage2_queues[j] : stage2_queues'[j][k] = stage2_queues[j][n]
      <4>1. /\ stage2_queues \in [Strategies -> Seq(Message)] /\ stage2_queues[i] # <<>>
            /\ stage2_queues' = Popped(stage2_queues, i)
        BY <1>0, <2>1
      <4>. QED  BY ONLY <4>1, i \in Strategies, PopElems
    <3>2. \A j \in Strategies : \A k \in DOMAIN Logs'[j] :
            \/ k \in DOMAIN Logs[j] /\ Logs'[j][k] = Logs[j][k]
            \/ j = i /\ Logs'[j][k] = m
      BY ONLY <2>4, m \in Message, i \in Strategies, PushElems
    <3>3. 1 \in DOMAIN stage2_queues[i] /\ m = stage2_queues[i][1]
      <4>1. stage2_queues[i] \in Seq(Message)
        BY <1>0
      <4>. QED  BY <2>1, <4>1
    <3>4. AtStrategy(m, i)
      BY <1>0, <3>3 DEF RoutedStrategies
    <3>5. ASSUME NEW j \in Strategies, NEW k \in DOMAIN Logs'[j]  PROVE  AtStrategy(Logs'[j][k], j)
      BY <1>0, <3>2, <3>4, <3>5 DEF RoutedStrategies
    <3>. QED  BY <1>0, <1>1, <3>1, <3>5 DEF RoutedStrategies
  <2>. QED  BY <1>3, <2>3, <2>8, <2>9, <2>10
<1>. QED  BY <1>2, <1>3 DEF T!strategy_loop

-----------------------------------------------------------------------------
(* The steps together *)

ProducerMoves(i) ==
  AtProducers /\ (P!Start(i) \/ P!StartFails(i) \/ P!Stop(i) \/ P!producer_loop(i))
Stage1Moves ==
  AtStage1 /\ (S1!Start \/ S1!StartFails \/ S1!Stop \/ S1!routing_loop)
ProcessorMoves(i) ==
  AtProcessors /\ (W!Start(i) \/ W!StartFails(i) \/ W!Stop(i) \/ W!processor_loop(i))
Stage2Moves ==
  AtStage2 /\ (S2!Start \/ S2!StartFails \/ S2!Stop \/ S2!routing_loop)
StrategyMoves(i) ==
  AtStrategies /\ (T!Start(i) \/ T!StartFails(i) \/ T!Stop(i) \/ T!strategy_loop(i))

\* A step moves one component or none.
LEMMA OneMoves ==
  ASSUME TypeInv, [Next]_vars
  PROVE  \/ \E i \in Producers : ProducerMoves(i)
         \/ Stage1Moves
         \/ \E i \in Processors : ProcessorMoves(i)
         \/ Stage2Moves
         \/ \E i \in Strategies : StrategyMoves(i)
         \/ UNCHANGED <<objects, queues, lost>>
<1>0. StartOrder[main.at] \in AllThreads /\ StopOrder[main.at] \in AllThreads
  <2>1. main.at \in 1 .. Len(StartOrder)
    BY DEF TypeInv, MainOK
  <2>2. Len(StopOrder) = Len(StartOrder) /\ Len(StartOrder) \in Nat
    BY StartOrderFacts, StopOrderFacts, CountFacts DEF NP, NW, NS
  <2>3. StopOrder[main.at] \in AllThreads
    BY <2>1, <2>2, StopPlace DEF AllThreads
  <2>. QED  BY <2>1, <2>2, <2>3, StartOnce
<1>1. ASSUME NEW t \in AllThreads, StartThread(t) \/ StartThreadFails(t) \/ StopThread(t)
      PROVE  \/ \E i \in Producers : ProducerMoves(i)
             \/ Stage1Moves
             \/ \E i \in Processors : ProcessorMoves(i)
             \/ Stage2Moves
             \/ \E i \in Strategies : StrategyMoves(i)
  <2>1. ASSUME NEW i \in Producers, t = <<"producer", i>>  PROVE  ProducerMoves(i)
    BY <1>1, <2>1 DEF StartThread, StartThreadFails, StopThread, ProducerMoves
  <2>2. ASSUME t = <<"stage1", 0>>  PROVE  Stage1Moves
    BY <1>1, <2>2 DEF StartThread, StartThreadFails, StopThread, Stage1Moves
  <2>3. ASSUME NEW i \in Processors, t = <<"processor", i>>  PROVE  ProcessorMoves(i)
    BY <1>1, <2>3 DEF StartThread, StartThreadFails, StopThread, ProcessorMoves
  <2>4. ASSUME t = <<"stage2", 0>>  PROVE  Stage2Moves
    BY <1>1, <2>4 DEF StartThread, StartThreadFails, StopThread, Stage2Moves
  <2>5. ASSUME NEW i \in Strategies, t = <<"strategy", i>>  PROVE  StrategyMoves(i)
    BY <1>1, <2>5 DEF StartThread, StartThreadFails, StopThread, StrategyMoves
  <2>. QED  BY <2>1, <2>2, <2>3, <2>4, <2>5 DEF AllThreads
<1>2. CASE MainStart \/ MainStartFails \/ MainStop
  BY <1>0, <1>1, <1>2 DEF MainStart, MainStartFails, MainStop
<1>3. CASE ComponentStep
  BY <1>3 DEF ComponentStep, ProducerStep, Stage1Step, ProcessorStep, Stage2Step, StrategyStep,
              ProducerMoves, Stage1Moves, ProcessorMoves, Stage2Moves, StrategyMoves
<1>4. CASE \/ MainSignalled \/ MainExpired \/ MainJoin \/ MainReport \/ MainFailed \/ UseAfterFree
           \/ signal_handler \/ Terminated \/ UNCHANGED vars
  BY <1>4 DEF MainSignalled, MainExpired, MainJoin, MainReport, MainFailed, UseAfterFree,
              signal_handler, Terminated, vars
<1>. QED  BY <1>2, <1>3, <1>4 DEF Next, ComponentStep

\* What a step does to the messages: they stay, one is lost or goes on, one is
\* given to strategy i, or producer i makes one.
Passes ==
  /\ Stays \/ Drops \/ Advances
  /\ UNCHANGED Logs
  /\ \A j \in Producers : producer'[j].next_sequence_ = producer[j].next_sequence_
Gives(i) == Advances /\ T!Pop(i) /\ UNCHANGED producer
Makes(i) ==
  /\ Adds(i)
  /\ UNCHANGED Logs
  /\ \A j \in Producers \ {i} : producer'[j].next_sequence_ = producer[j].next_sequence_

\* Every step is one of these and leaves every queue sorted and every message
\* where the rules want it.
LEMMA OrderFlow ==
  ASSUME TypeInv, TypeInv', OrderInv, [Next]_vars
  PROVE  /\ Routed' /\ AllSorted'
         /\ \/ Passes
            \/ \E i \in Strategies : Gives(i)
            \/ \E i \in Producers : Makes(i)
<1>0. /\ RoutedProducers /\ RoutedProcessors /\ RoutedStrategies
      /\ Sorted(producer_queues) /\ Sorted(stage1_queues) /\ Sorted(processor_queues)
      /\ Sorted(stage2_queues) /\ Sorted(Logs)
  BY DEF OrderInv, Routed, AllSorted
<1>1. /\ UNCHANGED producer_queues => Sorted(producer_queues)'
      /\ UNCHANGED stage1_queues => Sorted(stage1_queues)'
      /\ UNCHANGED processor_queues => Sorted(processor_queues)'
      /\ UNCHANGED stage2_queues => Sorted(stage2_queues)'
      /\ UNCHANGED strategy => UNCHANGED Logs /\ Sorted(Logs)'
  BY <1>0 DEF Sorted, Logs
<1>2. /\ UNCHANGED <<producer, producer_queues>> => RoutedProducers'
      /\ UNCHANGED <<stage1_queues, processor, processor_queues>> => RoutedProcessors'
      /\ UNCHANGED <<stage2, stage2_queues, strategy>> => RoutedStrategies'
  BY <1>0 DEF RoutedProducers, RoutedProcessors, RoutedStrategies, Logs
<1>3. UNCHANGED producer =>
        \A j \in Producers : producer'[j].next_sequence_ = producer[j].next_sequence_
  OBVIOUS
<1>4. ASSUME NEW i \in Producers, ProducerMoves(i)
      PROVE  Routed' /\ AllSorted' /\ (Passes \/ Makes(i))
  <2>1. /\ RoutedProducers' /\ Sorted(producer_queues)'
        /\ \/ /\ Stays \/ Drops \/ Advances
              /\ \A j \in Producers : producer'[j].next_sequence_ = producer[j].next_sequence_
           \/ /\ Adds(i)
              /\ \A j \in Producers \ {i} :
                   producer'[j].next_sequence_ = producer[j].next_sequence_
    BY <1>4, ProducerFlow DEF ProducerMoves
  <2>2. UNCHANGED <<stage1, processor, stage2, strategy, stage1_queues, processor_queues, stage2_queues>>
    BY <1>4 DEF ProducerMoves, AtProducers
  <2>. QED  BY <1>1, <1>2, <2>1, <2>2 DEF Routed, AllSorted, Passes, Makes
<1>5. ASSUME Stage1Moves  PROVE  Routed' /\ AllSorted' /\ Passes
  <2>1. /\ RoutedProducers' /\ RoutedProcessors'
        /\ Sorted(producer_queues)' /\ Sorted(stage1_queues)'
        /\ Stays \/ Drops \/ Advances
    BY <1>5, Stage1Flow DEF Stage1Moves
  <2>2. UNCHANGED <<producer, processor, stage2, strategy, processor_queues, stage2_queues>>
    BY <1>5 DEF Stage1Moves, AtStage1
  <2>. QED  BY <1>1, <1>2, <1>3, <2>1, <2>2 DEF Routed, AllSorted, Passes
<1>6. ASSUME NEW i \in Processors, ProcessorMoves(i)  PROVE  Routed' /\ AllSorted' /\ Passes
  <2>1. /\ RoutedProcessors' /\ Sorted(stage1_queues)' /\ Sorted(processor_queues)'
        /\ Stays \/ Drops \/ Advances
    BY <1>6, ProcessorFlow DEF ProcessorMoves
  <2>2. UNCHANGED <<producer, stage1, stage2, strategy, producer_queues, stage2_queues>>
    BY <1>6 DEF ProcessorMoves, AtProcessors
  <2>. QED  BY <1>1, <1>2, <1>3, <2>1, <2>2 DEF Routed, AllSorted, Passes
<1>7. ASSUME Stage2Moves  PROVE  Routed' /\ AllSorted' /\ Passes
  <2>1. /\ RoutedProcessors' /\ RoutedStrategies'
        /\ Sorted(processor_queues)' /\ Sorted(stage2_queues)'
        /\ Stays \/ Drops \/ Advances
    BY <1>7, Stage2Flow DEF Stage2Moves
  <2>2. UNCHANGED <<producer, stage1, processor, strategy, producer_queues, stage1_queues>>
    BY <1>7 DEF Stage2Moves, AtStage2
  <2>. QED  BY <1>1, <1>2, <1>3, <2>1, <2>2 DEF Routed, AllSorted, Passes
<1>8. ASSUME NEW i \in Strategies, StrategyMoves(i)
      PROVE  Routed' /\ AllSorted' /\ (Passes \/ Gives(i))
  <2>1. /\ RoutedStrategies' /\ Sorted(stage2_queues)' /\ Sorted(Logs)'
        /\ (Stays /\ UNCHANGED Logs) \/ (Advances /\ T!Pop(i))
    BY <1>8, StrategyFlow DEF StrategyMoves
  <2>2. UNCHANGED <<producer, stage1, processor, stage2, producer_queues, stage1_queues, processor_queues>>
    BY <1>8 DEF StrategyMoves, AtStrategies
  <2>. QED  BY <1>1, <1>2, <1>3, <2>1, <2>2 DEF Routed, AllSorted, Passes, Gives
<1>9. ASSUME UNCHANGED <<objects, queues, lost>>  PROVE  Routed' /\ AllSorted' /\ Passes
  <2>1. /\ UNCHANGED <<producer, stage1, processor, stage2, strategy, lost>>
        /\ UNCHANGED <<producer_queues, stage1_queues, processor_queues, stage2_queues>>
    BY <1>9 DEF objects, queues
  <2>2. Stays
    <3>1. AtProducers /\ AtStrategies
      BY <2>1 DEF AtProducers, AtStrategies
    <3>. QED  BY <3>1, Frames DEF Stays
  <2>. QED  BY <1>1, <1>2, <1>3, <2>1, <2>2 DEF Routed, AllSorted, Passes
<1>. QED  BY <1>4, <1>5, <1>6, <1>7, <1>8, <1>9, OneMoves

\* At the start there is no message anywhere.
LEMMA OrderInit == Init => OrderInv /\ \A k \in 1 .. 10 : Levels[k] = {}
<1>. SUFFICES ASSUME Init  PROVE  OrderInv /\ \A k \in 1 .. 10 : Levels[k] = {}
  OBVIOUS
<1>1. Logs = [i \in Strategies |-> <<>>]
  BY DEF Init, T!Init, Logs
<1>2. /\ producer_queues = [i \in Producers |-> <<>>] /\ stage1_queues = [i \in Processors |-> <<>>]
      /\ processor_queues = [i \in Processors |-> <<>>] /\ stage2_queues = [i \in Strategies |-> <<>>]
      /\ lost = {}
  BY DEF Init
<1>3. /\ DOMAIN producer = Producers /\ \A i \in Producers : producer[i].message = NoMessage
      /\ DOMAIN processor = Processors /\ \A i \in Processors : processor[i].message = NoMessage
      /\ stage1.message = NoMessage /\ stage2.message = NoMessage
  BY DEF Init, P!Init, S1!Init, W!Init, S2!Init
<1>4. ASSUME NEW ids  PROVE  QueueItems([i \in ids |-> <<>>]) = {} /\ Sorted([i \in ids |-> <<>>])
  BY DEF QueueItems, HeldIn, Sorted
<1>5. HandsItems(producer) = {} /\ HandsItems(processor) = {}
  BY <1>3 DEF HandsItems, HandsOf
<1>6. \A k \in 1 .. 10 : Levels[k] = {}
  <2>1. /\ Levels[1] = {} /\ Levels[2] = {} /\ Levels[4] = {} /\ Levels[6] = {} /\ Levels[8] = {}
    BY <1>1, <1>2, <1>4, LevelFacts
  <2>2. Levels[3] = {} /\ Levels[7] = {} /\ Levels[5] = {} /\ Levels[9] = {} /\ Levels[10] = {}
    BY <1>2, <1>3, <1>5, HandFacts, LevelFacts
  <2>. QED  BY <2>1, <2>2
<1>7. InOrder(Levels) /\ Numbered
  BY <1>6 DEF InOrder, Before, Numbered
<1>8. AllSorted
  BY <1>1, <1>2, <1>4 DEF AllSorted
<1>9. Routed
  BY <1>1, <1>2, <1>3 DEF Routed, RoutedProducers, RoutedProcessors, RoutedStrategies
<1>. QED  BY <1>6, <1>7, <1>8, <1>9 DEF OrderInv

\* The invariant is inductive.
LEMMA OrderStep == TypeInv /\ OrderInv /\ [Next]_vars => OrderInv'
<1>. SUFFICES ASSUME TypeInv, OrderInv, [Next]_vars  PROVE  OrderInv'
  OBVIOUS
<1>1. TypeInv'
  BY TypeStep
<1>2. /\ Routed' /\ AllSorted'
      /\ \/ Passes
         \/ \E i \in Strategies : Gives(i)
         \/ \E i \in Producers : Makes(i)
  BY <1>1, OrderFlow
<1>3. \/ /\ Stays \/ Drops \/ Advances
         /\ \A j \in Producers : producer'[j].next_sequence_ = producer[j].next_sequence_
      \/ \E i \in Producers :
           /\ Adds(i)
           /\ \A j \in Producers \ {i} :
                producer'[j].next_sequence_ = producer[j].next_sequence_
  BY <1>2 DEF Passes, Gives, Makes
<1>4. InOrder(Levels)' /\ Numbered'
  BY <1>1, <1>3, FlowKeeps DEF OrderInv
<1>. QED  BY <1>2, <1>4 DEF OrderInv

\* The order of the messages is kept in every reachable state.
LEMMA OrderInvHolds == Spec => [](TypeInv /\ OrderInv)
<1>1. Init => TypeInv /\ OrderInv
  BY TypeInit, OrderInit
<1>2. TypeInv /\ OrderInv /\ [Next]_vars => TypeInv' /\ OrderInv'
  BY TypeStep, OrderStep
<1>. QED  BY <1>1, <1>2, PTL DEF Spec

\* Whatever the rules, the numbers of threads, the capacities and the numbers
\* of tries, and however the threads interleave and give up, a strategy is
\* given the messages of a stream in the order they were produced, and no
\* other strategy is given any of them.
THEOREM DeliveryIsOrdered == Spec => []OrderedDelivery
<1>1. ASSUME TypeInv, OrderInv  PROVE  OrderedDelivery
  <2>0. /\ RoutedStrategies /\ Sorted(Logs)
        /\ Logs \in [Strategies -> Seq(Message)] /\ DOMAIN Logs = Strategies
    BY <1>1 DEF OrderInv, Routed, AllSorted, TypeInv, ObjectsOK, StrategiesOK, T!Object, Logs
  <2>1. ASSUME NEW i \in Strategies, NEW j \in Strategies,
               NEW k \in DOMAIN Logs[i], NEW n \in DOMAIN Logs[j],
               T!KeyOf(Logs[i][k]) = T!KeyOf(Logs[j][n])
        PROVE  /\ i = j
               /\ k < n => Logs[i][k].sequence_number < Logs[i][n].sequence_number
    <3>1. SameRoute(Logs[i][k], Logs[j][n])
      BY <2>1 DEF T!KeyOf, SameRoute
    <3>2. AtStrategy(Logs[i][k], i) /\ AtStrategy(Logs[j][n], j)
      BY <2>0 DEF RoutedStrategies
    <3>3. i = j
      BY <3>1, <3>2 DEF AtStrategy, SameRoute
    <3>. QED  BY <2>0, <3>1, <3>3 DEF Sorted
  <2>. QED  BY <2>1 DEF OrderedDelivery
<1>. QED  BY <1>1, OrderInvHolds, PTL

\* Whatever the rules, what a strategy is given was marked by the processor
\* the stage 1 rules name for its type, and is meant for that strategy by the
\* stage 2 rules.
THEOREM DeliveryFollowsRules == Spec => []RoutedByRules
<1>1. OrderInv => RoutedByRules
  BY DEF OrderInv, Routed, RoutedStrategies, AtStrategy, RoutedByRules
<1>. QED  BY <1>1, OrderInvHolds, PTL

\* Whatever the rules, the messages of one producer that go by one processor to
\* one strategy arrive there in the order they were produced.
THEOREM RoutesKeepOrder == Spec => []RoutesInOrder
<1>1. ASSUME TypeInv, OrderInv  PROVE  RoutesInOrder
  <2>0. RoutedStrategies /\ Sorted(Logs) /\ DOMAIN Logs = Strategies
    BY <1>1 DEF OrderInv, Routed, AllSorted, Logs
  <2>1. ASSUME NEW s \in Strategies, NEW k \in DOMAIN Logs[s], NEW n \in DOMAIN Logs[s],
               k < n,
               Logs[s][k].producer_id = Logs[s][n].producer_id,
               Logs[s][k].processor_id = Logs[s][n].processor_id
        PROVE  Logs[s][k].sequence_number < Logs[s][n].sequence_number
    <3>1. AtStrategy(Logs[s][k], s) /\ AtStrategy(Logs[s][n], s)
      BY <2>0 DEF RoutedStrategies
    <3>2. SameRoute(Logs[s][k], Logs[s][n])
      BY <2>1, <3>1 DEF AtStrategy, SameRoute
    <3>. QED  BY <2>0, <2>1, <3>2 DEF Sorted
  <2>. QED  BY <2>1 DEF RoutesInOrder
<1>. QED  BY <1>1, OrderInvHolds, PTL

-----------------------------------------------------------------------------
(* Violations *)

\* Entry n is the last one of key in log.
LastOf(log, key, n) ==
  /\ T!KeyOf(log[n]) = key
  /\ \A j \in DOMAIN log : j > n => T!KeyOf(log[j]) # key

\* expected holds for each key the number after the one of its last entry in
\* log, and 0 for a key without an entry.
Expects(log, expected) ==
  \A key \in T!Key :
    \/ expected[key] = 0 /\ \A j \in DOMAIN log : T!KeyOf(log[j]) # key
    \/ \E n \in DOMAIN log :
         LastOf(log, key, n) /\ expected[key] = log[n].sequence_number + 1

\* What a strategy expects, and has counted, comes from what it was given.
GapsInv ==
  \A s \in Strategies :
    /\ Expects(strategy[s].log, strategy[s].expected_sequence_)
    /\ strategy[s].ordering_violations_ = Cardinality(Gaps(strategy[s].log))

\* An entry more: the gaps before it stay.
LEMMA GapsBefore ==
  ASSUME NEW log \in Seq(Message), NEW m \in Message, NEW new, new = Append(log, m)
  PROVE  /\ DOMAIN log = 1 .. Len(log) /\ Len(log) \in Nat
         /\ DOMAIN new = 1 .. Len(log) + 1
         /\ \A k \in 1 .. Len(log) : new[k] = log[k] /\ log[k] \in Message
         /\ new[Len(log) + 1] = m
         /\ Gaps(log) \subseteq 1 .. Len(log)
         /\ Gaps(new) \subseteq 1 .. Len(log) + 1
         /\ \A k \in 1 .. Len(log) : k \in Gaps(new) <=> k \in Gaps(log)
<1>1. /\ DOMAIN log = 1 .. Len(log) /\ Len(log) \in Nat
      /\ DOMAIN new = 1 .. Len(log) + 1
      /\ new[Len(log) + 1] = m
  OBVIOUS
<1>2. \A k \in 1 .. Len(log) : new[k] = log[k] /\ log[k] \in Message
  OBVIOUS
<1>3. Gaps(log) \subseteq 1 .. Len(log) /\ Gaps(new) \subseteq 1 .. Len(log) + 1
  BY <1>1 DEF Gaps
<1>4. ASSUME NEW k \in 1 .. Len(log)  PROVE  k \in Gaps(new) <=> k \in Gaps(log)
  <2>1. \A n \in 1 .. k - 1 : new[n] = log[n]
    BY <1>1, <1>2
  <2>2. \A n \in 1 .. k - 1 : \A j \in n + 1 .. k - 1 : new[j] = log[j]
    BY <1>1, <1>2
  <2>3. new[k] = log[k] /\ k \in DOMAIN log /\ k \in DOMAIN new
    BY <1>1, <1>2
  <2>. QED  BY <2>1, <2>2, <2>3 DEF Gaps
<1>. QED  BY <1>1, <1>2, <1>3, <1>4

\* The new entry is a gap exactly if another number was expected, as none of
\* its key in the log has a number as high.
LEMMA GapsAfter ==
  ASSUME NEW log \in Seq(Message), NEW m \in Message, NEW new, new = Append(log, m),
         NEW expected \in [T!Key -> Nat], Expects(log, expected),
         \A n \in DOMAIN log :
           T!KeyOf(log[n]) = T!KeyOf(m) => log[n].sequence_number < m.sequence_number
  PROVE  Len(log) + 1 \in Gaps(new)
           <=> expected[T!KeyOf(m)] \notin {0, m.sequence_number}
<1>. DEFINE l == Len(log) + 1
            key == T!KeyOf(m)
<1>1. /\ DOMAIN log = 1 .. Len(log) /\ Len(log) \in Nat
      /\ DOMAIN new = 1 .. Len(log) + 1
      /\ \A k \in 1 .. Len(log) : new[k] = log[k] /\ log[k] \in Message
      /\ new[Len(log) + 1] = m
  BY GapsBefore
<1>2. key \in T!Key /\ m.sequence_number \in Nat
  BY DEF T!Key, T!KeyOf, Message
<1>3. l \in Gaps(new) <=>
        \E n \in 1 .. Len(log) :
          /\ T!KeyOf(log[n]) = key
          /\ \A j \in n + 1 .. Len(log) : T!KeyOf(log[j]) # key
          /\ m.sequence_number > log[n].sequence_number + 1
  <2>1. l \in DOMAIN new /\ new[l] = m /\ l - 1 = Len(log)
    BY <1>1
  <2>2. l \in Gaps(new) <=>
          \E n \in 1 .. Len(log) :
            /\ T!KeyOf(new[n]) = key
            /\ \A j \in n + 1 .. Len(log) : T!KeyOf(new[j]) # key
            /\ m.sequence_number > new[n].sequence_number + 1
    BY <2>1 DEF Gaps
  <2>3. \A n \in 1 .. Len(log) : \A j \in n + 1 .. Len(log) : new[j] = log[j]
    BY <1>1
  <2>. QED  BY <1>1, <2>2, <2>3
<1>4. CASE expected[key] = 0 /\ \A j \in DOMAIN log : T!KeyOf(log[j]) # key
  BY <1>1, <1>3, <1>4
<1>5. ASSUME NEW n \in DOMAIN log, LastOf(log, key, n),
             expected[key] = log[n].sequence_number + 1
      PROVE  l \in Gaps(new) <=> expected[key] \notin {0, m.sequence_number}
  <2>1. /\ n \in 1 .. Len(log) /\ T!KeyOf(log[n]) = key
        /\ \A j \in 1 .. Len(log) : j > n => T!KeyOf(log[j]) # key
    BY <1>1, <1>5 DEF LastOf
  <2>0. log[n] \in Message /\ log[n].sequence_number \in Nat
    <3>1. log[n] \in Message
      BY <1>1, <2>1
    <3>. QED  BY <3>1 DEF Message
  <2>2. log[n].sequence_number < m.sequence_number
    BY <1>1, <2>1
  <2>3. \A i \in 1 .. Len(log) :
          /\ T!KeyOf(log[i]) = key
          /\ \A j \in i + 1 .. Len(log) : T!KeyOf(log[j]) # key
          => i = n
    <3>1. ASSUME NEW i \in 1 .. Len(log), T!KeyOf(log[i]) = key,
                 \A j \in i + 1 .. Len(log) : T!KeyOf(log[j]) # key
          PROVE  i = n
      <4>1. ~ (i < n)
        BY <1>1, <2>1, <3>1
      <4>2. ~ (i > n)
        BY <2>1, <3>1
      <4>. QED  BY <1>1, <2>1, <4>1, <4>2
    <3>. QED  BY <3>1
  <2>4. \A j \in n + 1 .. Len(log) : T!KeyOf(log[j]) # key
    BY <1>1, <2>1
  <2>5. l \in Gaps(new) <=> m.sequence_number > log[n].sequence_number + 1
    BY <1>3, <2>1, <2>3, <2>4
  <2>. QED  BY <1>2, <1>5, <2>0, <2>1, <2>2, <2>5
<1>6. \/ expected[key] = 0 /\ \A j \in DOMAIN log : T!KeyOf(log[j]) # key
      \/ \E n \in DOMAIN log :
           LastOf(log, key, n) /\ expected[key] = log[n].sequence_number + 1
  BY <1>2 DEF Expects
<1>. QED  BY <1>4, <1>5, <1>6

\* So the number of gaps grows by one exactly then.
LEMMA GapsCount ==
  ASSUME NEW log \in Seq(Message), NEW m \in Message, NEW new, new = Append(log, m),
         NEW expected \in [T!Key -> Nat], Expects(log, expected),
         \A n \in DOMAIN log :
           T!KeyOf(log[n]) = T!KeyOf(m) => log[n].sequence_number < m.sequence_number
  PROVE  Cardinality(Gaps(new))
           = IF expected[T!KeyOf(m)] \notin {0, m.sequence_number}
               THEN Cardinality(Gaps(log)) + 1 ELSE Cardinality(Gaps(log))
<1>1. /\ Len(log) \in Nat
      /\ Gaps(log) \subseteq 1 .. Len(log) /\ Gaps(new) \subseteq 1 .. Len(log) + 1
      /\ \A k \in 1 .. Len(log) : k \in Gaps(new) <=> k \in Gaps(log)
  BY GapsBefore
<1>2. Len(log) + 1 \in Gaps(new) <=> expected[T!KeyOf(m)] \notin {0, m.sequence_number}
  BY GapsAfter
<1>3. IsFiniteSet(Gaps(log)) /\ Len(log) + 1 \notin Gaps(log)
  <2>1. IsFiniteSet(1 .. Len(log))
    BY <1>1, FS_Interval
  <2>. QED  BY <1>1, <2>1, FS_Subset
<1>4. \A k : k \in 1 .. Len(log) + 1 <=> k \in 1 .. Len(log) \/ k = Len(log) + 1
  BY <1>1
<1>5. CASE Len(log) + 1 \in Gaps(new)
  <2>1. Gaps(new) = Gaps(log) \union {Len(log) + 1}
    BY <1>1, <1>4, <1>5
  <2>. QED  BY <1>2, <1>3, <1>5, <2>1, FS_AddElement
<1>6. CASE Len(log) + 1 \notin Gaps(new)
  <2>1. Gaps(new) = Gaps(log)
    BY <1>1, <1>4, <1>6
  <2>. QED  BY <1>2, <1>6, <2>1
<1>. QED  BY <1>5, <1>6

\* With the new entry its number plus one is expected, and nothing else
\* changes.
LEMMA ExpectsNext ==
  ASSUME NEW log \in Seq(Message), NEW m \in Message, NEW new, new = Append(log, m),
         NEW expected \in [T!Key -> Nat], Expects(log, expected),
         NEW next, next = [expected EXCEPT ![T!KeyOf(m)] = m.sequence_number + 1]
  PROVE  Expects(new, next)
<1>1. /\ DOMAIN log = 1 .. Len(log) /\ Len(log) \in Nat
      /\ DOMAIN new = 1 .. Len(log) + 1
      /\ \A k \in 1 .. Len(log) : new[k] = log[k]
      /\ new[Len(log) + 1] = m
  BY GapsBefore
<1>2. T!KeyOf(m) \in T!Key
  BY DEF T!Key, T!KeyOf, Message
<1>3. /\ next[T!KeyOf(m)] = m.sequence_number + 1
      /\ \A key \in T!Key : key # T!KeyOf(m) => next[key] = expected[key]
  BY <1>2
<1>4. ASSUME NEW key \in T!Key, key = T!KeyOf(m)
      PROVE  \E n \in DOMAIN new :
               LastOf(new, key, n) /\ next[key] = new[n].sequence_number + 1
  <2>1. Len(log) + 1 \in DOMAIN new
    BY <1>1
  <2>2. LastOf(new, key, Len(log) + 1)
    BY <1>1, <1>4 DEF LastOf
  <2>. QED  BY <1>1, <1>3, <1>4, <2>1, <2>2
<1>5. ASSUME NEW key \in T!Key, key # T!KeyOf(m)
      PROVE  \/ next[key] = 0 /\ \A j \in DOMAIN new : T!KeyOf(new[j]) # key
             \/ \E n \in DOMAIN new :
                  LastOf(new, key, n) /\ next[key] = new[n].sequence_number + 1
  <2>1. \A j \in DOMAIN new : (j \in DOMAIN log /\ new[j] = log[j]) \/ new[j] = m
    BY <1>1
  <2>2. CASE expected[key] = 0 /\ \A j \in DOMAIN log : T!KeyOf(log[j]) # key
    BY <1>3, <1>5, <2>1, <2>2
  <2>3. ASSUME NEW n \in DOMAIN log, LastOf(log, key, n),
               expected[key] = log[n].sequence_number + 1
        PROVE  n \in DOMAIN new /\ LastOf(new, key, n)
               /\ next[key] = new[n].sequence_number + 1
    <3>1. n \in DOMAIN new /\ new[n] = log[n]
      BY <1>1
    <3>2. LastOf(new, key, n)
      BY <1>5, <2>1, <2>3, <3>1 DEF LastOf
    <3>. QED  BY <1>3, <1>5, <2>3, <3>1, <3>2
  <2>4. \/ expected[key] = 0 /\ \A j \in DOMAIN log : T!KeyOf(log[j]) # key
        \/ \E n \in DOMAIN log :
             LastOf(log, key, n) /\ expected[key] = log[n].sequence_number + 1
    BY DEF Expects
  <2>. QED  BY <2>2, <2>3, <2>4
<1>. QED  BY <1>4, <1>5 DEF Expects

\* What a message given to a strategy object does to it.
LEMMA ProcessMessage ==
  ASSUME NEW s \in T!Object, NEW m \in Message, NEW t, t = T!process_message(s, m)
  PROVE  /\ t.log = Append(s.log, m)
         /\ t.expected_sequence_
              = [s.expected_sequence_ EXCEPT ![T!KeyOf(m)] = m.sequence_number + 1]
         /\ t.ordering_violations_
              = IF s.expected_sequence_[T!KeyOf(m)] \notin {0, m.sequence_number}
                  THEN s.ordering_violations_ + 1 ELSE s.ordering_violations_
<1>1. t.log = Append(s.log, m)
  BY DEF T!process_message, T!Object
<1>2. t.expected_sequence_
        = [s.expected_sequence_ EXCEPT ![T!KeyOf(m)] = m.sequence_number + 1]
  BY DEF T!process_message, T!Object
<1>3. t.ordering_violations_
        = IF s.expected_sequence_[T!KeyOf(m)] \notin {0, m.sequence_number}
            THEN s.ordering_violations_ + 1 ELSE s.ordering_violations_
  BY DEF T!process_message, T!Object
<1>. QED  BY <1>1, <1>2, <1>3

\* The invariant holds at the start.
LEMMA GapsInit == Init => GapsInv
<1>. SUFFICES ASSUME Init, NEW s \in Strategies
     PROVE  /\ Expects(strategy[s].log, strategy[s].expected_sequence_)
            /\ strategy[s].ordering_violations_ = Cardinality(Gaps(strategy[s].log))
  BY DEF GapsInv
<1>1. /\ strategy[s].log = <<>> /\ strategy[s].ordering_violations_ = 0
      /\ strategy[s].expected_sequence_ = [k \in T!Key |-> 0]
  BY DEF Init, T!Init
<1>2. Gaps(<<>>) = {}
  BY DEF Gaps
<1>3. Expects(<<>>, [k \in T!Key |-> 0])
  BY DEF Expects
<1>. QED  BY <1>1, <1>2, <1>3, FS_EmptySet

\* A message given to strategy i keeps it, as the log stays in order.
LEMMA GivesKeepsGaps ==
  ASSUME TypeInv, GapsInv, OrderedDelivery', NEW i \in Strategies, T!Pop(i)
  PROVE  GapsInv'
<1>0. strategy \in [Strategies -> T!Object] /\ strategy[i] \in T!Object
  BY DEF TypeInv, ObjectsOK, StrategiesOK
<1>1. PICK m \in Message : m = Head(stage2_queues[i]) /\ Logs' = Pushed(Logs, i, m)
  BY StrategyPops
<1>2. /\ strategy'[i] = T!process_message(strategy[i], m)
      /\ \A j \in Strategies \ {i} : strategy'[j] = strategy[j]
  BY <1>0, <1>1 DEF T!Pop
<1>. DEFINE log == strategy[i].log
            new == strategy'[i].log
            expected == strategy[i].expected_sequence_
<1>3. /\ log \in Seq(Message) /\ expected \in [T!Key -> Nat]
      /\ strategy[i].ordering_violations_ \in Nat
  BY <1>0 DEF T!Object
<1>4. /\ new = Append(log, m)
      /\ strategy'[i].expected_sequence_
           = [expected EXCEPT ![T!KeyOf(m)] = m.sequence_number + 1]
      /\ strategy'[i].ordering_violations_
           = IF expected[T!KeyOf(m)] \notin {0, m.sequence_number}
               THEN strategy[i].ordering_violations_ + 1 ELSE strategy[i].ordering_violations_
  BY <1>0, <1>2, ProcessMessage
<1>5. Expects(log, expected) /\ strategy[i].ordering_violations_ = Cardinality(Gaps(log))
  BY DEF GapsInv
<1>6. ASSUME NEW n \in DOMAIN log, T!KeyOf(log[n]) = T!KeyOf(m)
      PROVE  log[n].sequence_number < m.sequence_number
  <2>1. Logs'[i] = new /\ DOMAIN Logs' = Strategies
    BY DEF Logs
  <2>2. /\ n \in DOMAIN new /\ Len(log) + 1 \in DOMAIN new /\ n < Len(log) + 1
        /\ new[n] = log[n] /\ new[Len(log) + 1] = m
    BY <1>3, <1>4, <1>6
  <2>. QED  BY <1>6, <2>1, <2>2 DEF OrderedDelivery
<1>7. Expects(new, strategy'[i].expected_sequence_)
  BY <1>3, <1>4, <1>5, ExpectsNext
<1>8. strategy'[i].ordering_violations_ = Cardinality(Gaps(new))
  <2>. HIDE DEF log, new, expected
  <2>1. Cardinality(Gaps(new))
          = IF expected[T!KeyOf(m)] \notin {0, m.sequence_number}
              THEN Cardinality(Gaps(log)) + 1 ELSE Cardinality(Gaps(log))
    BY <1>3, <1>4, <1>5, <1>6, GapsCount
  <2>. QED  BY <1>4, <1>5, <2>1
<1>. QED  BY <1>2, <1>7, <1>8 DEF GapsInv

\* Every step keeps it.
LEMMA GapsStep ==
  ASSUME TypeInv, GapsInv, OrderedDelivery', [Next]_vars
  PROVE  GapsInv'
<1>1. ASSUME UNCHANGED strategy  PROVE  GapsInv'
  BY <1>1 DEF GapsInv
<1>2. ASSUME NEW i \in Strategies, StrategyMoves(i)  PROVE  GapsInv'
  <2>1. CASE T!Start(i) \/ T!StartFails(i) \/ T!Stop(i) \/ T!Loop(i) \/ T!Empty(i)
    <3>1. \A s \in Strategies :
            /\ strategy'[s].log = strategy[s].log
            /\ strategy'[s].expected_sequence_ = strategy[s].expected_sequence_
            /\ strategy'[s].ordering_violations_ = strategy[s].ordering_violations_
      <4>0. strategy \in [Strategies -> T!Object]
        BY DEF TypeInv, ObjectsOK, StrategiesOK
      <4>1. CASE T!Start(i)
        BY <4>0, <4>1 DEF T!Start, T!Object
      <4>2. CASE T!StartFails(i)
        BY <4>0, <4>2 DEF T!StartFails, T!Object
      <4>3. CASE T!Stop(i)
        BY <4>0, <4>3 DEF T!Stop, T!Object
      <4>4. CASE T!Loop(i)
        BY <4>0, <4>4 DEF T!Loop, T!Object
      <4>5. CASE T!Empty(i)
        BY <4>0, <4>5 DEF T!Empty, T!Object
      <4>. QED  BY <2>1, <4>1, <4>2, <4>3, <4>4, <4>5
    <3>. QED  BY <3>1 DEF GapsInv
  <2>2. CASE T!Pop(i)
    BY <2>2, GivesKeepsGaps
  <2>. QED  BY <1>2, <2>1, <2>2 DEF StrategyMoves, T!strategy_loop
<1>3. \/ UNCHANGED strategy
      \/ \E i \in Strategies : StrategyMoves(i)
  BY OneMoves DEF ProducerMoves, Stage1Moves, ProcessorMoves, Stage2Moves, AtProducers,
                  AtStage1, AtProcessors, AtStage2, objects
<1>. QED  BY <1>1, <1>2, <1>3

\* Whatever the rules and the schedule, a strategy counts a violation where a
\* number of its producer and type is skipped, and nowhere else: its alarm
\* never stands for a message that came too late or twice.
THEOREM ViolationsCountGaps == Spec => []ViolationsAreGaps
<1>1. GapsInv => ViolationsAreGaps
  BY DEF GapsInv, ViolationsAreGaps, Logs
<1>2. TypeInv /\ GapsInv /\ OrderedDelivery' /\ [Next]_vars => GapsInv'
  BY GapsStep
<1>. QED  BY <1>1, <1>2, GapsInit, OrderInvHolds, DeliveryIsOrdered, PTL DEF Spec

-----------------------------------------------------------------------------
(* The pipeline implements OrderedStreams *)

\* The refinement mapping, with names for its parts.
Sent == {ItemOf(m) : m \in AllMessages}
Got  == [s \in Strategies |-> [k \in DOMAIN Logs[s] |-> ItemOf(Logs[s][k])]]

\* What has been sent is on some level.
LEMMA SentFacts ==
  \A x : x \in Sent <=> \E k \in 1 .. 10 : x \in Levels[k]
<1>1. \A m : m \in AllMessages <=>
        \/ m \in HeldIn(Logs) \/ m \in HeldIn(stage2_queues) \/ m \in {stage2.message} \ {NoMessage}
        \/ m \in HeldIn(processor_queues) \/ m \in HandsOf(processor) \/ m \in HeldIn(stage1_queues)
        \/ m \in {stage1.message} \ {NoMessage} \/ m \in HeldIn(producer_queues)
        \/ m \in HandsOf(producer) \/ m \in {l.message : l \in lost}
  BY DEF AllMessages
<1>2. ASSUME NEW x \in Sent  PROVE  \E k \in 1 .. 10 : x \in Levels[k]
  <2>1. PICK m \in AllMessages : x = ItemOf(m)
    BY DEF Sent
  <2>2. CASE m \in HeldIn(Logs)
    BY <2>1, <2>2, LevelFacts DEF QueueItems
  <2>3. CASE m \in HeldIn(stage2_queues)
    BY <2>1, <2>3, LevelFacts DEF QueueItems
  <2>4. CASE m \in {stage2.message} \ {NoMessage}
    BY <2>1, <2>4, LevelFacts DEF HandItems
  <2>5. CASE m \in HeldIn(processor_queues)
    BY <2>1, <2>5, LevelFacts DEF QueueItems
  <2>6. CASE m \in HandsOf(processor)
    BY <2>1, <2>6, LevelFacts DEF HandsItems
  <2>7. CASE m \in HeldIn(stage1_queues)
    BY <2>1, <2>7, LevelFacts DEF QueueItems
  <2>8. CASE m \in {stage1.message} \ {NoMessage}
    BY <2>1, <2>8, LevelFacts DEF HandItems
  <2>9. CASE m \in HeldIn(producer_queues)
    BY <2>1, <2>9, LevelFacts DEF QueueItems
  <2>10. CASE m \in HandsOf(producer)
    BY <2>1, <2>10, LevelFacts DEF HandsItems
  <2>11. CASE m \in {l.message : l \in lost}
    BY <2>1, <2>11, LevelFacts
  <2>. QED  BY <1>1, <2>2, <2>3, <2>4, <2>5, <2>6, <2>7, <2>8, <2>9, <2>10, <2>11
<1>3. ASSUME NEW k \in 1 .. 10, NEW x \in Levels[k]  PROVE  x \in Sent
  <2>1. \/ x \in QueueItems(Logs) \/ x \in QueueItems(stage2_queues) \/ x \in HandItems(stage2.message)
        \/ x \in QueueItems(processor_queues) \/ x \in HandsItems(processor)
        \/ x \in QueueItems(stage1_queues) \/ x \in HandItems(stage1.message)
        \/ x \in QueueItems(producer_queues) \/ x \in HandsItems(producer)
        \/ x \in {ItemOf(l.message) : l \in lost}
    BY LevelFacts
  <2>2. \E m \in AllMessages : x = ItemOf(m)
    BY <1>1, <2>1 DEF QueueItems, HandItems, HandsItems
  <2>. QED  BY <2>2 DEF Sent
<1>. QED  BY <1>2, <1>3

\* A step sends what it adds to the levels.
LEMMA SentStays ==
  ASSUME Stays \/ Drops \/ Advances
  PROVE  Sent' = Sent
<1>0. (\A x : x \in Sent <=> \E k \in 1 .. 10 : x \in Levels[k])'
  BY SentFacts, PTL
<1>1. ASSUME NEW b \in 1 .. 10, NEW c \in 1 .. 10, NEW y, Moved(Levels, Levels', b, c, y)
      PROVE  \A x : (\E k \in 1 .. 10 : x \in Levels'[k]) <=> (\E k \in 1 .. 10 : x \in Levels[k])
  BY <1>1 DEF Moved
<1>2. CASE Stays
  BY <1>0, <1>2, SentFacts DEF Stays
<1>3. CASE Drops
  <2>1. PICK b \in 2 .. 9 : \E y \in Levels[b] : Moved(Levels, Levels', b, 10, y)
    BY <1>3 DEF Drops
  <2>2. b \in 1 .. 10 /\ 10 \in 1 .. 10
    OBVIOUS
  <2>3. \A x : (\E k \in 1 .. 10 : x \in Levels'[k]) <=> (\E k \in 1 .. 10 : x \in Levels[k])
    BY <1>1, <2>1, <2>2
  <2>. QED  BY <1>0, <2>3, SentFacts
<1>4. CASE Advances
  <2>1. PICK b \in 2 .. 9 : \E y \in Levels[b] : Moved(Levels, Levels', b, b - 1, y)
    BY <1>4 DEF Advances
  <2>2. b \in 1 .. 10 /\ b - 1 \in 1 .. 10
    OBVIOUS
  <2>3. \A x : (\E k \in 1 .. 10 : x \in Levels'[k]) <=> (\E k \in 1 .. 10 : x \in Levels[k])
    BY <1>1, <2>1, <2>2
  <2>. QED  BY <1>0, <2>3, SentFacts
<1>. QED  BY <1>2, <1>3, <1>4

\* Every step of the pipeline is a step of the streams or changes none.
LEMMA StreamsStep ==
  ASSUME TypeInv, TypeInv', OrderInv, [Next]_vars
  PROVE  \/ \E m \in Streams!Item : Streams!Send(m)
         \/ \E c \in Strategies : \E m \in Sent : Streams!Deliver(c, m)
         \/ UNCHANGED <<Sent, Got>>
<1>0. (\A x : x \in Sent <=> \E k \in 1 .. 10 : x \in Levels[k])'
  BY SentFacts, PTL
<1>1. \/ Passes
      \/ \E i \in Strategies : Gives(i)
      \/ \E i \in Producers : Makes(i)
  BY OrderFlow
<1>2. CASE Passes
  BY <1>2, SentStays DEF Passes, Got
<1>3. ASSUME NEW i \in Producers, Makes(i)  PROVE  \E m \in Streams!Item : Streams!Send(m)
  <2>1. PICK x \in Streams!Item :
          /\ x.producer_id = i
          /\ x.sequence_number = producer[i].next_sequence_
          /\ Levels'[9] = Levels[9] \union {x}
          /\ \A k \in 1 .. 10 : k # 9 => Levels'[k] = Levels[k]
    BY <1>3 DEF Makes, Adds
  <2>2. Sent' = Sent \union {x}
    <3>1. ASSUME NEW y, NEW k \in 1 .. 10, y \in Levels'[k]
          PROVE  y = x \/ \E n \in 1 .. 10 : y \in Levels[n]
      BY <2>1, <3>1
    <3>2. ASSUME NEW y, NEW k \in 1 .. 10, y \in Levels[k]
          PROVE  \E n \in 1 .. 10 : y \in Levels'[n]
      BY <2>1, <3>2
    <3>3. x \in Levels'[9]
      BY <2>1
    <3>. QED  BY <1>0, <3>1, <3>2, <3>3, SentFacts
  <2>3. ASSUME NEW y \in Sent, y.producer_id = x.producer_id
        PROVE  y.sequence_number < x.sequence_number
    <3>1. PICK k \in 1 .. 10 : y \in Levels[k]
      BY SentFacts
    <3>2. y.sequence_number < producer[y.producer_id].next_sequence_
      BY <3>1 DEF OrderInv, Numbered
    <3>. QED  BY <2>1, <2>3, <3>2
  <2>4. Got' = Got
    BY <1>3 DEF Makes, Got
  <2>. QED  BY <2>2, <2>3, <2>4 DEF Streams!Send, Sent, Got
<1>4. ASSUME NEW i \in Strategies, Gives(i)
      PROVE  \E m \in Sent : Streams!Deliver(i, m)
  <2>1. PICK m \in Message :
           /\ stage2_queues[i] # <<>> /\ m = Head(stage2_queues[i])
           /\ Logs' = Pushed(Logs, i, m)
    BY <1>4, StrategyPops DEF Gives
  <2>2. Sent' = Sent
    BY <1>4, SentStays DEF Gives
  <2>3. /\ Logs \in [Strategies -> Seq(Message)]
        /\ stage2_queues \in [Strategies -> Seq(Message)]
        /\ RoutedStrategies /\ Before(Levels[1], Levels[2])
    BY DEF OrderInv, Routed, InOrder, TypeInv, ObjectsOK, StrategiesOK, T!Object, Logs, QueuesOK
  <2>4. 1 \in DOMAIN stage2_queues[i] /\ m = stage2_queues[i][1]
    <3>1. stage2_queues[i] \in Seq(Message)
      BY <2>3
    <3>. QED  BY <2>1, <3>1
  <2>5. AtStrategy(m, i) /\ ItemOf(m) \in QueueItems(stage2_queues)
    BY <2>3, <2>4, QueueItemsFacts DEF RoutedStrategies
  <2>6. ItemOf(m) \in Levels[2] /\ ItemOf(m) \in Sent
    BY <2>5, LevelFacts, SentFacts
  <2>7. ASSUME NEW d \in Strategies, NEW k \in DOMAIN Got[d], Streams!SameStream(Got[d][k], ItemOf(m))
        PROVE  d = i /\ Got[d][k].sequence_number < ItemOf(m).sequence_number
    <3>1. k \in DOMAIN Logs[d] /\ Got[d][k] = ItemOf(Logs[d][k])
      BY <2>7 DEF Got
    <3>2. Logs[d][k] \in Message /\ ItemOf(Logs[d][k]) \in Levels[1] /\ AtStrategy(Logs[d][k], d)
      <4>1. \A j \in Strategies : \A n \in DOMAIN Logs[j] :
              Logs[j][n] \in Message /\ ItemOf(Logs[j][n]) \in QueueItems(Logs)
        BY ONLY <2>3, QueueItemsFacts
      <4>. QED  BY <2>3, <3>1, <4>1, LevelFacts DEF RoutedStrategies
    <3>3. SameRoute(Got[d][k], ItemOf(m))
      BY <2>7 DEF Streams!SameStream, SameRoute
    <3>4. d = i
      BY <2>5, <3>1, <3>2, <3>3, ItemFacts DEF SameRoute, AtStrategy
    <3>5. Got[d][k].sequence_number < ItemOf(m).sequence_number
      BY <2>3, <2>6, <3>1, <3>2, <3>3 DEF Before
    <3>. QED  BY <3>4, <3>5
  <2>8. Got' = [Got EXCEPT ![i] = Append(@, ItemOf(m))]
    <3>1. /\ \A j \in Strategies \ {i} : Logs'[j] = Logs[j]
          /\ Logs'[i] = Append(Logs[i], m) /\ Logs[i] \in Seq(Message)
      BY <2>1, <2>3 DEF Pushed
    <3>2. ASSUME NEW log \in Seq(Message), NEW new, new = Append(log, m)
          PROVE  [k \in DOMAIN new |-> ItemOf(new[k])]
                   = Append([k \in DOMAIN log |-> ItemOf(log[k])], ItemOf(m))
      <4>1. DOMAIN log = 1 .. Len(log) /\ Len(log) \in Nat
        OBVIOUS
      <4>2. PICK old \in Seq(Streams!Item) : old = [k \in DOMAIN log |-> ItemOf(log[k])]
        <5>1. \A k \in 1 .. Len(log) : ItemOf(log[k]) \in Streams!Item
          BY ItemFacts
        <5>2. [k \in 1 .. Len(log) |-> ItemOf(log[k])] \in Seq(Streams!Item)
          BY <4>1, <5>1
        <5>. QED  BY <4>1, <5>2
      <4>3. Len(old) = Len(log)
        BY <4>1, <4>2
      <4>4. DOMAIN new = 1 .. Len(log) + 1 /\ \A k \in 1 .. Len(log) : new[k] = log[k]
        BY <3>2
      <4>5. new[Len(log) + 1] = m
        BY <3>2
      <4>6. /\ DOMAIN Append(old, ItemOf(m)) = 1 .. Len(log) + 1
            /\ \A k \in 1 .. Len(log) : Append(old, ItemOf(m))[k] = old[k]
            /\ Append(old, ItemOf(m))[Len(log) + 1] = ItemOf(m)
            /\ Append(old, ItemOf(m)) \in Seq(Streams!Item)
        BY <4>2, <4>3, ItemFacts
      <4>7. \A k \in 1 .. Len(log) + 1 : ItemOf(new[k]) = Append(old, ItemOf(m))[k]
        BY <4>1, <4>2, <4>4, <4>5, <4>6
      <4>. QED  BY <4>2, <4>4, <4>6, <4>7
    <3>3. /\ Got'[i] = Append(Got[i], ItemOf(m))
          /\ \A j \in Strategies \ {i} : Got'[j] = Got[j]
      BY <3>1, <3>2 DEF Got
    <3>4. DOMAIN Got' = Strategies /\ DOMAIN Got = Strategies
      BY DEF Got
    <3>5. Got' = [s \in Strategies |-> Got'[s]]
      BY DEF Got
    <3>6. [Got EXCEPT ![i] = Append(@, ItemOf(m))] = [s \in Strategies |-> Got'[s]]
      BY <3>3, <3>4
    <3>. QED  BY <3>5, <3>6
  <2>. QED  BY <2>2, <2>6, <2>7, <2>8 DEF Streams!Deliver, Sent, Got
<1>. QED  BY <1>1, <1>2, <1>3, <1>4

\* The pipeline, for every configuration and every bound, implements the
\* ordered streams with losses of OrderedStreams.
THEOREM PipelineImplementsStreams == Spec => ImplementsStreams
<1>1. Init => Streams!StreamsInit
  <2>. SUFFICES ASSUME Init  PROVE  Streams!StreamsInit
    OBVIOUS
  <2>1. Sent = {}
    BY OrderInit, SentFacts
  <2>2. Got = [s \in Strategies |-> <<>>]
    <3>1. \A s \in Strategies : Logs[s] = <<>>
      BY DEF Init, T!Init, Logs
    <3>2. [k \in DOMAIN <<>> |-> ItemOf(<<>>[k])] = <<>>
      OBVIOUS
    <3>. QED  BY <3>1, <3>2 DEF Got
  <2>. QED  BY <2>1, <2>2 DEF Streams!StreamsInit, Sent, Got
<1>2. TypeInv /\ TypeInv' /\ OrderInv /\ [Next]_vars =>
        [Streams!StreamsNext]_(Streams!streamVars)
  BY StreamsStep DEF Streams!StreamsNext, Streams!streamVars, Sent, Got
<1>. QED  BY <1>1, <1>2, OrderInvHolds, PTL DEF Spec, ImplementsStreams, Streams!StreamsSpec
=============================================================================
