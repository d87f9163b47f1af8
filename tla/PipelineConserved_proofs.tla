---------------------- MODULE PipelineConserved_proofs ----------------------
(***************************************************************************)
(* A message its producer has numbered is always in exactly one place,     *)
(* whatever the configuration and however the threads interleave, give up  *)
(* and are stopped.                                                        *)
(*                                                                         *)
(* The places are kept on ten shelves, one for each level of the way (see  *)
(* PipelineOrder_proofs) and one for what is lost.  A step takes at most   *)
(* one message from one shelf and puts it on another.                      *)
(*                                                                         *)
(* From this follows that the counters of main's summary never drift from  *)
(* the messages they count.  Their sums are sizes of sets here: Total(f)   *)
(* is the number of pairs of an i and one of 1 .. f[i].                    *)
(*                                                                         *)
(* The sizes of the shelves also bound the work a thread has left, so that *)
(* every join of main() comes closer to its end (Joins, below).            *)
(***************************************************************************)
EXTENDS PipelineOrder_proofs, PipelineShutdown_proofs, WellFoundedInduction

-----------------------------------------------------------------------------
(* The shelves *)

Ids == Producers \X (1 .. MaxMessages)

\* The places of each message in a family of queues, in a hand, in a family of
\* hands, and among the lost.
QueueAt(name, f) == [id \in Ids |-> InSeq(name, f, id)]
HandAt(t, m) == [id \in Ids |-> IF m # NoMessage /\ IdOf(m) = id THEN {t} ELSE {}]
HandsAt(kind, f) ==
  [id \in Ids |-> {<<kind, i>> : i \in {j \in DOMAIN f : /\ f[j].message # NoMessage
                                                       /\ IdOf(f[j].message) = id}}]
GoneAt(L) == [id \in Ids |-> {<<"lost", l.at>> : l \in {x \in L : IdOf(x.message) = id}}]

Shelves ==
  << QueueAt("log", Logs), QueueAt("stage2_queues", stage2_queues),
     HandAt(<<"stage2", 0>>, stage2.message),
     QueueAt("processor_queues", processor_queues), HandsAt("processor", processor),
     QueueAt("stage1_queues", stage1_queues), HandAt(<<"stage1", 0>>, stage1.message),
     QueueAt("producer_queues", producer_queues), HandsAt("producer", producer),
     GoneAt(lost) >>

One(A) == \E x : A = {x}

\* The message with this identity is on one shelf, in one place; it is on none.
Alone(S, id) ==
  \E k \in 1 .. 10 : One(S[k][id]) /\ \A j \in 1 .. 10 : j # k => S[j][id] = {}
Nowhere(S, id) == \A k \in 1 .. 10 : S[k][id] = {}

PlaceInv ==
  \A i \in Producers, n \in 1 .. MaxMessages :
    /\ n < producer[i].next_sequence_ => Alone(Shelves, <<i, n>>)
    /\ ~ (n < producer[i].next_sequence_) => Nowhere(Shelves, <<i, n>>)

-----------------------------------------------------------------------------
(* What a step does to a shelf *)

\* A shelf A that becomes B keeps its messages, though perhaps in other places
\* (a pop moves a queue up by one); it gets the message x; it loses it.
Alike(A, B) == (A = {} => B = {}) /\ (One(A) => One(B))
Keeps(A, B) == \A id \in Ids : Alike(A[id], B[id])
Gets(A, B, x) ==
  \A id \in Ids : /\ id # x => Alike(A[id], B[id])
                  /\ id = x /\ A[id] = {} => One(B[id])
Loses(A, B, x) ==
  \A id \in Ids : /\ id # x => Alike(A[id], B[id])
                  /\ id = x => A[id] # {} /\ (One(A[id]) => B[id] = {})

\* Message x goes from shelf b to shelf c.
Carries(S, R, b, c, x) ==
  /\ b # c /\ b \in 1 .. 10 /\ c \in 1 .. 10
  /\ Loses(S[b], R[b], x) /\ Gets(S[c], R[c], x)
  /\ \A k \in 1 .. 10 : k # b /\ k # c => Keeps(S[k], R[k])

\* A message that is in one place is carried into one place, and what is
\* nowhere stays nowhere.
LEMMA CarryOne ==
  ASSUME NEW S, NEW R, NEW b, NEW c, NEW x, Carries(S, R, b, c, x), NEW id \in Ids
  PROVE  /\ Alone(S, id) => Alone(R, id)
         /\ Nowhere(S, id) => Nowhere(R, id)
<1>1. CASE id # x
  <2>1. \A k \in 1 .. 10 : Alike(S[k][id], R[k][id])
    BY <1>1 DEF Carries, Loses, Gets, Keeps
  <2>. QED  BY ONLY <2>1 DEF Alike, Alone, Nowhere
<1>2. CASE id = x
  <2>1. /\ b \in 1 .. 10 /\ c \in 1 .. 10 /\ b # c
        /\ S[b][id] # {} /\ (One(S[b][id]) => R[b][id] = {})
        /\ S[c][id] = {} => One(R[c][id])
        /\ \A k \in 1 .. 10 : k # b /\ k # c => Alike(S[k][id], R[k][id])
    BY <1>2 DEF Carries, Loses, Gets, Keeps
  <2>2. ~ Nowhere(S, id)
    BY <2>1 DEF Nowhere
  <2>3. ASSUME Alone(S, id)  PROVE  Alone(R, id)
    <3>1. One(S[b][id]) /\ \A j \in 1 .. 10 : j # b => S[j][id] = {}
      BY <2>1, <2>3 DEF Alone
    <3>2. One(R[c][id]) /\ \A j \in 1 .. 10 : j # c => R[j][id] = {}
      BY ONLY <2>1, <3>1 DEF Alike
    <3>. QED  BY <2>1, <3>2 DEF Alone
  <2>. QED  BY <2>2, <2>3
<1>. QED  BY <1>1, <1>2

\* A shelf nothing happens to.
LEMMA SameKeeps == \A A : Keeps(A, A)
BY DEF Keeps, Alike

-----------------------------------------------------------------------------
(* Queues *)

\* A place in a family of queues.
LEMMA InSeqFacts ==
  ASSUME NEW name, NEW f, NEW id
  PROVE  /\ \A x \in InSeq(name, f, id) :
              \E i \in DOMAIN f : \E k \in DOMAIN f[i] : x = <<name, i, k>> /\ IdOf(f[i][k]) = id
         /\ \A i \in DOMAIN f : \A k \in DOMAIN f[i] :
              IdOf(f[i][k]) = id => <<name, i, k>> \in InSeq(name, f, id)
BY DEF InSeq

\* A push puts the message on the queues' shelf.
LEMMA PushGets ==
  ASSUME NEW ids, NEW f \in [ids -> Seq(Message)], NEW i \in ids, NEW m \in Message,
         NEW g, g = Pushed(f, i, m), NEW name
  PROVE  Gets(QueueAt(name, f), QueueAt(name, g), IdOf(m))
<1>1. /\ g \in [ids -> Seq(Message)]
      /\ \A j \in ids \ {i} : g[j] = f[j]
      /\ DOMAIN g[i] = DOMAIN f[i] \union {Len(f[i]) + 1}
      /\ DOMAIN f[i] = 1 .. Len(f[i])
      /\ \A k \in DOMAIN f[i] : g[i][k] = f[i][k]
      /\ g[i][Len(f[i]) + 1] = m
  BY PushFacts
<1>2. DOMAIN f = ids /\ DOMAIN g = ids
  BY <1>1
<1>3. ASSUME NEW id, id # IdOf(m)  PROVE  InSeq(name, g, id) = InSeq(name, f, id)
  <2>1. ASSUME NEW x \in InSeq(name, g, id)  PROVE  x \in InSeq(name, f, id)
    <3>1. PICK j \in ids : \E k \in DOMAIN g[j] : x = <<name, j, k>> /\ IdOf(g[j][k]) = id
      BY <1>2, <2>1, InSeqFacts
    <3>2. PICK k \in DOMAIN g[j] : x = <<name, j, k>> /\ IdOf(g[j][k]) = id
      BY <3>1
    <3>3. k \in DOMAIN f[j] /\ f[j][k] = g[j][k]
      BY <1>1, <1>3, <3>2
    <3>. QED  BY <1>2, <3>2, <3>3, InSeqFacts
  <2>2. ASSUME NEW x \in InSeq(name, f, id)  PROVE  x \in InSeq(name, g, id)
    <3>1. PICK j \in ids : \E k \in DOMAIN f[j] : x = <<name, j, k>> /\ IdOf(f[j][k]) = id
      BY <1>2, <2>2, InSeqFacts
    <3>2. PICK k \in DOMAIN f[j] : x = <<name, j, k>> /\ IdOf(f[j][k]) = id
      BY <3>1
    <3>3. k \in DOMAIN g[j] /\ f[j][k] = g[j][k]
      BY <1>1, <3>2
    <3>. QED  BY <1>2, <3>2, <3>3, InSeqFacts
  <2>. QED  BY <2>1, <2>2
<1>4. ASSUME NEW id, id = IdOf(m), InSeq(name, f, id) = {}
      PROVE  InSeq(name, g, id) = {<<name, i, Len(f[i]) + 1>>}
  <2>1. ASSUME NEW x \in InSeq(name, g, id)  PROVE  x = <<name, i, Len(f[i]) + 1>>
    <3>1. PICK j \in ids : \E k \in DOMAIN g[j] : x = <<name, j, k>> /\ IdOf(g[j][k]) = id
      BY <1>2, <2>1, InSeqFacts
    <3>2. PICK k \in DOMAIN g[j] : x = <<name, j, k>> /\ IdOf(g[j][k]) = id
      BY <3>1
    <3>3. ~ (k \in DOMAIN f[j] /\ f[j][k] = g[j][k])
      BY <1>2, <1>4, <3>2, InSeqFacts
    <3>4. j = i /\ k = Len(f[i]) + 1
      BY <1>1, <3>2, <3>3
    <3>. QED  BY <3>2, <3>4
  <2>2. <<name, i, Len(f[i]) + 1>> \in InSeq(name, g, id)
    BY <1>1, <1>2, <1>4, InSeqFacts
  <2>. QED  BY <2>1, <2>2
<1>. QED  BY <1>3, <1>4 DEF Gets, QueueAt, Alike, One

\* A pop takes it off.  The messages behind it move up.
LEMMA PopLoses ==
  ASSUME NEW ids, NEW f \in [ids -> Seq(Message)], NEW i \in ids, f[i] # <<>>,
         NEW m, m = Head(f[i]), NEW g, g = Popped(f, i), NEW name
  PROVE  Loses(QueueAt(name, f), QueueAt(name, g), IdOf(m))
<1>1. /\ g \in [ids -> Seq(Message)]
      /\ \A j \in ids \ {i} : g[j] = f[j]
      /\ 1 \in DOMAIN f[i] /\ f[i][1] = Head(f[i]) /\ Head(f[i]) \in Message
      /\ \A k \in DOMAIN g[i] : k \in Nat \ {0} /\ k + 1 \in DOMAIN f[i] /\ g[i][k] = f[i][k + 1]
      /\ \A k \in DOMAIN f[i] : k = 1 \/ (k - 1 \in DOMAIN g[i] /\ g[i][k - 1] = f[i][k])
  BY ONLY f \in [ids -> Seq(Message)], i \in ids, f[i] # <<>>, g = Popped(f, i), PopFacts
<1>2. DOMAIN f = ids /\ DOMAIN g = ids /\ \A k \in DOMAIN f[i] : k \in Nat
  <2>1. f[i] \in Seq(Message)
    OBVIOUS
  <2>2. \A k \in DOMAIN f[i] : k \in Nat
    BY ONLY <2>1
  <2>. QED  BY <1>1, <2>2
<1>3. \* where an element of g comes from
      ASSUME NEW id, NEW j \in ids, NEW k \in DOMAIN g[j], IdOf(g[j][k]) = id
      PROVE  <<name, j, IF j = i THEN k + 1 ELSE k>> \in InSeq(name, f, id)
  <2>1. CASE j = i
    <3>1. k + 1 \in DOMAIN f[j] /\ IdOf(f[j][k + 1]) = id
      BY <1>1, <1>3, <2>1
    <3>. QED  BY <1>2, <2>1, <3>1, InSeqFacts
  <2>2. CASE j # i
    <3>1. k \in DOMAIN f[j] /\ IdOf(f[j][k]) = id
      BY <1>1, <1>3, <2>2
    <3>. QED  BY <1>2, <2>2, <3>1, InSeqFacts
  <2>. QED  BY <2>1, <2>2
<1>4. ASSUME NEW id, InSeq(name, f, id) = {}  PROVE  InSeq(name, g, id) = {}
  <2>1. ASSUME NEW x \in InSeq(name, g, id)  PROVE  FALSE
    <3>1. PICK j \in ids : \E k \in DOMAIN g[j] : x = <<name, j, k>> /\ IdOf(g[j][k]) = id
      BY <1>2, <2>1, InSeqFacts
    <3>2. PICK k \in DOMAIN g[j] : x = <<name, j, k>> /\ IdOf(g[j][k]) = id
      BY <3>1
    <3>3. <<name, j, IF j = i THEN k + 1 ELSE k>> \in InSeq(name, f, id)
      BY <1>3, <3>2
    <3>. QED  BY <1>4, <3>3
  <2>. QED  BY <2>1
<1>5. ASSUME NEW id, id # IdOf(m), One(InSeq(name, f, id))  PROVE  One(InSeq(name, g, id))
  <2>1. PICK y : InSeq(name, f, id) = {y}
    BY <1>5 DEF One
  <2>. y \in InSeq(name, f, id)
    BY <2>1
  <2>2. PICK j \in ids : \E k \in DOMAIN f[j] : y = <<name, j, k>> /\ IdOf(f[j][k]) = id
    BY <1>2, InSeqFacts
  <2>3. PICK k \in DOMAIN f[j] : y = <<name, j, k>> /\ IdOf(f[j][k]) = id
    BY <2>2
  <2>. DEFINE p == IF j = i THEN k - 1 ELSE k
  <2>4. p \in DOMAIN g[j] /\ g[j][p] = f[j][k]
    <3>1. CASE j = i
      <4>1. k # 1
        BY <1>1, <1>5, <2>3, <3>1
      <4>. QED  BY <1>1, <3>1, <4>1
    <3>2. CASE j # i
      BY <1>1, <3>2
    <3>. QED  BY <3>1, <3>2
  <2>5. <<name, j, p>> \in InSeq(name, g, id)
    BY <1>2, <2>3, <2>4, InSeqFacts
  <2>6. ASSUME NEW x \in InSeq(name, g, id)  PROVE  x = <<name, j, p>>
    <3>1. PICK h \in ids : \E l \in DOMAIN g[h] : x = <<name, h, l>> /\ IdOf(g[h][l]) = id
      BY <1>2, <2>6, InSeqFacts
    <3>2. PICK l \in DOMAIN g[h] : x = <<name, h, l>> /\ IdOf(g[h][l]) = id
      BY <3>1
    <3>3. <<name, h, IF h = i THEN l + 1 ELSE l>> = <<name, j, k>>
      BY <1>3, <2>1, <2>3, <3>2
    <3>4. h = j /\ (IF h = i THEN l + 1 ELSE l) = k
      BY <3>3
    <3>5. l = p
      BY <1>1, <3>2, <3>4
    <3>. QED  BY <3>2, <3>4, <3>5
  <2>7. InSeq(name, g, id) = {<<name, j, p>>}
    BY <2>5, <2>6
  <2>. QED  BY <2>7 DEF One
<1>6. ASSUME NEW id, id = IdOf(m)
      PROVE  /\ InSeq(name, f, id) # {}
             /\ One(InSeq(name, f, id)) => InSeq(name, g, id) = {}
  <2>1. <<name, i, 1>> \in InSeq(name, f, id)
    BY <1>1, <1>2, <1>6, InSeqFacts
  <2>2. ASSUME One(InSeq(name, f, id)), NEW x \in InSeq(name, g, id)  PROVE  FALSE
    <3>1. PICK h \in ids : \E l \in DOMAIN g[h] : x = <<name, h, l>> /\ IdOf(g[h][l]) = id
      BY <1>2, <2>2, InSeqFacts
    <3>2. PICK l \in DOMAIN g[h] : x = <<name, h, l>> /\ IdOf(g[h][l]) = id
      BY <3>1
    <3>3. <<name, h, IF h = i THEN l + 1 ELSE l>> = <<name, i, 1>>
      <4>1. <<name, h, IF h = i THEN l + 1 ELSE l>> \in InSeq(name, f, id)
        BY <1>3, <3>2
      <4>. QED  BY ONLY <2>1, <2>2, <4>1 DEF One
    <3>4. h = i /\ (IF h = i THEN l + 1 ELSE l) = 1
      BY <3>3
    <3>. QED  BY <1>1, <3>2, <3>4
  <2>. QED  BY <2>1, <2>2
<1>. QED  BY <1>4, <1>5, <1>6 DEF Loses, QueueAt, Alike

-----------------------------------------------------------------------------
(* Hands, and what is lost *)

\* A hand takes a message.
LEMMA HandGets ==
  ASSUME NEW m \in Message, NEW t
  PROVE  Gets(HandAt(t, NoMessage), HandAt(t, m), IdOf(m))
BY NoMessageAssumption DEF Gets, HandAt, Alike, One

\* A hand lets go of it.
LEMMA HandLoses ==
  ASSUME NEW m \in Message, NEW t
  PROVE  Loses(HandAt(t, m), HandAt(t, NoMessage), IdOf(m))
BY NoMessageAssumption DEF Loses, HandAt, Alike, One

\* The places in a family of hands.
LEMMA HandsFacts ==
  ASSUME NEW kind, NEW f, NEW id \in Ids
  PROVE  /\ \A x \in HandsAt(kind, f)[id] :
              \E i \in DOMAIN f : /\ x = <<kind, i>> /\ f[i].message # NoMessage
                                  /\ IdOf(f[i].message) = id
         /\ \A i \in DOMAIN f :
              f[i].message # NoMessage /\ IdOf(f[i].message) = id
                => <<kind, i>> \in HandsAt(kind, f)[id]
BY DEF HandsAt

\* A step that leaves every hand of a family as it is.
LEMMA HandsKeep ==
  ASSUME NEW ids, NEW f, NEW g, DOMAIN f = ids, DOMAIN g = ids,
         \A j \in ids : g[j].message = f[j].message, NEW kind
  PROVE  Keeps(HandsAt(kind, f), HandsAt(kind, g))
<1>1. ASSUME NEW id \in Ids  PROVE  HandsAt(kind, f)[id] = HandsAt(kind, g)[id]
  <2>1. \A x \in HandsAt(kind, f)[id] : x \in HandsAt(kind, g)[id]
    BY HandsFacts
  <2>2. \A x \in HandsAt(kind, g)[id] : x \in HandsAt(kind, f)[id]
    BY HandsFacts
  <2>. QED  BY <2>1, <2>2
<1>. QED  BY <1>1 DEF Keeps, Alike

\* One hand i of a family f is empty and holds m in g.
LEMMA HandsDiffer ==
  ASSUME NEW ids, NEW f, NEW g, DOMAIN f = ids, DOMAIN g = ids, NEW i \in ids,
         \A j \in ids \ {i} : g[j].message = f[j].message,
         f[i].message = NoMessage, NEW m, m # NoMessage, g[i].message = m, NEW kind,
         NEW id \in Ids
  PROVE  /\ id # IdOf(m) => HandsAt(kind, g)[id] = HandsAt(kind, f)[id]
         /\ id = IdOf(m) => HandsAt(kind, g)[id] = HandsAt(kind, f)[id] \union {<<kind, i>>}
<1>1. \A x \in HandsAt(kind, f)[id] : x \in HandsAt(kind, g)[id]
  BY HandsFacts
<1>2. ASSUME NEW x \in HandsAt(kind, g)[id]
      PROVE  x \in HandsAt(kind, f)[id] \/ (x = <<kind, i>> /\ id = IdOf(m))
  <2>1. PICK j \in ids : x = <<kind, j>> /\ g[j].message # NoMessage /\ IdOf(g[j].message) = id
    BY <1>2, HandsFacts
  <2>. QED  BY <2>1, HandsFacts
<1>3. id = IdOf(m) => <<kind, i>> \in HandsAt(kind, g)[id]
  BY HandsFacts
<1>. QED  BY <1>1, <1>2, <1>3

\* A hand of a family takes a message.
LEMMA HandsGet ==
  ASSUME NEW ids, NEW f, NEW g, DOMAIN f = ids, DOMAIN g = ids, NEW i \in ids,
         \A j \in ids \ {i} : g[j].message = f[j].message,
         f[i].message = NoMessage, NEW m, m # NoMessage, g[i].message = m, NEW kind
  PROVE  Gets(HandsAt(kind, f), HandsAt(kind, g), IdOf(m))
<1>1. \A id \in Ids :
        /\ id # IdOf(m) => HandsAt(kind, g)[id] = HandsAt(kind, f)[id]
        /\ id = IdOf(m) => HandsAt(kind, g)[id] = HandsAt(kind, f)[id] \union {<<kind, i>>}
  BY HandsDiffer
<1>2. ASSUME NEW id \in Ids, id = IdOf(m), HandsAt(kind, f)[id] = {}
      PROVE  HandsAt(kind, g)[id] = {<<kind, i>>}
  BY <1>1, <1>2
<1>. QED  BY <1>1, <1>2 DEF Gets, Alike, One

\* A hand of a family lets go of it.
LEMMA HandsLose ==
  ASSUME NEW ids, NEW f, NEW g, DOMAIN f = ids, DOMAIN g = ids, NEW i \in ids,
         \A j \in ids \ {i} : g[j].message = f[j].message,
         g[i].message = NoMessage, NEW m, m # NoMessage, f[i].message = m, NEW kind
  PROVE  Loses(HandsAt(kind, f), HandsAt(kind, g), IdOf(m))
<1>1. \A id \in Ids :
        /\ id # IdOf(m) => HandsAt(kind, f)[id] = HandsAt(kind, g)[id]
        /\ id = IdOf(m) => HandsAt(kind, f)[id] = HandsAt(kind, g)[id] \union {<<kind, i>>}
  BY HandsDiffer
<1>2. ASSUME NEW id \in Ids  PROVE  <<kind, i>> \notin HandsAt(kind, g)[id]
  <2>1. SUFFICES ASSUME <<kind, i>> \in HandsAt(kind, g)[id]  PROVE  FALSE
    OBVIOUS
  <2>2. PICK j \in ids : <<kind, i>> = <<kind, j>> /\ g[j].message # NoMessage
    BY <2>1, HandsFacts
  <2>3. j = i
    BY <2>2
  <2>. QED  BY <2>2, <2>3
<1>3. ASSUME NEW id \in Ids, id = IdOf(m), One(HandsAt(kind, f)[id])
      PROVE  HandsAt(kind, g)[id] = {}
  <2>1. HandsAt(kind, f)[id] = HandsAt(kind, g)[id] \union {<<kind, i>>}
    BY <1>1, <1>3
  <2>2. <<kind, i>> \notin HandsAt(kind, g)[id]
    BY <1>2
  <2>. QED  BY ONLY <1>3, <2>1, <2>2 DEF One
<1>4. ASSUME NEW id \in Ids, id = IdOf(m)  PROVE  HandsAt(kind, f)[id] # {}
  BY <1>1, <1>4
<1>. QED  BY <1>1, <1>3, <1>4 DEF Loses, Alike

\* A message is given up on.
LEMMA GoneGets ==
  ASSUME NEW L, NEW m, NEW stage, NEW M, M = L \union {[message |-> m, at |-> stage]}
  PROVE  Gets(GoneAt(L), GoneAt(M), IdOf(m))
<1>. DEFINE e == [message |-> m, at |-> stage]
<1>1. e.message = m
  OBVIOUS
<1>2. M = L \union {e}
  OBVIOUS
<1>. HIDE DEF e
<1>3. ASSUME NEW id \in Ids, id # IdOf(m)  PROVE  GoneAt(M)[id] = GoneAt(L)[id]
  <2>1. {x \in M : IdOf(x.message) = id} = {x \in L : IdOf(x.message) = id}
    BY ONLY <1>1, <1>2, <1>3
  <2>. QED  BY <2>1 DEF GoneAt
<1>4. ASSUME NEW id \in Ids, id = IdOf(m), GoneAt(L)[id] = {}
      PROVE  GoneAt(M)[id] = {<<"lost", e.at>>}
  <2>1. {x \in L : IdOf(x.message) = id} = {}
    BY <1>4 DEF GoneAt
  <2>2. {x \in M : IdOf(x.message) = id} = {e}
    BY ONLY <1>1, <1>2, <1>4, <2>1
  <2>. QED  BY <2>2 DEF GoneAt
<1>. QED  BY <1>3, <1>4 DEF Gets, Alike, One

-----------------------------------------------------------------------------
(* The shelves, one by one *)

\* The shelves before and after a step.
LEMMA ShelfFacts ==
  /\ Shelves[1] = QueueAt("log", Logs)
  /\ Shelves[2] = QueueAt("stage2_queues", stage2_queues)
  /\ Shelves[3] = HandAt(<<"stage2", 0>>, stage2.message)
  /\ Shelves[4] = QueueAt("processor_queues", processor_queues)
  /\ Shelves[5] = HandsAt("processor", processor)
  /\ Shelves[6] = QueueAt("stage1_queues", stage1_queues)
  /\ Shelves[7] = HandAt(<<"stage1", 0>>, stage1.message)
  /\ Shelves[8] = QueueAt("producer_queues", producer_queues)
  /\ Shelves[9] = HandsAt("producer", producer)
  /\ Shelves[10] = GoneAt(lost)
BY DEF Shelves

\* The same after a step: each shelf is filled from the primed variables.
LEMMA ShelfFactsAfter ==
  /\ Shelves'[1] = QueueAt("log", Logs')
  /\ Shelves'[2] = QueueAt("stage2_queues", stage2_queues')
  /\ Shelves'[3] = HandAt(<<"stage2", 0>>, stage2'.message)
  /\ Shelves'[4] = QueueAt("processor_queues", processor_queues')
  /\ Shelves'[5] = HandsAt("processor", processor')
  /\ Shelves'[6] = QueueAt("stage1_queues", stage1_queues')
  /\ Shelves'[7] = HandAt(<<"stage1", 0>>, stage1'.message)
  /\ Shelves'[8] = QueueAt("producer_queues", producer_queues')
  /\ Shelves'[9] = HandsAt("producer", producer')
  /\ Shelves'[10] = GoneAt(lost')
BY DEF Shelves, QueueAt, HandAt, HandsAt, GoneAt, InSeq, Logs

\* A shelf is left alone by a step that leaves alone what is on it.
LEMMA ShelfFrames ==
  /\ UNCHANGED Logs => Keeps(Shelves[1], Shelves'[1])
  /\ UNCHANGED stage2_queues => Keeps(Shelves[2], Shelves'[2])
  /\ stage2'.message = stage2.message => Keeps(Shelves[3], Shelves'[3])
  /\ UNCHANGED processor_queues => Keeps(Shelves[4], Shelves'[4])
  /\ UNCHANGED processor => Keeps(Shelves[5], Shelves'[5])
  /\ UNCHANGED stage1_queues => Keeps(Shelves[6], Shelves'[6])
  /\ stage1'.message = stage1.message => Keeps(Shelves[7], Shelves'[7])
  /\ UNCHANGED producer_queues => Keeps(Shelves[8], Shelves'[8])
  /\ UNCHANGED producer => Keeps(Shelves[9], Shelves'[9])
  /\ UNCHANGED lost => Keeps(Shelves[10], Shelves'[10])
BY ShelfFacts, ShelfFactsAfter, SameKeeps

-----------------------------------------------------------------------------
(* What each component's steps do *)

\* Nothing is moved; one message is carried from one shelf to another.
Settled == \A k \in 1 .. 10 : Keeps(Shelves[k], Shelves'[k])
Hauled == \E b, c, x : Carries(Shelves, Shelves', b, c, x)
SameNumbers == \A j \in Producers : producer'[j].next_sequence_ = producer[j].next_sequence_

\* Producer i has its next message in hand.
Born(i) ==
  /\ Gets(Shelves[9], Shelves'[9], <<i, producer[i].next_sequence_>>)
  /\ \A k \in 1 .. 10 : k # 9 => Keeps(Shelves[k], Shelves'[k])
  /\ producer'[i].next_sequence_ = producer[i].next_sequence_ + 1
  /\ \A j \in Producers \ {i} : producer'[j].next_sequence_ = producer[j].next_sequence_

\* A step of a producer.
LEMMA ProducerHauls ==
  ASSUME TypeInv, TypeInv', NEW i \in Producers, ProducerMoves(i)
  PROVE  (SameNumbers /\ (Settled \/ Hauled)) \/ Born(i)
<1>0. /\ producer \in [Producers -> P!Object] /\ producer[i] \in P!Object
      /\ producer_queues \in [Producers -> Seq(Message)]
      /\ \A j \in Producers : producer[j].pc = "push" <=> producer[j].message # NoMessage
      /\ DOMAIN producer = Producers
  BY DEF TypeInv, ObjectsOK, ProducersOK, QueuesOK
<1>1. /\ producer' \in [Producers -> P!Object] /\ DOMAIN producer' = Producers
  BY DEF TypeInv, ObjectsOK, ProducersOK
<1>2. UNCHANGED <<stage1, processor, stage2, strategy, stage1_queues, processor_queues, stage2_queues>>
  BY DEF ProducerMoves, AtProducers
<1>3. \A k \in 1 .. 7 : Keeps(Shelves[k], Shelves'[k])
  <2>1. UNCHANGED Logs /\ stage1'.message = stage1.message /\ stage2'.message = stage2.message
    BY <1>2 DEF Logs
  <2>2. /\ Keeps(Shelves[1], Shelves'[1]) /\ Keeps(Shelves[2], Shelves'[2])
        /\ Keeps(Shelves[3], Shelves'[3]) /\ Keeps(Shelves[4], Shelves'[4])
        /\ Keeps(Shelves[5], Shelves'[5]) /\ Keeps(Shelves[6], Shelves'[6])
        /\ Keeps(Shelves[7], Shelves'[7])
    BY <1>2, <2>1, ShelfFrames
  <2>. QED  BY ONLY <2>2
<1>4. CASE P!Start(i) \/ P!StartFails(i) \/ P!Stop(i) \/ P!Begin(i) \/ P!Retry(i) \/ P!Exit(i)
  <2>1. /\ UNCHANGED <<producer_queues, lost>>
        /\ \A j \in Producers : producer'[j].message = producer[j].message
        /\ SameNumbers
    BY <1>4, ProducerKeeps DEF SameNumbers
  <2>2. Keeps(Shelves[8], Shelves'[8]) /\ Keeps(Shelves[10], Shelves'[10])
    BY <2>1, ShelfFrames
  <2>3. Keeps(HandsAt("producer", producer), HandsAt("producer", producer'))
    BY ONLY <1>0, <1>1, <2>1, HandsKeep
  <2>4. Keeps(Shelves[9], Shelves'[9])
    BY <2>3, ShelfFacts, ShelfFactsAfter
  <2>5. Settled
    BY ONLY <1>3, <2>2, <2>4 DEF Settled
  <2>. QED  BY <2>1, <2>5
<1>5. CASE P!Generate(i)
  <2>1. PICK t \in MsgTypes :
          producer' = [producer EXCEPT
            ![i].message = P!NewMessage(t, i, producer[i].next_sequence_),
            ![i].next_sequence_ = @ + 1,
            ![i].retry = 0,
            ![i].pc = "push"]
    BY <1>5 DEF P!Generate
  <2>2. PICK m \in Message : /\ m = P!NewMessage(t, i, producer[i].next_sequence_)
                             /\ m.producer_id = i
                             /\ m.sequence_number = producer[i].next_sequence_
    BY <1>0, <1>5, IdFacts, BoundFacts DEF P!NewMessage, P!Object, P!Generate, Message
  <2>3. /\ producer'[i].message = m
        /\ producer'[i].next_sequence_ = producer[i].next_sequence_ + 1
        /\ \A j \in Producers \ {i} : producer'[j] = producer[j]
        /\ UNCHANGED <<producer_queues, lost>>
    BY <1>0, <1>5, <2>1, <2>2 DEF P!Generate, P!Object
  <2>4. producer[i].message = NoMessage /\ m # NoMessage
    BY <1>0, <1>5, NoMessageAssumption DEF P!Generate
  <2>5. \A j \in Producers \ {i} : producer'[j].message = producer[j].message
    BY <2>3
  <2>6. Gets(HandsAt("producer", producer), HandsAt("producer", producer'), IdOf(m))
    <3>1. producer'[i].message = m
      BY <2>3
    <3>. QED  BY ONLY <1>0, <1>1, <2>4, <2>5, <3>1, i \in Producers, HandsGet
  <2>7. Gets(Shelves[9], Shelves'[9], <<i, producer[i].next_sequence_>>)
    BY <2>2, <2>6, ShelfFacts, ShelfFactsAfter DEF IdOf
  <2>8. Keeps(Shelves[8], Shelves'[8]) /\ Keeps(Shelves[10], Shelves'[10])
    BY <2>3, ShelfFrames
  <2>9. \A k \in 1 .. 10 : k # 9 => Keeps(Shelves[k], Shelves'[k])
    BY ONLY <1>3, <2>8
  <2>. QED  BY <2>3, <2>7, <2>9 DEF Born
<1>6. CASE P!Send(i) \/ P!GiveUp(i)
  <2>1. /\ producer[i].message \in Message /\ producer'[i].message = NoMessage
        /\ SameNumbers
        /\ \A j \in Producers \ {i} : producer'[j].message = producer[j].message
    BY <1>6, ProducerFrees DEF SameNumbers
  <2>2. PICK m \in Message : m = producer[i].message
    BY <2>1
  <2>3. Loses(HandsAt("producer", producer), HandsAt("producer", producer'), IdOf(m))
    <3>1. m # NoMessage
      BY NoMessageAssumption
    <3>. QED  BY ONLY <1>0, <1>1, <2>1, <2>2, <3>1, i \in Producers, HandsLose
  <2>4. Loses(Shelves[9], Shelves'[9], IdOf(m))
    BY <2>3, ShelfFacts, ShelfFactsAfter
  <2>5. CASE P!Send(i)
    <3>1. /\ producer_queues' = Pushed(producer_queues, i, m)
          /\ UNCHANGED lost
      BY <2>2, <2>5 DEF P!Send, Pushed
    <3>2. Gets(QueueAt("producer_queues", producer_queues),
               QueueAt("producer_queues", producer_queues'), IdOf(m))
      BY ONLY <1>0, <3>1, m \in Message, i \in Producers, PushGets
    <3>3. Gets(Shelves[8], Shelves'[8], IdOf(m)) /\ Keeps(Shelves[10], Shelves'[10])
      BY <3>1, <3>2, ShelfFacts, ShelfFactsAfter, ShelfFrames
    <3>4. Carries(Shelves, Shelves', 9, 8, IdOf(m))
      BY ONLY <1>3, <2>4, <3>3 DEF Carries
    <3>. QED  BY <2>1, <3>4 DEF Hauled
  <2>6. CASE P!GiveUp(i)
    <3>1. /\ lost' = lost \union {[message |-> m, at |-> "producer"]}
          /\ UNCHANGED producer_queues
      BY <2>2, <2>6 DEF P!GiveUp
    <3>2. Gets(GoneAt(lost), GoneAt(lost'), IdOf(m))
      BY ONLY <3>1, GoneGets
    <3>3. Gets(Shelves[10], Shelves'[10], IdOf(m)) /\ Keeps(Shelves[8], Shelves'[8])
      BY <3>1, <3>2, ShelfFacts, ShelfFactsAfter, ShelfFrames
    <3>4. Carries(Shelves, Shelves', 9, 10, IdOf(m))
      BY ONLY <1>3, <2>4, <3>3 DEF Carries
    <3>. QED  BY <2>1, <3>4 DEF Hauled
  <2>. QED  BY <1>6, <2>5, <2>6
<1>. QED  BY <1>4, <1>5, <1>6 DEF ProducerMoves, P!producer_loop

\* A step of the first router.
LEMMA Stage1Hauls ==
  ASSUME TypeInv, Stage1Moves
  PROVE  SameNumbers /\ (Settled \/ Hauled)
<1>0. /\ producer_queues \in [Producers -> Seq(Message)]
      /\ stage1_queues \in [Processors -> Seq(Message)]
  BY DEF TypeInv, ObjectsOK, QueuesOK
<1>1. UNCHANGED <<producer, processor, stage2, strategy, processor_queues, stage2_queues>>
  BY DEF Stage1Moves, AtStage1
<1>2. SameNumbers /\ \A k \in {1, 2, 3, 4, 5, 9} : Keeps(Shelves[k], Shelves'[k])
  <2>1. UNCHANGED Logs /\ stage2'.message = stage2.message
    BY <1>1 DEF Logs
  <2>2. /\ Keeps(Shelves[1], Shelves'[1]) /\ Keeps(Shelves[2], Shelves'[2])
        /\ Keeps(Shelves[3], Shelves'[3]) /\ Keeps(Shelves[4], Shelves'[4])
        /\ Keeps(Shelves[5], Shelves'[5]) /\ Keeps(Shelves[9], Shelves'[9])
    BY <1>1, <2>1, ShelfFrames
  <2>. QED  BY <1>1, <2>2 DEF SameNumbers
<1>3. CASE S1!Start \/ S1!StartFails \/ S1!Stop \/ S1!Loop \/ S1!NextQueue \/ S1!Retry
  <2>1. /\ UNCHANGED <<producer_queues, stage1_queues, lost>>
        /\ stage1'.message = stage1.message
    BY <1>3, Stage1Keeps
  <2>2. /\ Keeps(Shelves[8], Shelves'[8]) /\ Keeps(Shelves[7], Shelves'[7])
        /\ Keeps(Shelves[6], Shelves'[6]) /\ Keeps(Shelves[10], Shelves'[10])
    BY <2>1, ShelfFrames
  <2>3. Settled
    BY ONLY <1>2, <2>2 DEF Settled
  <2>. QED  BY <1>2, <2>3
<1>4. CASE S1!Pop \/ S1!PopUnroutable
  <2>1. PICK i \in Producers, m \in Message :
           /\ producer_queues[i] # <<>> /\ m = Head(producer_queues[i])
           /\ producer_queues' = Popped(producer_queues, i)
           /\ UNCHANGED stage1_queues
           /\ stage1.message = NoMessage
           /\ \/ stage1'.message = m /\ UNCHANGED lost
              \/ /\ stage1'.message = NoMessage
                 /\ lost' = lost \union {[message |-> m, at |-> "stage1"]}
    BY <1>4, Stage1Pops
  <2>2. Loses(QueueAt("producer_queues", producer_queues),
              QueueAt("producer_queues", producer_queues'), IdOf(m))
    BY ONLY <1>0, <2>1, i \in Producers, PopLoses
  <2>3. Loses(Shelves[8], Shelves'[8], IdOf(m)) /\ Keeps(Shelves[6], Shelves'[6])
    BY <2>1, <2>2, ShelfFacts, ShelfFactsAfter, ShelfFrames
  <2>4. CASE stage1'.message = m /\ UNCHANGED lost
    <3>1. Gets(HandAt(<<"stage1", 0>>, stage1.message), HandAt(<<"stage1", 0>>, stage1'.message), IdOf(m))
      BY ONLY <2>1, <2>4, m \in Message, HandGets
    <3>2. Gets(Shelves[7], Shelves'[7], IdOf(m)) /\ Keeps(Shelves[10], Shelves'[10])
      BY <2>4, <3>1, ShelfFacts, ShelfFactsAfter, ShelfFrames
    <3>3. Carries(Shelves, Shelves', 8, 7, IdOf(m))
      BY ONLY <1>2, <2>3, <3>2 DEF Carries
    <3>. QED  BY <1>2, <3>3 DEF Hauled
  <2>5. CASE /\ stage1'.message = NoMessage
             /\ lost' = lost \union {[message |-> m, at |-> "stage1"]}
    <3>1. Gets(GoneAt(lost), GoneAt(lost'), IdOf(m))
      BY ONLY <2>5, GoneGets
    <3>2. Gets(Shelves[10], Shelves'[10], IdOf(m)) /\ Keeps(Shelves[7], Shelves'[7])
      BY <2>1, <2>5, <3>1, ShelfFacts, ShelfFactsAfter, ShelfFrames
    <3>3. Carries(Shelves, Shelves', 8, 10, IdOf(m))
      BY ONLY <1>2, <2>3, <3>2 DEF Carries
    <3>. QED  BY <1>2, <3>3 DEF Hauled
  <2>. QED  BY <2>1, <2>4, <2>5
<1>5. CASE S1!Send \/ S1!GiveUp
  <2>1. PICK m \in Message, o \in Processors :
           /\ m = stage1.message /\ stage1'.message = NoMessage
           /\ UNCHANGED producer_queues
           /\ \/ stage1_queues' = Pushed(stage1_queues, o, m) /\ UNCHANGED lost
              \/ /\ UNCHANGED stage1_queues
                 /\ lost' = lost \union {[message |-> m, at |-> "stage1"]}
    BY <1>5, Stage1Frees
  <2>2. Loses(HandAt(<<"stage1", 0>>, stage1.message), HandAt(<<"stage1", 0>>, stage1'.message), IdOf(m))
    BY ONLY <2>1, m \in Message, HandLoses
  <2>3. Loses(Shelves[7], Shelves'[7], IdOf(m)) /\ Keeps(Shelves[8], Shelves'[8])
    BY <2>1, <2>2, ShelfFacts, ShelfFactsAfter, ShelfFrames
  <2>4. CASE stage1_queues' = Pushed(stage1_queues, o, m) /\ UNCHANGED lost
    <3>1. Gets(QueueAt("stage1_queues", stage1_queues),
               QueueAt("stage1_queues", stage1_queues'), IdOf(m))
      BY ONLY <1>0, <2>4, m \in Message, o \in Processors, PushGets
    <3>2. Gets(Shelves[6], Shelves'[6], IdOf(m)) /\ Keeps(Shelves[10], Shelves'[10])
      BY <2>4, <3>1, ShelfFacts, ShelfFactsAfter, ShelfFrames
    <3>3. Carries(Shelves, Shelves', 7, 6, IdOf(m))
      BY ONLY <1>2, <2>3, <3>2 DEF Carries
    <3>. QED  BY <1>2, <3>3 DEF Hauled
  <2>5. CASE /\ UNCHANGED stage1_queues
             /\ lost' = lost \union {[message |-> m, at |-> "stage1"]}
    <3>1. Gets(GoneAt(lost), GoneAt(lost'), IdOf(m))
      BY ONLY <2>5, GoneGets
    <3>2. Gets(Shelves[10], Shelves'[10], IdOf(m)) /\ Keeps(Shelves[6], Shelves'[6])
      BY <2>5, <3>1, ShelfFacts, ShelfFactsAfter, ShelfFrames
    <3>3. Carries(Shelves, Shelves', 7, 10, IdOf(m))
      BY ONLY <1>2, <2>3, <3>2 DEF Carries
    <3>. QED  BY <1>2, <3>3 DEF Hauled
  <2>. QED  BY <2>1, <2>4, <2>5
<1>. QED  BY <1>3, <1>4, <1>5 DEF Stage1Moves, S1!routing_loop

\* A step of a processor.
LEMMA ProcessorHauls ==
  ASSUME TypeInv, TypeInv', NEW i \in Processors, ProcessorMoves(i)
  PROVE  SameNumbers /\ (Settled \/ Hauled)
<1>0. /\ stage1_queues \in [Processors -> Seq(Message)]
      /\ processor_queues \in [Processors -> Seq(Message)]
      /\ DOMAIN processor = Processors /\ DOMAIN processor' = Processors
  BY DEF TypeInv, ObjectsOK, ProcessorsOK, QueuesOK
<1>1. UNCHANGED <<producer, stage1, stage2, strategy, producer_queues, stage2_queues>>
  BY DEF ProcessorMoves, AtProcessors
<1>2. SameNumbers /\ \A k \in {1, 2, 3, 7, 8, 9} : Keeps(Shelves[k], Shelves'[k])
  <2>1. UNCHANGED Logs /\ stage1'.message = stage1.message /\ stage2'.message = stage2.message
    BY <1>1 DEF Logs
  <2>2. /\ Keeps(Shelves[1], Shelves'[1]) /\ Keeps(Shelves[2], Shelves'[2])
        /\ Keeps(Shelves[3], Shelves'[3]) /\ Keeps(Shelves[7], Shelves'[7])
        /\ Keeps(Shelves[8], Shelves'[8]) /\ Keeps(Shelves[9], Shelves'[9])
    BY <1>1, <2>1, ShelfFrames
  <2>. QED  BY <1>1, <2>2 DEF SameNumbers
<1>3. CASE W!Start(i) \/ W!StartFails(i) \/ W!Stop(i) \/ W!Loop(i) \/ W!Empty(i) \/ W!Retry(i)
  <2>1. /\ UNCHANGED <<stage1_queues, processor_queues, lost>>
        /\ \A j \in Processors : processor'[j].message = processor[j].message
    BY <1>3, ProcessorKeeps
  <2>2. Keeps(HandsAt("processor", processor), HandsAt("processor", processor'))
    BY ONLY <1>0, <2>1, HandsKeep
  <2>3. /\ Keeps(Shelves[4], Shelves'[4]) /\ Keeps(Shelves[5], Shelves'[5])
        /\ Keeps(Shelves[6], Shelves'[6]) /\ Keeps(Shelves[10], Shelves'[10])
    BY <2>1, <2>2, ShelfFacts, ShelfFactsAfter, ShelfFrames
  <2>4. Settled
    BY ONLY <1>2, <2>3 DEF Settled
  <2>. QED  BY <1>2, <2>4
<1>4. CASE W!Pop(i)
  <2>1. PICK m \in Message, n \in Message :
           /\ stage1_queues[i] # <<>> /\ m = Head(stage1_queues[i])
           /\ stage1_queues' = Popped(stage1_queues, i)
           /\ ItemOf(n) = ItemOf(m)
           /\ processor[i].message = NoMessage /\ processor'[i].message = n
           /\ \A j \in Processors \ {i} : processor'[j].message = processor[j].message
           /\ UNCHANGED <<processor_queues, lost>>
    BY <1>4, ProcessorPops
  <2>2. IdOf(n) = IdOf(m)
    <3>1. /\ ItemOf(n).producer_id = n.producer_id /\ ItemOf(m).producer_id = m.producer_id
          /\ ItemOf(n).sequence_number = n.sequence_number
          /\ ItemOf(m).sequence_number = m.sequence_number
      BY DEF ItemOf
    <3>. QED  BY ONLY <2>1, <3>1 DEF IdOf
  <2>3. Loses(QueueAt("stage1_queues", stage1_queues),
              QueueAt("stage1_queues", stage1_queues'), IdOf(m))
    BY ONLY <1>0, <2>1, i \in Processors, PopLoses
  <2>4. Gets(HandsAt("processor", processor), HandsAt("processor", processor'), IdOf(n))
    <3>1. n # NoMessage
      BY NoMessageAssumption
    <3>. QED  BY ONLY <1>0, <2>1, <3>1, i \in Processors, HandsGet
  <2>5. Loses(Shelves[6], Shelves'[6], IdOf(m)) /\ Gets(Shelves[5], Shelves'[5], IdOf(m))
    BY <2>2, <2>3, <2>4, ShelfFacts, ShelfFactsAfter
  <2>6. Keeps(Shelves[4], Shelves'[4]) /\ Keeps(Shelves[10], Shelves'[10])
    BY <2>1, ShelfFrames
  <2>7. Carries(Shelves, Shelves', 6, 5, IdOf(m))
    BY ONLY <1>2, <2>5, <2>6 DEF Carries
  <2>. QED  BY <1>2, <2>7 DEF Hauled
<1>5. CASE W!Send(i) \/ W!GiveUp(i)
  <2>1. PICK m \in Message :
           /\ m = processor[i].message /\ processor'[i].message = NoMessage
           /\ \A j \in Processors \ {i} : processor'[j].message = processor[j].message
           /\ UNCHANGED stage1_queues
           /\ \/ processor_queues' = Pushed(processor_queues, i, m) /\ UNCHANGED lost
              \/ /\ UNCHANGED processor_queues
                 /\ lost' = lost \union {[message |-> m, at |-> "processor"]}
    BY <1>5, ProcessorFrees
  <2>2. Loses(HandsAt("processor", processor), HandsAt("processor", processor'), IdOf(m))
    <3>1. m # NoMessage
      BY NoMessageAssumption
    <3>. QED  BY ONLY <1>0, <2>1, <3>1, i \in Processors, HandsLose
  <2>3. Loses(Shelves[5], Shelves'[5], IdOf(m)) /\ Keeps(Shelves[6], Shelves'[6])
    BY <2>1, <2>2, ShelfFacts, ShelfFactsAfter, ShelfFrames
  <2>4. CASE processor_queues' = Pushed(processor_queues, i, m) /\ UNCHANGED lost
    <3>1. Gets(QueueAt("processor_queues", processor_queues),
               QueueAt("processor_queues", processor_queues'), IdOf(m))
      BY ONLY <1>0, <2>4, m \in Message, i \in Processors, PushGets
    <3>2. Gets(Shelves[4], Shelves'[4], IdOf(m)) /\ Keeps(Shelves[10], Shelves'[10])
      BY <2>4, <3>1, ShelfFacts, ShelfFactsAfter, ShelfFrames
    <3>3. Carries(Shelves, Shelves', 5, 4, IdOf(m))
      BY ONLY <1>2, <2>3, <3>2 DEF Carries
    <3>. QED  BY <1>2, <3>3 DEF Hauled
  <2>5. CASE /\ UNCHANGED processor_queues
             /\ lost' = lost \union {[message |-> m, at |-> "processor"]}
    <3>1. Gets(GoneAt(lost), GoneAt(lost'), IdOf(m))
      BY ONLY <2>5, GoneGets
    <3>2. Gets(Shelves[10], Shelves'[10], IdOf(m)) /\ Keeps(Shelves[4], Shelves'[4])
      BY <2>5, <3>1, ShelfFacts, ShelfFactsAfter, ShelfFrames
    <3>3. Carries(Shelves, Shelves', 5, 10, IdOf(m))
      BY ONLY <1>2, <2>3, <3>2 DEF Carries
    <3>. QED  BY <1>2, <3>3 DEF Hauled
  <2>. QED  BY <2>1, <2>4, <2>5
<1>. QED  BY <1>3, <1>4, <1>5 DEF ProcessorMoves, W!processor_loop

\* A step of the second router.
LEMMA Stage2Hauls ==
  ASSUME TypeInv, Stage2Moves
  PROVE  SameNumbers /\ (Settled \/ Hauled)
<1>0. /\ processor_queues \in [Processors -> Seq(Message)]
      /\ stage2_queues \in [Strategies -> Seq(Message)]
  BY DEF TypeInv, ObjectsOK, QueuesOK
<1>1. UNCHANGED <<producer, stage1, processor, strategy, producer_queues, stage1_queues>>
  BY DEF Stage2Moves, AtStage2
<1>2. SameNumbers /\ \A k \in {1, 5, 6, 7, 8, 9} : Keeps(Shelves[k], Shelves'[k])
  <2>1. UNCHANGED Logs /\ stage1'.message = stage1.message
    BY <1>1 DEF Logs
  <2>2. /\ Keeps(Shelves[1], Shelves'[1]) /\ Keeps(Shelves[5], Shelves'[5])
        /\ Keeps(Shelves[6], Shelves'[6]) /\ Keeps(Shelves[7], Shelves'[7])
        /\ Keeps(Shelves[8], Shelves'[8]) /\ Keeps(Shelves[9], Shelves'[9])
    BY <1>1, <2>1, ShelfFrames
  <2>. QED  BY <1>1, <2>2 DEF SameNumbers
<1>3. CASE S2!Start \/ S2!StartFails \/ S2!Stop \/ S2!Loop \/ S2!NextQueue \/ S2!Retry
  <2>1. /\ UNCHANGED <<processor_queues, stage2_queues, lost>>
        /\ stage2'.message = stage2.message
    BY <1>3, Stage2Keeps
  <2>2. /\ Keeps(Shelves[4], Shelves'[4]) /\ Keeps(Shelves[3], Shelves'[3])
        /\ Keeps(Shelves[2], Shelves'[2]) /\ Keeps(Shelves[10], Shelves'[10])
    BY <2>1, ShelfFrames
  <2>3. Settled
    BY ONLY <1>2, <2>2 DEF Settled
  <2>. QED  BY <1>2, <2>3
<1>4. CASE S2!Pop \/ S2!PopUnroutable
  <2>1. PICK i \in Processors, m \in Message :
           /\ processor_queues[i] # <<>> /\ m = Head(processor_queues[i])
           /\ processor_queues' = Popped(processor_queues, i)
           /\ UNCHANGED stage2_queues
           /\ stage2.message = NoMessage
           /\ \/ stage2'.message = m /\ UNCHANGED lost
              \/ /\ stage2'.message = NoMessage
                 /\ lost' = lost \union {[message |-> m, at |-> "stage2"]}
    BY <1>4, Stage2Pops
  <2>2. Loses(QueueAt("processor_queues", processor_queues),
              QueueAt("processor_queues", processor_queues'), IdOf(m))
    BY ONLY <1>0, <2>1, i \in Processors, PopLoses
  <2>3. Loses(Shelves[4], Shelves'[4], IdOf(m)) /\ Keeps(Shelves[2], Shelves'[2])
    BY <2>1, <2>2, ShelfFacts, ShelfFactsAfter, ShelfFrames
  <2>4. CASE stage2'.message = m /\ UNCHANGED lost
    <3>1. Gets(HandAt(<<"stage2", 0>>, stage2.message), HandAt(<<"stage2", 0>>, stage2'.message), IdOf(m))
      BY ONLY <2>1, <2>4, m \in Message, HandGets
    <3>2. Gets(Shelves[3], Shelves'[3], IdOf(m)) /\ Keeps(Shelves[10], Shelves'[10])
      BY <2>4, <3>1, ShelfFacts, ShelfFactsAfter, ShelfFrames
    <3>3. Carries(Shelves, Shelves', 4, 3, IdOf(m))
      BY ONLY <1>2, <2>3, <3>2 DEF Carries
    <3>. QED  BY <1>2, <3>3 DEF Hauled
  <2>5. CASE /\ stage2'.message = NoMessage
             /\ lost' = lost \union {[message |-> m, at |-> "stage2"]}
    <3>1. Gets(GoneAt(lost), GoneAt(lost'), IdOf(m))
      BY ONLY <2>5, GoneGets
    <3>2. Gets(Shelves[10], Shelves'[10], IdOf(m)) /\ Keeps(Shelves[3], Shelves'[3])
      BY <2>1, <2>5, <3>1, ShelfFacts, ShelfFactsAfter, ShelfFrames
    <3>3. Carries(Shelves, Shelves', 4, 10, IdOf(m))
      BY ONLY <1>2, <2>3, <3>2 DEF Carries
    <3>. QED  BY <1>2, <3>3 DEF Hauled
  <2>. QED  BY <2>1, <2>4, <2>5
<1>5. CASE S2!Send \/ S2!GiveUp
  <2>1. PICK m \in Message, o \in Strategies :
           /\ m = stage2.message /\ stage2'.message = NoMessage
           /\ UNCHANGED processor_queues
           /\ \/ stage2_queues' = Pushed(stage2_queues, o, m) /\ UNCHANGED lost
              \/ /\ UNCHANGED stage2_queues
                 /\ lost' = lost \union {[message |-> m, at |-> "stage2"]}
    BY <1>5, Stage2Frees
  <2>2. Loses(HandAt(<<"stage2", 0>>, stage2.message), HandAt(<<"stage2", 0>>, stage2'.message), IdOf(m))
    BY ONLY <2>1, m \in Message, HandLoses
  <2>3. Loses(Shelves[3], Shelves'[3], IdOf(m)) /\ Keeps(Shelves[4], Shelves'[4])
    BY <2>1, <2>2, ShelfFacts, ShelfFactsAfter, ShelfFrames
  <2>4. CASE stage2_queues' = Pushed(stage2_queues, o, m) /\ UNCHANGED lost
    <3>1. Gets(QueueAt("stage2_queues", stage2_queues),
               QueueAt("stage2_queues", stage2_queues'), IdOf(m))
      BY ONLY <1>0, <2>4, m \in Message, o \in Strategies, PushGets
    <3>2. Gets(Shelves[2], Shelves'[2], IdOf(m)) /\ Keeps(Shelves[10], Shelves'[10])
      BY <2>4, <3>1, ShelfFacts, ShelfFactsAfter, ShelfFrames
    <3>3. Carries(Shelves, Shelves', 3, 2, IdOf(m))
      BY ONLY <1>2, <2>3, <3>2 DEF Carries
    <3>. QED  BY <1>2, <3>3 DEF Hauled
  <2>5. CASE /\ UNCHANGED stage2_queues
             /\ lost' = lost \union {[message |-> m, at |-> "stage2"]}
    <3>1. Gets(GoneAt(lost), GoneAt(lost'), IdOf(m))
      BY ONLY <2>5, GoneGets
    <3>2. Gets(Shelves[10], Shelves'[10], IdOf(m)) /\ Keeps(Shelves[2], Shelves'[2])
      BY <2>5, <3>1, ShelfFacts, ShelfFactsAfter, ShelfFrames
    <3>3. Carries(Shelves, Shelves', 3, 10, IdOf(m))
      BY ONLY <1>2, <2>3, <3>2 DEF Carries
    <3>. QED  BY <1>2, <3>3 DEF Hauled
  <2>. QED  BY <2>1, <2>4, <2>5
<1>. QED  BY <1>3, <1>4, <1>5 DEF Stage2Moves, S2!routing_loop

\* A step of a strategy.
LEMMA StrategyHauls ==
  ASSUME TypeInv, NEW i \in Strategies, StrategyMoves(i)
  PROVE  SameNumbers /\ (Settled \/ Hauled)
<1>0. /\ stage2_queues \in [Strategies -> Seq(Message)]
      /\ Logs \in [Strategies -> Seq(Message)]
  BY DEF TypeInv, ObjectsOK, QueuesOK, StrategiesOK, T!Object, Logs
<1>1. UNCHANGED <<producer, stage1, processor, stage2, lost,
                  producer_queues, stage1_queues, processor_queues>>
  BY DEF StrategyMoves, AtStrategies
<1>2. SameNumbers /\ \A k \in 3 .. 10 : Keeps(Shelves[k], Shelves'[k])
  <2>1. /\ Keeps(Shelves[3], Shelves'[3]) /\ Keeps(Shelves[4], Shelves'[4])
        /\ Keeps(Shelves[5], Shelves'[5]) /\ Keeps(Shelves[6], Shelves'[6])
        /\ Keeps(Shelves[7], Shelves'[7]) /\ Keeps(Shelves[8], Shelves'[8])
        /\ Keeps(Shelves[9], Shelves'[9]) /\ Keeps(Shelves[10], Shelves'[10])
    BY <1>1, ShelfFrames
  <2>2. \A k \in 3 .. 10 : Keeps(Shelves[k], Shelves'[k])
    BY ONLY <2>1
  <2>. QED  BY <1>1, <2>2 DEF SameNumbers
<1>3. CASE T!Start(i) \/ T!StartFails(i) \/ T!Stop(i) \/ T!Loop(i) \/ T!Empty(i)
  <2>1. UNCHANGED <<stage2_queues, Logs>>
    BY <1>3, StrategyKeeps
  <2>2. Keeps(Shelves[1], Shelves'[1]) /\ Keeps(Shelves[2], Shelves'[2])
    BY <2>1, ShelfFrames
  <2>3. Settled
    BY ONLY <1>2, <2>2 DEF Settled
  <2>. QED  BY <1>2, <2>3
<1>4. CASE T!Pop(i)
  <2>1. PICK m \in Message :
           /\ stage2_queues[i] # <<>> /\ m = Head(stage2_queues[i])
           /\ stage2_queues' = Popped(stage2_queues, i)
           /\ Logs' = Pushed(Logs, i, m)
    BY <1>4, StrategyPops
  <2>2. Loses(QueueAt("stage2_queues", stage2_queues),
              QueueAt("stage2_queues", stage2_queues'), IdOf(m))
    BY ONLY <1>0, <2>1, i \in Strategies, PopLoses
  <2>3. Gets(QueueAt("log", Logs), QueueAt("log", Logs'), IdOf(m))
    BY ONLY <1>0, <2>1, m \in Message, i \in Strategies, PushGets
  <2>4. Loses(Shelves[2], Shelves'[2], IdOf(m)) /\ Gets(Shelves[1], Shelves'[1], IdOf(m))
    BY <2>2, <2>3, ShelfFacts, ShelfFactsAfter
  <2>5. Carries(Shelves, Shelves', 2, 1, IdOf(m))
    BY ONLY <1>2, <2>4 DEF Carries
  <2>. QED  BY <1>2, <2>5 DEF Hauled
<1>. QED  BY <1>3, <1>4 DEF StrategyMoves, T!strategy_loop

-----------------------------------------------------------------------------
(* The invariant *)

\* At the start every shelf is empty and every producer's next number is 1.
LEMMA PlaceInit == Init => PlaceInv
<1>. SUFFICES ASSUME Init  PROVE  PlaceInv
  OBVIOUS
<1>1. Logs = [i \in Strategies |-> <<>>]
  BY DEF Init, T!Init, Logs
<1>2. /\ producer_queues = [i \in Producers |-> <<>>] /\ stage1_queues = [i \in Processors |-> <<>>]
      /\ processor_queues = [i \in Processors |-> <<>>] /\ stage2_queues = [i \in Strategies |-> <<>>]
      /\ lost = {}
  BY DEF Init
<1>3. /\ DOMAIN producer = Producers /\ \A i \in Producers : producer[i].message = NoMessage
      /\ DOMAIN processor = Processors /\ \A i \in Processors : processor[i].message = NoMessage
      /\ stage1.message = NoMessage /\ stage2.message = NoMessage
  BY DEF Init, P!Init, S1!Init, W!Init, S2!Init
<1>4. ASSUME NEW ids, NEW name, NEW id \in Ids  PROVE  QueueAt(name, [i \in ids |-> <<>>])[id] = {}
  BY DEF QueueAt, InSeq
<1>5. ASSUME NEW id \in Ids  PROVE  HandsAt("producer", producer)[id] = {}
  BY <1>3 DEF HandsAt
<1>6. ASSUME NEW id \in Ids  PROVE  HandsAt("processor", processor)[id] = {}
  BY <1>3 DEF HandsAt
<1>7. ASSUME NEW id \in Ids, NEW t  PROVE  HandAt(t, NoMessage)[id] = {} /\ GoneAt({})[id] = {}
  BY DEF HandAt, GoneAt
<1>8. ASSUME NEW id \in Ids  PROVE  Nowhere(Shelves, id)
  <2>1. /\ Shelves[1][id] = {} /\ Shelves[2][id] = {} /\ Shelves[4][id] = {}
        /\ Shelves[6][id] = {} /\ Shelves[8][id] = {}
    BY <1>1, <1>2, <1>4, ShelfFacts
  <2>2. /\ Shelves[3][id] = {} /\ Shelves[5][id] = {} /\ Shelves[7][id] = {}
        /\ Shelves[9][id] = {} /\ Shelves[10][id] = {}
    BY <1>2, <1>3, <1>5, <1>6, <1>7, ShelfFacts
  <2>. QED  BY ONLY <2>1, <2>2 DEF Nowhere
<1>9. \A i \in Producers : producer[i].next_sequence_ = 1
  BY DEF Init, P!Init
<1>. QED  BY <1>8, <1>9 DEF PlaceInv, Ids

\* What is in one place stays in one place, and what is nowhere nowhere, in a
\* step that moves nothing or one message.
LEMMA SettledOne ==
  ASSUME Settled, NEW id \in Ids
  PROVE  /\ Alone(Shelves, id) => Alone(Shelves', id)
         /\ Nowhere(Shelves, id) => Nowhere(Shelves', id)
<1>1. \A k \in 1 .. 10 : Alike(Shelves[k][id], Shelves'[k][id])
  BY DEF Settled, Keeps
<1>. QED  BY ONLY <1>1 DEF Alike, Alone, Nowhere

\* In the step in which a producer makes a message, that message alone appears.
LEMMA BornOne ==
  ASSUME NEW i \in Producers, Born(i), NEW id \in Ids
  PROVE  /\ id = <<i, producer[i].next_sequence_>> /\ Nowhere(Shelves, id) => Alone(Shelves', id)
         /\ id # <<i, producer[i].next_sequence_>> =>
              /\ Alone(Shelves, id) => Alone(Shelves', id)
              /\ Nowhere(Shelves, id) => Nowhere(Shelves', id)
<1>. DEFINE x == <<i, producer[i].next_sequence_>>
<1>1. /\ \A k \in 1 .. 10 : k # 9 => Alike(Shelves[k][id], Shelves'[k][id])
      /\ id # x => Alike(Shelves[9][id], Shelves'[9][id])
      /\ id = x /\ Shelves[9][id] = {} => One(Shelves'[9][id])
  BY DEF Born, Gets, Keeps
<1>. HIDE DEF x
<1>2. id = x /\ Nowhere(Shelves, id) => Alone(Shelves', id)
  BY ONLY <1>1 DEF Alike, Alone, Nowhere
<1>3. id # x => /\ Alone(Shelves, id) => Alone(Shelves', id)
                /\ Nowhere(Shelves, id) => Nowhere(Shelves', id)
  BY ONLY <1>1 DEF Alike, Alone, Nowhere
<1>. QED  BY <1>2, <1>3 DEF x

\* The invariant is inductive.
LEMMA PlaceStep == TypeInv /\ PlaceInv /\ [Next]_vars => PlaceInv'
<1>. SUFFICES ASSUME TypeInv, PlaceInv, [Next]_vars,
                     NEW i \in Producers, NEW n \in 1 .. MaxMessages
              PROVE  /\ n < producer'[i].next_sequence_ => Alone(Shelves', <<i, n>>)
                     /\ ~ (n < producer'[i].next_sequence_) => Nowhere(Shelves', <<i, n>>)
  BY DEF PlaceInv, Alone, Nowhere
<1>0. TypeInv'
  BY TypeStep
<1>1. /\ <<i, n>> \in Ids /\ n \in Nat
      /\ \A j \in Producers : producer[j].next_sequence_ \in Nat
  BY BoundFacts DEF Ids, TypeInv, ObjectsOK, ProducersOK, P!Object
<1>2. /\ n < producer[i].next_sequence_ => Alone(Shelves, <<i, n>>)
      /\ ~ (n < producer[i].next_sequence_) => Nowhere(Shelves, <<i, n>>)
  BY DEF PlaceInv
<1>3. (SameNumbers /\ (Settled \/ Hauled)) \/ \E j \in Producers : Born(j)
  <2>1. ASSUME UNCHANGED <<objects, queues, lost>>  PROVE  SameNumbers /\ Settled
    <3>1. /\ UNCHANGED <<producer, stage1, processor, stage2, strategy, lost>>
          /\ UNCHANGED <<producer_queues, stage1_queues, processor_queues, stage2_queues>>
      BY <2>1 DEF objects, queues
    <3>2. UNCHANGED Logs /\ stage1'.message = stage1.message /\ stage2'.message = stage2.message
      BY <3>1 DEF Logs
    <3>3. /\ Keeps(Shelves[1], Shelves'[1]) /\ Keeps(Shelves[2], Shelves'[2])
          /\ Keeps(Shelves[3], Shelves'[3]) /\ Keeps(Shelves[4], Shelves'[4])
          /\ Keeps(Shelves[5], Shelves'[5]) /\ Keeps(Shelves[6], Shelves'[6])
          /\ Keeps(Shelves[7], Shelves'[7]) /\ Keeps(Shelves[8], Shelves'[8])
          /\ Keeps(Shelves[9], Shelves'[9]) /\ Keeps(Shelves[10], Shelves'[10])
      BY <3>1, <3>2, ShelfFrames
    <3>4. Settled
      BY ONLY <3>3 DEF Settled
    <3>. QED  BY <3>1, <3>4 DEF SameNumbers
  <2>. QED  BY <1>0, <2>1, OneMoves, ProducerHauls, Stage1Hauls, ProcessorHauls, Stage2Hauls,
               StrategyHauls
<1>4. CASE SameNumbers /\ (Settled \/ Hauled)
  <2>1. /\ Alone(Shelves, <<i, n>>) => Alone(Shelves', <<i, n>>)
        /\ Nowhere(Shelves, <<i, n>>) => Nowhere(Shelves', <<i, n>>)
    BY <1>1, <1>4, SettledOne, CarryOne DEF Hauled
  <2>. QED  BY <1>2, <1>4, <2>1 DEF SameNumbers
<1>5. ASSUME NEW j \in Producers, Born(j)
      PROVE  /\ n < producer'[i].next_sequence_ => Alone(Shelves', <<i, n>>)
             /\ ~ (n < producer'[i].next_sequence_) => Nowhere(Shelves', <<i, n>>)
  <2>0. /\ producer'[j].next_sequence_ = producer[j].next_sequence_ + 1
        /\ i # j => producer'[i].next_sequence_ = producer[i].next_sequence_
    BY <1>5 DEF Born
  <2>1. CASE i = j /\ n = producer[j].next_sequence_
    <3>1. Nowhere(Shelves, <<i, n>>)
      BY <1>1, <1>2, <2>1
    <3>2. Alone(Shelves', <<i, n>>)
      BY <1>1, <1>5, <2>1, <3>1, BornOne
    <3>. QED  BY <1>1, <2>0, <2>1, <3>2
  <2>2. CASE ~ (i = j /\ n = producer[j].next_sequence_)
    <3>1. <<i, n>> # <<j, producer[j].next_sequence_>>
      BY <2>2
    <3>2. /\ Alone(Shelves, <<i, n>>) => Alone(Shelves', <<i, n>>)
          /\ Nowhere(Shelves, <<i, n>>) => Nowhere(Shelves', <<i, n>>)
      BY <1>1, <1>5, <3>1, BornOne
    <3>3. n < producer'[i].next_sequence_ <=> n < producer[i].next_sequence_
      BY <1>1, <2>0, <2>2
    <3>. QED  BY <1>2, <3>2, <3>3
  <2>. QED  BY <2>1, <2>2
<1>. QED  BY <1>3, <1>4, <1>5

\* Every message has its one place in every reachable state.
LEMMA PlaceInvHolds == Spec => [](TypeInv /\ PlaceInv)
<1>1. Init => TypeInv /\ PlaceInv
  BY TypeInit, PlaceInit
<1>2. TypeInv /\ PlaceInv /\ [Next]_vars => TypeInv' /\ PlaceInv'
  BY TypeStep, PlaceStep
<1>. QED  BY <1>1, <1>2, PTL DEF Spec

-----------------------------------------------------------------------------
(* The shelves are the places *)

\* Every thread is started.
LEMMA StartOnto == {StartOrder[k] : k \in DOMAIN StartOrder} = AllThreads
<1>0. /\ DOMAIN StartOrder = 1 .. Len(StartOrder)
      /\ Len(StartOrder) = 1 + NW + 1 + NS + NP
  BY StartOrderFacts
<1>1. NP \in Nat \ {0} /\ NW \in Nat \ {0} /\ NS \in Nat \ {0}
  BY CountFacts DEF NP, NW, NS
<1>2. Producers = 0 .. NP - 1 /\ Processors = 0 .. NW - 1 /\ Strategies = 0 .. NS - 1
  BY DEF Producers, Processors, Strategies, NP, NW, NS
<1>. HIDE DEF NP, NW, NS
<1>. DEFINE Started(t) == \E k \in DOMAIN StartOrder : StartOrder[k] = t
<1>3. Started(<<"stage1", 0>>) /\ Started(<<"stage2", 0>>)
  <2>1. 1 \in DOMAIN StartOrder /\ 1 + NW + 1 \in DOMAIN StartOrder
    BY <1>0, <1>1
  <2>. QED  BY <2>1, StartOrderFacts
<1>4. ASSUME NEW i \in Processors  PROVE  Started(<<"processor", i>>)
  <2>1. PICK j \in 1 .. NW : j - 1 = i /\ 1 + j \in DOMAIN StartOrder
    <3>1. i + 1 \in 1 .. NW /\ (i + 1) - 1 = i /\ 1 + (i + 1) \in DOMAIN StartOrder
      BY <1>0, <1>1, <1>2
    <3>. QED  BY <3>1
  <2>2. StartOrder[1 + j] = <<"processor", j - 1>>
    BY StartOrderFacts, Zenon
  <2>. QED  BY <2>1, <2>2
<1>5. ASSUME NEW i \in Strategies  PROVE  Started(<<"strategy", i>>)
  <2>1. PICK j \in 1 .. NS : j - 1 = i /\ 1 + NW + 1 + j \in DOMAIN StartOrder
    <3>1. i + 1 \in 1 .. NS /\ (i + 1) - 1 = i /\ 1 + NW + 1 + (i + 1) \in DOMAIN StartOrder
      BY <1>0, <1>1, <1>2
    <3>. QED  BY <3>1
  <2>2. StartOrder[1 + NW + 1 + j] = <<"strategy", j - 1>>
    BY StartOrderFacts, Zenon
  <2>. QED  BY <2>1, <2>2
<1>6. ASSUME NEW i \in Producers  PROVE  Started(<<"producer", i>>)
  <2>1. PICK j \in 1 .. NP : j - 1 = i /\ 1 + NW + 1 + NS + j \in DOMAIN StartOrder
    <3>1. i + 1 \in 1 .. NP /\ (i + 1) - 1 = i /\ 1 + NW + 1 + NS + (i + 1) \in DOMAIN StartOrder
      BY <1>0, <1>1, <1>2
    <3>. QED  BY <3>1
  <2>2. StartOrder[1 + NW + 1 + NS + j] = <<"producer", j - 1>>
    BY StartOrderFacts, Zenon
  <2>. QED  BY <2>1, <2>2
<1>7. \A t \in AllThreads : Started(t)
  <2>. HIDE DEF Started
  <2>. QED  BY <1>3, <1>4, <1>5, <1>6 DEF AllThreads
<1>8. \A k \in DOMAIN StartOrder : StartOrder[k] \in AllThreads
  BY <1>0, StartOnce
<1>. QED  BY <1>7, <1>8

\* The message in the hand of a thread.
HeldBy(t) ==
  CASE t[1] = "producer"  -> producer[t[2]].message
    [] t[1] = "stage1"    -> stage1.message
    [] t[1] = "processor" -> processor[t[2]].message
    [] t[1] = "stage2"    -> stage2.message
    [] OTHER              -> NoMessage

\* A message is in a thread's hand when it is on one of the four shelves of hands.
LEMMA InHandParts ==
  ASSUME TypeInv, NEW id \in Ids
  PROVE  InHand(id) = UNION {Shelves[3][id], Shelves[5][id], Shelves[7][id], Shelves[9][id]}
<1>0. DOMAIN producer = Producers /\ DOMAIN processor = Processors
  BY DEF TypeInv, ObjectsOK, ProducersOK, ProcessorsOK
<1>. DEFINE Has(t) == HeldBy(t) # NoMessage /\ IdOf(HeldBy(t)) = id
<1>1. InHand(id) = {t \in AllThreads : Has(t)}
  BY StartOnto DEF InHand, HeldBy
<1>2. /\ HeldBy(<<"stage1", 0>>) = stage1.message /\ HeldBy(<<"stage2", 0>>) = stage2.message
      /\ \A i \in Producers : HeldBy(<<"producer", i>>) = producer[i].message
      /\ \A i \in Processors : HeldBy(<<"processor", i>>) = processor[i].message
      /\ \A i \in Strategies : HeldBy(<<"strategy", i>>) = NoMessage
  BY DEF HeldBy
<1>3. \A x : x \in Shelves[3][id] <=> x = <<"stage2", 0>> /\ Has(x)
  BY <1>2, ShelfFacts DEF HandAt
<1>4. \A x : x \in Shelves[7][id] <=> x = <<"stage1", 0>> /\ Has(x)
  BY <1>2, ShelfFacts DEF HandAt
<1>5. \A x : x \in Shelves[5][id] <=> \E i \in Processors : x = <<"processor", i>> /\ Has(x)
  BY <1>0, <1>2, ShelfFacts DEF HandsAt
<1>6. \A x : x \in Shelves[9][id] <=> \E i \in Producers : x = <<"producer", i>> /\ Has(x)
  BY <1>0, <1>2, ShelfFacts DEF HandsAt
<1>7. \A i \in Strategies : ~ Has(<<"strategy", i>>)
  BY <1>2
<1>8. \A x : x \in AllThreads <=> \/ x = <<"stage1", 0>> \/ x = <<"stage2", 0>>
                                  \/ \E i \in Producers : x = <<"producer", i>>
                                  \/ \E i \in Processors : x = <<"processor", i>>
                                  \/ \E i \in Strategies : x = <<"strategy", i>>
  BY DEF AllThreads
<1>. HIDE DEF Has
<1>9. \A x : x \in InHand(id) <=> \/ x \in Shelves[3][id] \/ x \in Shelves[5][id]
                                  \/ x \in Shelves[7][id] \/ x \in Shelves[9][id]
  BY ONLY <1>1, <1>3, <1>4, <1>5, <1>6, <1>7, <1>8
<1>. QED  BY ONLY <1>9

\* The places of a message are those it has on the shelves.
LEMMA PlacesAreShelves ==
  ASSUME TypeInv, NEW id \in Ids
  PROVE  \A x : x \in Places(id) <=> \E k \in 1 .. 10 : x \in Shelves[k][id]
<1>1. /\ Shelves[1][id] = InSeq("log", Logs, id)
      /\ Shelves[2][id] = InSeq("stage2_queues", stage2_queues, id)
      /\ Shelves[4][id] = InSeq("processor_queues", processor_queues, id)
      /\ Shelves[6][id] = InSeq("stage1_queues", stage1_queues, id)
      /\ Shelves[8][id] = InSeq("producer_queues", producer_queues, id)
  BY ShelfFacts DEF QueueAt
<1>2. Shelves[10][id] = {<<"lost", l.at>> : l \in {x \in lost : IdOf(x.message) = id}}
  BY ShelfFacts DEF GoneAt
<1>3. Places(id) = UNION { InHand(id), Shelves[8][id], Shelves[6][id], Shelves[4][id],
                           Shelves[2][id], Shelves[1][id], Shelves[10][id] }
  BY <1>1, <1>2 DEF Places
<1>4. Places(id) = UNION { UNION {Shelves[3][id], Shelves[5][id], Shelves[7][id], Shelves[9][id]},
                           Shelves[8][id], Shelves[6][id], Shelves[4][id],
                           Shelves[2][id], Shelves[1][id], Shelves[10][id] }
  BY <1>3, InHandParts
<1>. QED  BY ONLY <1>4

\* However the threads interleave, whatever the rules, the capacities and the
\* numbers of tries, a message its producer has numbered is in exactly one
\* place: no push, pop, retry, loss or stop duplicates or forgets one.
THEOREM MessagesAreConserved == Spec => []Conserved
<1>1. ASSUME TypeInv, PlaceInv  PROVE  Conserved
  <2>1. SUFFICES ASSUME NEW i \in Producers, NEW n \in 1 .. MaxMessages
                 PROVE  Cardinality(Places(<<i, n>>))
                          = IF n < producer[i].next_sequence_ THEN 1 ELSE 0
    BY DEF Conserved
  <2>2. <<i, n>> \in Ids
    BY DEF Ids
  <2>3. \A x : x \in Places(<<i, n>>) <=> \E k \in 1 .. 10 : x \in Shelves[k][<<i, n>>]
    BY <1>1, <2>2, PlacesAreShelves
  <2>4. CASE n < producer[i].next_sequence_
    <3>1. Alone(Shelves, <<i, n>>)
      BY <1>1, <2>4 DEF PlaceInv
    <3>2. PICK k \in 1 .. 10 : /\ One(Shelves[k][<<i, n>>])
                               /\ \A j \in 1 .. 10 : j # k => Shelves[j][<<i, n>>] = {}
      BY <3>1 DEF Alone
    <3>3. Places(<<i, n>>) = Shelves[k][<<i, n>>]
      BY ONLY <2>3, <3>2
    <3>4. PICK y : Places(<<i, n>>) = {y}
      BY <3>2, <3>3 DEF One
    <3>. QED  BY <2>4, <3>4, FS_Singleton
  <2>5. CASE ~ (n < producer[i].next_sequence_)
    <3>1. Nowhere(Shelves, <<i, n>>)
      BY <1>1, <2>5 DEF PlaceInv
    <3>2. Places(<<i, n>>) = {}
      BY ONLY <2>3, <3>1 DEF Nowhere
    <3>. QED  BY <2>5, <3>2, FS_EmptySet
  <2>. QED  BY <2>4, <2>5
<1>. QED  BY <1>1, PlaceInvHolds, PTL

-----------------------------------------------------------------------------
(* Sums *)

\* As many different things as f[i] for every i in s.
Units(f, s) == UNION {{i} \X (1 .. f[i]) : i \in s}

\* g is a sum over the subsets of f's domain, taken one chosen element at a time.
Sums(f, g) ==
  g = [s \in SUBSET (DOMAIN f) |->
         IF s = {} THEN 0
         ELSE f[CHOOSE x \in s : TRUE] + g[s \ {CHOOSE x \in s : TRUE}]]

\* The number of units grows by f[x] with x.
LEMMA UnitsGrow ==
  ASSUME NEW S, IsFiniteSet(S), NEW f \in [S -> Nat], NEW s \in SUBSET S
  PROVE  /\ IsFiniteSet(Units(f, s)) /\ Cardinality(Units(f, s)) \in Nat
         /\ \A x \in s : Cardinality(Units(f, s)) = f[x] + Cardinality(Units(f, s \ {x}))
         /\ s = {} => Cardinality(Units(f, s)) = 0
<1>1. ASSUME NEW t \in SUBSET S  PROVE  IsFiniteSet(Units(f, t)) /\ Cardinality(Units(f, t)) \in Nat
  <2>0. IsFiniteSet(t)
    BY FS_Subset
  <2>. DEFINE U == {{i} \X (1 .. f[i]) : i \in t}
  <2>1. IsFiniteSet(U)
    <3>. DEFINE u == [i \in t |-> {i} \X (1 .. f[i])]
    <3>1. U = {u[i] : i \in t}
      OBVIOUS
    <3>2. u \in Surjection(t, U)
      BY DEF Surjection
    <3>. QED  BY <2>0, <3>2, FS_Surjection
  <2>2. \A i \in t : IsFiniteSet({i} \X (1 .. f[i]))
    <3>1. ASSUME NEW i \in t  PROVE  IsFiniteSet({i} \X (1 .. f[i]))
      <4>0. 1 \in Int /\ f[i] \in Int
        OBVIOUS
      <4>1. IsFiniteSet({i}) /\ IsFiniteSet(1 .. f[i])
        BY <4>0, FS_Singleton, FS_Interval
      <4>. QED  BY <4>1, FS_Product
    <3>. QED  BY <3>1
  <2>3. IsFiniteSet(UNION U)
    BY <2>1, <2>2, FS_UNION
  <2>4. IsFiniteSet(Units(f, t))
    BY <2>3 DEF Units
  <2>. QED  BY <2>4, FS_CardinalityType
<1>2. ASSUME NEW x \in s
      PROVE  Cardinality(Units(f, s)) = f[x] + Cardinality(Units(f, s \ {x}))
  <2>. DEFINE X == {x} \X (1 .. f[x])
  <2>1. IsFiniteSet(X) /\ Cardinality(X) = f[x]
    <3>0. 1 \in Int /\ f[x] \in Int /\ f[x] \in Nat
      OBVIOUS
    <3>1. /\ IsFiniteSet({x}) /\ Cardinality({x}) = 1
          /\ IsFiniteSet(1 .. f[x]) /\ Cardinality(1 .. f[x]) = f[x]
      <4>1. /\ IsFiniteSet(1 .. f[x])
            /\ Cardinality(1 .. f[x]) = IF 1 > f[x] THEN 0 ELSE f[x] - 1 + 1
        BY ONLY <3>0, FS_Interval
      <4>2. Cardinality(1 .. f[x]) = f[x]
        BY ONLY <3>0, <4>1
      <4>. QED  BY ONLY <4>1, <4>2, FS_Singleton
    <3>2. IsFiniteSet(X) /\ Cardinality(X) = Cardinality({x}) * Cardinality(1 .. f[x])
      BY <3>1, FS_Product
    <3>3. f[x] \in Nat
      OBVIOUS
    <3>. QED  BY ONLY <3>1, <3>2, <3>3
  <2>2. Units(f, s) = X \cup Units(f, s \ {x})
    BY DEF Units
  <2>3. X \cap Units(f, s \ {x}) = {}
    BY DEF Units
  <2>4. IsFiniteSet(Units(f, s \ {x})) /\ Cardinality(Units(f, s \ {x})) \in Nat
    BY <1>1
  <2>5. Cardinality(Units(f, s)) = Cardinality(X) + Cardinality(Units(f, s \ {x})) - Cardinality({})
    <3>. DEFINE Y == Units(f, s \ {x})
    <3>0. /\ IsFiniteSet(X) /\ IsFiniteSet(Y)
          /\ Units(f, s) = X \cup Y /\ X \cap Y = {}
      BY <2>1, <2>2, <2>3, <2>4
    <3>. HIDE DEF X, Y
    <3>1. Cardinality(X \cup Y) = Cardinality(X) + Cardinality(Y) - Cardinality(X \cap Y)
      BY ONLY <3>0, FS_Union
    <3>2. Cardinality(Units(f, s)) = Cardinality(X) + Cardinality(Y) - Cardinality({})
      BY ONLY <3>0, <3>1
    <3>. QED  BY <3>2 DEF Y
  <2>6. f[x] \in Nat /\ Cardinality({}) = 0
    BY FS_EmptySet
  <2>. QED  BY ONLY <2>1, <2>4, <2>5, <2>6
<1>3. s = {} => Units(f, s) = {}
  BY DEF Units
<1>. QED  BY <1>1, <1>2, <1>3, FS_EmptySet

\* Total counts the units.
LEMMA TotalCounts ==
  ASSUME NEW S, IsFiniteSet(S), NEW f \in [S -> Nat]
  PROVE  Total(f) = Cardinality(Units(f, S))
<1>. DEFINE h == [s \in SUBSET S |-> Cardinality(Units(f, s))]
<1>. DEFINE c(s) == CHOOSE x \in s : TRUE
<1>0. DOMAIN f = S
  OBVIOUS
<1>1. \A s \in SUBSET S : h[s] = IF s = {} THEN 0 ELSE f[c(s)] + h[s \ {c(s)}]
  <2>1. ASSUME NEW s \in SUBSET S, s = {}  PROVE  h[s] = 0
    BY <2>1, UnitsGrow
  <2>2. ASSUME NEW s \in SUBSET S, s # {}  PROVE  h[s] = f[c(s)] + h[s \ {c(s)}]
    <3>1. c(s) \in s
      BY <2>2
    <3>. HIDE DEF c
    <3>2. Cardinality(Units(f, s)) = f[c(s)] + Cardinality(Units(f, s \ {c(s)}))
      BY <3>1, UnitsGrow
    <3>3. s \ {c(s)} \in SUBSET S
      OBVIOUS
    <3>. QED  BY <3>2, <3>3
  <2>. QED  BY <2>1, <2>2
<1>2. \E g : Sums(f, g)
  <2>1. Sums(f, h)
    BY <1>0, <1>1 DEF Sums
  <2>. QED  BY <2>1
<1>3. PICK g : Sums(f, g) /\ Total(f) = g[DOMAIN f]
  BY <1>2 DEF Sums, Total, MapThenSumSet, MapThenFoldSet
<1>4. \A s \in SUBSET S : g[s] = IF s = {} THEN 0 ELSE f[c(s)] + g[s \ {c(s)}]
  BY <1>0, <1>3 DEF Sums
<1>. DEFINE Bad == {s \in SUBSET S : g[s] # h[s]}
<1>5. Bad = {}
  <2>1. SUFFICES ASSUME Bad # {}  PROVE  FALSE
    OBVIOUS
  <2>2. IsWellFoundedOn(StrictSubsetOrdering(S), SUBSET S)
    BY FS_StrictSubsetOrderingWellFounded, FS_FiniteSubsetsOfFinite
  <2>3. PICK s \in Bad : \A t \in Bad : ~ (<<t, s>> \in StrictSubsetOrdering(S))
    <3>1. Bad \subseteq SUBSET S
      OBVIOUS
    <3>. HIDE DEF Bad
    <3>. QED  BY <2>1, <2>2, <3>1, WFMin
  <2>4. s # {}
    BY <1>1, <1>4
  <2>5. c(s) \in s
    BY <2>4
  <2>6. s \ {c(s)} \notin Bad
    <3>. HIDE DEF c, Bad
    <3>1. s \in SUBSET S
      BY DEF Bad
    <3>2. <<s \ {c(s)}, s>> \in StrictSubsetOrdering(S)
      BY <2>5, <3>1 DEF StrictSubsetOrdering
    <3>. QED  BY <2>3, <3>2
  <2>7. g[s \ {c(s)}] = h[s \ {c(s)}]
    <3>. HIDE DEF c, h
    <3>. QED  BY <2>6
  <2>8. g[s] = h[s]
    <3>. HIDE DEF c, h
    <3>. QED  BY <1>1, <1>4, <2>4, <2>7
  <2>. QED  BY <2>8
<1>6. g[S] = h[S]
  BY <1>5
<1>. QED  BY <1>0, <1>3, <1>6

\* g is f but for one more at i.
Grows(S, f, g, i) ==
  /\ f \in [S -> Nat] /\ g \in [S -> Nat] /\ i \in S
  /\ g[i] = f[i] + 1 /\ \A j \in S \ {i} : g[j] = f[j]

\* One more at one place is one more in all.
LEMMA TotalGrows ==
  ASSUME NEW S, IsFiniteSet(S), NEW f, NEW g, NEW i, Grows(S, f, g, i)
  PROVE  Total(g) = Total(f) + 1
<1>0. /\ f \in [S -> Nat] /\ g \in [S -> Nat] /\ i \in S
      /\ g[i] = f[i] + 1 /\ \A j \in S \ {i} : g[j] = f[j]
  BY DEF Grows
<1>1. /\ Total(f) = f[i] + Cardinality(Units(f, S \ {i}))
      /\ Total(g) = g[i] + Cardinality(Units(g, S \ {i}))
      /\ Cardinality(Units(f, S \ {i})) \in Nat
  <2>1. S \in SUBSET S /\ S \ {i} \in SUBSET S
    OBVIOUS
  <2>. QED  BY <1>0, <2>1, TotalCounts, UnitsGrow
<1>2. Units(f, S \ {i}) = Units(g, S \ {i})
  BY <1>0 DEF Units
<1>3. f[i] \in Nat
  BY <1>0
<1>. QED  BY ONLY <1>0, <1>1, <1>2, <1>3

\* A sum is a number, and 0 when every term is.
LEMMA TotalFacts ==
  ASSUME NEW S, IsFiniteSet(S), NEW f \in [S -> Nat]
  PROVE  /\ Total(f) \in Nat
         /\ (\A i \in S : f[i] = 0) => Total(f) = 0
         /\ \A i \in S : f[i] <= Total(f)
<1>1. /\ Total(f) = Cardinality(Units(f, S)) /\ Cardinality(Units(f, S)) \in Nat
      /\ \A x \in S : Cardinality(Units(f, S)) = f[x] + Cardinality(Units(f, S \ {x}))
      /\ \A x \in S : Cardinality(Units(f, S \ {x})) \in Nat
  <2>1. S \in SUBSET S /\ \A x \in S : S \ {x} \in SUBSET S
    OBVIOUS
  <2>. QED  BY <2>1, TotalCounts, UnitsGrow
<1>2. ASSUME \A i \in S : f[i] = 0  PROVE  Total(f) = 0
  <2>1. Units(f, S) = {}
    BY <1>2 DEF Units
  <2>. QED  BY <1>1, <2>1, FS_EmptySet
<1>3. \A i \in S : f[i] \in Nat
  OBVIOUS
<1>4. ASSUME NEW i \in S  PROVE  f[i] <= Total(f)
  <2>1. /\ Total(f) = f[i] + Cardinality(Units(f, S \ {i}))
        /\ Cardinality(Units(f, S \ {i})) \in Nat /\ f[i] \in Nat
    BY ONLY <1>1, <1>3, i \in S
  <2>. QED  BY ONLY <2>1
<1>. QED  BY <1>1, <1>2, <1>4

\* A sum of terms that are at most M.
LEMMA TotalBound ==
  ASSUME NEW n \in Nat, NEW M \in Nat, NEW f \in [0 .. n - 1 -> 0 .. M]
  PROVE  Total(f) <= M * n
<1>. DEFINE S == 0 .. n - 1
<1>1. IsFiniteSet(S) /\ Cardinality(S) = n /\ IsFiniteSet(1 .. M) /\ Cardinality(1 .. M) = M
  <2>1. 0 \in Int /\ n - 1 \in Int /\ 1 \in Int /\ M \in Int
    OBVIOUS
  <2>2. /\ IsFiniteSet(S) /\ Cardinality(S) = IF 0 > n - 1 THEN 0 ELSE (n - 1) - 0 + 1
        /\ IsFiniteSet(1 .. M) /\ Cardinality(1 .. M) = IF 1 > M THEN 0 ELSE M - 1 + 1
    BY ONLY <2>1, FS_Interval
  <2>. QED  BY ONLY <2>2, n \in Nat, M \in Nat
<1>2. IsFiniteSet(S \X (1 .. M)) /\ Cardinality(S \X (1 .. M)) = n * M
  <2>1. /\ IsFiniteSet(S \X (1 .. M))
        /\ Cardinality(S \X (1 .. M)) = Cardinality(S) * Cardinality(1 .. M)
    BY ONLY <1>1, FS_Product
  <2>. QED  BY ONLY <1>1, <2>1, Zenon
<1>3. Units(f, S) \in SUBSET (S \X (1 .. M))
  <2>1. \A i \in S : 1 .. f[i] \subseteq 1 .. M
    OBVIOUS
  <2>. QED  BY <2>1 DEF Units
<1>4. Cardinality(Units(f, S)) <= n * M
  BY ONLY <1>2, <1>3, FS_Subset
<1>5. f \in [S -> Nat]
  OBVIOUS
<1>6. Total(f) = Cardinality(Units(f, S))
  BY ONLY <1>1, <1>5, TotalCounts
<1>7. n * M = M * n
  BY ONLY n \in Nat, M \in Nat
<1>. QED  BY <1>4, <1>6, <1>7

-----------------------------------------------------------------------------
(* Queues and hands, counted *)

\* The numbers of threads are finite.
LEMMA FiniteIds == IsFiniteSet(Producers) /\ IsFiniteSet(Processors) /\ IsFiniteSet(Strategies)
<1>1. /\ 0 \in Int /\ config.producers_count - 1 \in Int
      /\ config.processors_count - 1 \in Int /\ config.strategies_count - 1 \in Int
  BY CountFacts
<1>. QED  BY <1>1, FS_Interval DEF Producers, Processors, Strategies

\* What is queued, counted: a number, 0 when every queue is empty.
LEMMA HeldFacts ==
  ASSUME NEW ids, IsFiniteSet(ids), NEW f \in [ids -> Seq(Message)]
  PROVE  /\ Held(f) \in Nat
         /\ (\A i \in ids : f[i] = <<>>) => Held(f) = 0
         /\ \A i \in ids : f[i] # <<>> => Held(f) > 0
<1>. DEFINE l == [i \in DOMAIN f |-> Len(f[i])]
<1>1. DOMAIN f = ids /\ l \in [ids -> Nat]
  OBVIOUS
<1>2. \A i \in ids : (f[i] = <<>> => l[i] = 0) /\ (f[i] # <<>> => l[i] > 0) /\ l[i] \in Nat
  <2>1. ASSUME NEW i \in ids
        PROVE  (f[i] = <<>> => l[i] = 0) /\ (f[i] # <<>> => l[i] > 0) /\ l[i] \in Nat
    <3>1. f[i] \in Seq(Message)
      OBVIOUS
    <3>2. (f[i] = <<>> => Len(f[i]) = 0) /\ (f[i] # <<>> => Len(f[i]) > 0) /\ Len(f[i]) \in Nat
      BY ONLY <3>1
    <3>. QED  BY <3>2
  <2>. QED  BY <2>1
<1>3. Held(f) = Total(l)
  BY DEF Held
<1>. HIDE DEF l
<1>4. /\ Total(l) \in Nat
      /\ (\A i \in ids : l[i] = 0) => Total(l) = 0
      /\ \A i \in ids : l[i] <= Total(l)
  BY ONLY <1>1, IsFiniteSet(ids), TotalFacts
<1>. QED  BY ONLY <1>2, <1>3, <1>4

\* A push makes one more message in the queues.
LEMMA HeldPush ==
  ASSUME NEW ids, IsFiniteSet(ids), NEW f \in [ids -> Seq(Message)], NEW i \in ids, NEW m \in Message,
         NEW g, g = Pushed(f, i, m)
  PROVE  Held(g) = Held(f) + 1
<1>1. /\ g \in [ids -> Seq(Message)] /\ \A j \in ids \ {i} : g[j] = f[j]
      /\ DOMAIN g[i] = DOMAIN f[i] \union {Len(f[i]) + 1} /\ g[i] = Append(f[i], m)
  BY PushFacts DEF Pushed
<1>. DEFINE l == [j \in DOMAIN f |-> Len(f[j])]
            k == [j \in DOMAIN g |-> Len(g[j])]
<1>2. l \in [ids -> Nat] /\ k \in [ids -> Nat]
  BY <1>1
<1>3. k[i] = l[i] + 1 /\ \A j \in ids \ {i} : k[j] = l[j]
  <2>1. f[i] \in Seq(Message)
    OBVIOUS
  <2>2. Len(Append(f[i], m)) = Len(f[i]) + 1
    BY ONLY <2>1
  <2>. QED  BY <1>1, <2>2
<1>. HIDE DEF l, k
<1>4. Grows(ids, l, k, i)
  BY ONLY <1>2, <1>3, i \in ids DEF Grows
<1>5. Total(k) = Total(l) + 1
  BY ONLY <1>4, IsFiniteSet(ids), TotalGrows
<1>. QED  BY <1>5 DEF Held, l, k

\* A pop makes one message less in them.
LEMMA HeldPop ==
  ASSUME NEW ids, IsFiniteSet(ids), NEW f \in [ids -> Seq(Message)], NEW i \in ids, f[i] # <<>>,
         NEW g, g = Popped(f, i)
  PROVE  Held(f) = Held(g) + 1
<1>1. /\ g \in [ids -> Seq(Message)] /\ \A j \in ids \ {i} : g[j] = f[j]
  BY ONLY f \in [ids -> Seq(Message)], i \in ids, f[i] # <<>>, g = Popped(f, i), PopFacts
<1>2. g[i] = Tail(f[i])
  BY DEF Popped
<1>. DEFINE l == [j \in DOMAIN f |-> Len(f[j])]
            k == [j \in DOMAIN g |-> Len(g[j])]
<1>3. l \in [ids -> Nat] /\ k \in [ids -> Nat]
  BY <1>1
<1>4. l[i] = k[i] + 1 /\ \A j \in ids \ {i} : l[j] = k[j]
  <2>1. f[i] \in Seq(Message)
    OBVIOUS
  <2>2. Len(Tail(f[i])) = Len(f[i]) - 1 /\ Len(f[i]) \in Nat
    BY ONLY <2>1, f[i] # <<>>
  <2>3. DOMAIN f = ids /\ DOMAIN g = ids
    BY <1>1
  <2>4. Len(Tail(f[i])) + 1 = Len(f[i])
    BY ONLY <2>2
  <2>. QED  BY <1>1, <1>2, <2>3, <2>4
<1>. HIDE DEF l, k
<1>5. Grows(ids, k, l, i)
  BY ONLY <1>3, <1>4, i \in ids DEF Grows
<1>6. Total(l) = Total(k) + 1
  BY ONLY <1>5, IsFiniteSet(ids), TotalGrows
<1>. QED  BY <1>6 DEF Held, l, k

\* The threads that push, counted: one begins, none changes.
LEMMA HoldingFacts ==
  ASSUME NEW ids, IsFiniteSet(ids), NEW f, NEW g, DOMAIN f = ids, DOMAIN g = ids
  PROVE  /\ Holding(f) \in Nat
         /\ (\A j \in ids : g[j].pc = "push" <=> f[j].pc = "push") => Holding(g) = Holding(f)
         /\ \A i \in ids :
              f[i].pc # "push" /\ g[i].pc = "push" /\ (\A j \in ids \ {i} : g[j].pc = f[j].pc)
                => Holding(g) = Holding(f) + 1
<1>. DEFINE F == {j \in ids : f[j].pc = "push"}
            G == {j \in ids : g[j].pc = "push"}
<1>1. Holding(f) = Cardinality(F) /\ Holding(g) = Cardinality(G)
  BY DEF Holding
<1>2. IsFiniteSet(F) /\ Cardinality(F) \in Nat
  <2>1. F \in SUBSET ids
    OBVIOUS
  <2>2. IsFiniteSet(F)
    BY <2>1, FS_Subset
  <2>. QED  BY <2>2, FS_CardinalityType
<1>3. (\A j \in ids : g[j].pc = "push" <=> f[j].pc = "push") => F = G
  OBVIOUS
<1>4. ASSUME NEW i \in ids, f[i].pc # "push", g[i].pc = "push",
             \A j \in ids \ {i} : g[j].pc = f[j].pc
      PROVE  Holding(g) = Holding(f) + 1
  <2>1. G = F \cup {i} /\ i \notin F
    BY <1>4
  <2>. QED  BY ONLY <1>1, <1>2, <2>1, FS_AddElement
<1>. QED  BY <1>1, <1>2, <1>3, <1>4

\* One more message is lost.
Dropped(L, m, stage) == L \union {[message |-> m, at |-> stage]}

\* The number of messages of L that were lost at one stage.
DropsIn(L, at) == Cardinality({l \in L : l.at = at})

\* Lost messages, counted by where they were lost.
LEMMA LostFacts ==
  ASSUME NEW L, IsFiniteSet(L), NEW m, NEW stage, NEW at,
         NEW K, K = Dropped(L, m, stage)
  PROVE  /\ IsFiniteSet(K)
         /\ DropsIn(L, at) \in Nat
         /\ stage # at => DropsIn(K, at) = DropsIn(L, at)
         /\ stage = at /\ (\A l \in L : l.message # m) => DropsIn(K, at) = DropsIn(L, at) + 1
<1>. DEFINE e == [message |-> m, at |-> stage]
<1>1. e.message = m /\ e.at = stage /\ K = L \cup {e}
  BY DEF Dropped
<1>. HIDE DEF e
<1>. DEFINE A == {l \in L : l.at = at}
            B == {l \in K : l.at = at}
<1>2. IsFiniteSet(K)
  BY ONLY <1>1, IsFiniteSet(L), FS_AddElement
<1>3. IsFiniteSet(A) /\ Cardinality(A) \in Nat
  <2>1. A \in SUBSET L
    OBVIOUS
  <2>2. IsFiniteSet(A)
    BY ONLY <2>1, IsFiniteSet(L), FS_Subset
  <2>. QED  BY <2>2, FS_CardinalityType
<1>4. stage # at => B = A
  BY <1>1
<1>5. ASSUME stage = at, \A l \in L : l.message # m  PROVE  Cardinality(B) = Cardinality(A) + 1
  <2>1. B = A \cup {e} /\ e \notin A
    BY <1>1, <1>5
  <2>. HIDE DEF A, B
  <2>. QED  BY ONLY <1>3, <2>1, FS_AddElement
<1>. QED  BY <1>2, <1>3, <1>4, <1>5 DEF DropsIn

\* A counter that is below its width is incremented.
LEMMA NoWrap ==
  ASSUME NEW n \in Nat, n + 1 < CounterRange
  PROVE  (n + 1) % CounterRange = n + 1
BY BoundFacts

-----------------------------------------------------------------------------
(* What each component's steps do to the counters *)

\* fetch_add, and the figures that stay.
Bumped(n) == (n + 1) % CounterRange
SameDrops == IsFiniteSet(lost') /\ LostAt("processor")' = LostAt("processor")

\* A message dropped elsewhere is not one of the processors'.
LEMMA DropsElsewhere ==
  ASSUME IsFiniteSet(lost), NEW m, NEW stage, stage # "processor",
         lost' = lost \union {[message |-> m, at |-> stage]}
  PROVE  SameDrops
<1>1. /\ IsFiniteSet(lost')
      /\ DropsIn(lost', "processor") = DropsIn(lost, "processor")
  <2>1. lost' = Dropped(lost, m, stage)
    BY DEF Dropped
  <2>. QED  BY ONLY <2>1, IsFiniteSet(lost), stage # "processor", LostFacts
<1>. QED  BY <1>1 DEF SameDrops, LostAt, DropsIn

\* Nothing is dropped.
LEMMA DropsNothing ==
  ASSUME IsFiniteSet(lost), UNCHANGED lost  PROVE  SameDrops
BY DEF SameDrops, LostAt

\* A producer counts a message in the step that queues it.
LEMMA ProducerBooks ==
  ASSUME TypeInv, TypeInv', IsFiniteSet(lost), NEW i \in Producers, ProducerMoves(i)
  PROVE  /\ SameDrops
         /\ \/ /\ get_total_messages_produced' = get_total_messages_produced
               /\ Held(producer_queues)' = Held(producer_queues)
            \/ /\ get_total_messages_produced' = get_total_messages_produced + 1
               /\ Held(producer_queues)' = Held(producer_queues) + 1
<1>0. /\ producer \in [Producers -> P!Object] /\ producer' \in [Producers -> P!Object]
      /\ producer_queues \in [Producers -> Seq(Message)]
  BY DEF TypeInv, ObjectsOK, ProducersOK, QueuesOK
<1>. DEFINE f == [j \in Producers |-> producer[j].messages_produced_]
            g == [j \in Producers |-> producer'[j].messages_produced_]
<1>1. /\ get_total_messages_produced = Total(f) /\ get_total_messages_produced' = Total(g)
  BY DEF get_total_messages_produced
<1>2. CASE ~ P!Send(i)
  <2>1. \A j \in Producers : producer'[j].messages_produced_ = producer[j].messages_produced_
    <3>1. CASE P!Start(i)  BY <1>0, <3>1 DEF P!Start, P!Object
    <3>2. CASE P!StartFails(i)  BY <1>0, <3>2 DEF P!StartFails, P!Object
    <3>3. CASE P!Stop(i)  BY <1>0, <3>3 DEF P!Stop, P!Object
    <3>4. CASE P!Begin(i)  BY <1>0, <3>4 DEF P!Begin, P!Object
    <3>5. CASE P!Generate(i)  BY <1>0, <3>5 DEF P!Generate, P!Object
    <3>6. CASE P!Retry(i)  BY <1>0, <3>6 DEF P!Retry, P!Object
    <3>7. CASE P!GiveUp(i)  BY <1>0, <3>7 DEF P!GiveUp, P!Object
    <3>8. CASE P!Exit(i)  BY <1>0, <3>8 DEF P!Exit, P!Object
    <3>. QED  BY <1>2, <3>1, <3>2, <3>3, <3>4, <3>5, <3>6, <3>7, <3>8
              DEF ProducerMoves, P!producer_loop
  <2>2. f = g
    BY <2>1
  <2>3. UNCHANGED producer_queues
    BY <1>2 DEF ProducerMoves, P!producer_loop, P!Start, P!StartFails, P!Stop, P!Begin,
                P!Generate, P!Retry, P!GiveUp, P!Exit
  <2>4. UNCHANGED lost \/ lost' = lost \union {[message |-> producer[i].message, at |-> "producer"]}
    BY <1>2 DEF ProducerMoves, P!producer_loop, P!Start, P!StartFails, P!Stop, P!Begin,
                P!Generate, P!Retry, P!GiveUp, P!Exit
  <2>5. SameDrops
    BY <2>4, DropsElsewhere, DropsNothing
  <2>. QED  BY <1>1, <2>2, <2>3, <2>5
<1>3. CASE P!Send(i)
  <2>1. producer[i].message \in Message
    BY <1>3, ProducerFrees
  <2>2. /\ producer_queues' = Pushed(producer_queues, i, producer[i].message)
        /\ UNCHANGED lost
    BY <1>3 DEF P!Send, Pushed
  <2>3. Held(producer_queues') = Held(producer_queues) + 1
    BY ONLY <1>0, <2>1, <2>2, i \in Producers, FiniteIds, HeldPush
  <2>4. Grows(Producers, f, g, i)
    <3>1. f \in [Producers -> Nat] /\ g \in [Producers -> Nat]
      BY <1>0, BoundFacts DEF P!Object
    <3>2. g[i] = f[i] + 1 /\ \A j \in Producers \ {i} : g[j] = f[j]
      BY <1>0, <1>3 DEF P!Send, P!Object
    <3>. QED  BY <3>1, <3>2 DEF Grows
  <2>. HIDE DEF f, g
  <2>5. Total(g) = Total(f) + 1
    BY ONLY <2>4, FiniteIds, TotalGrows
  <2>6. SameDrops
    BY <2>2, DropsNothing
  <2>. QED  BY <1>1, <2>3, <2>5, <2>6
<1>. QED  BY <1>2, <1>3

\* What a router's step does to what is queued before it (q), in its hand (h),
\* counted as routed (r), counted as an error (e) and queued after it (o).
RouterBooks(q, q2, h, h2, r, r2, e, e2, o, o2) ==
  \/ q2 = q /\ h2 = h /\ r2 = r /\ e2 = e /\ o2 = o
  \/ q = q2 + 1 /\ h2 = h + 1 /\ r2 = r /\ e2 = e /\ o2 = o
  \/ q = q2 + 1 /\ h2 = h /\ r2 = r /\ e2 = Bumped(e) /\ o2 = o
  \/ q2 = q /\ h = h2 + 1 /\ r2 = Bumped(r) /\ e2 = e /\ o2 = o + 1
  \/ q2 = q /\ h = h2 + 1 /\ r2 = r /\ e2 = Bumped(e) /\ o2 = o

\* The first router.
LEMMA Stage1Books ==
  ASSUME TypeInv, TypeInv', IsFiniteSet(lost), Stage1Moves
  PROVE  /\ SameDrops
         /\ RouterBooks(Held(producer_queues), Held(producer_queues'), InRouter(stage1), InRouter(stage1'),
                        stage1.messages_routed_, stage1'.messages_routed_,
                        stage1.routing_errors_, stage1'.routing_errors_,
                        Held(stage1_queues), Held(stage1_queues'))
<1>0. /\ producer_queues \in [Producers -> Seq(Message)] /\ stage1_queues \in [Processors -> Seq(Message)]
      /\ stage1 \in S1!Object /\ IsFiniteSet(Producers) /\ IsFiniteSet(Processors)
  BY FiniteIds DEF TypeInv, ObjectsOK, Stage1OK, QueuesOK
<1>1. CASE S1!Start \/ S1!StartFails \/ S1!Stop \/ S1!Loop \/ S1!NextQueue \/ S1!Retry
  <2>1. UNCHANGED <<producer_queues, stage1_queues, lost>>
    BY <1>1, Stage1Keeps
  <2>2. /\ stage1'.messages_routed_ = stage1.messages_routed_
        /\ stage1'.routing_errors_ = stage1.routing_errors_
        /\ InRouter(stage1') = InRouter(stage1)
    <3>1. CASE S1!Start
      <4>1. stage1.pc # "push"
        BY <3>1, Stage1Keeps DEF TypeInv, ObjectsOK, Stage1OK, S1!Start, S1!Object
      <4>. QED  BY <1>0, <3>1, <4>1 DEF S1!Start, S1!Object, InRouter
    <3>2. CASE S1!StartFails  BY <1>0, <3>2 DEF S1!StartFails, S1!Object, InRouter
    <3>3. CASE S1!Stop  BY <1>0, <3>3 DEF S1!Stop, S1!Object, InRouter
    <3>4. CASE S1!Loop  BY <1>0, <3>4 DEF S1!Loop, S1!Object, InRouter
    <3>5. CASE S1!NextQueue  BY <1>0, <3>5 DEF S1!NextQueue, S1!Object, InRouter
    <3>6. CASE S1!Retry  BY <1>0, <3>6 DEF S1!Retry, S1!Object, InRouter
    <3>. QED  BY <1>1, <3>1, <3>2, <3>3, <3>4, <3>5, <3>6
  <2>. QED  BY <2>1, <2>2, DropsNothing DEF RouterBooks
<1>2. CASE S1!Pop \/ S1!PopUnroutable
  <2>1. PICK i \in Producers, m \in Message :
           /\ producer_queues[i] # <<>>
           /\ producer_queues' = Popped(producer_queues, i)
           /\ UNCHANGED stage1_queues
    BY <1>2, Stage1Pops
  <2>2. Held(producer_queues) = Held(producer_queues') + 1
    BY ONLY <1>0, <2>1, i \in Producers, HeldPop
  <2>3. CASE S1!Pop
    <3>1. /\ stage1'.messages_routed_ = stage1.messages_routed_
          /\ stage1'.routing_errors_ = stage1.routing_errors_
          /\ InRouter(stage1) = 0 /\ InRouter(stage1') = 1 /\ UNCHANGED lost
      BY <1>0, <2>3 DEF S1!Pop, S1!Object, InRouter
    <3>2. InRouter(stage1') = InRouter(stage1) + 1
      BY ONLY <3>1
    <3>. QED  BY <2>1, <2>2, <3>1, <3>2, DropsNothing DEF RouterBooks
  <2>4. CASE S1!PopUnroutable
    <3>1. /\ stage1'.messages_routed_ = stage1.messages_routed_
          /\ InRouter(stage1') = InRouter(stage1)
      BY <1>0, <2>4 DEF S1!PopUnroutable, S1!Object, InRouter
    <3>2. stage1'.routing_errors_ = Bumped(stage1.routing_errors_)
      BY <1>0, <2>4 DEF S1!PopUnroutable, S1!Object, S1!Incremented, Bumped
    <3>3. \E n : lost' = lost \union {[message |-> n, at |-> "stage1"]}
      BY <2>4 DEF S1!PopUnroutable
    <3>4. SameDrops
      BY <3>3, DropsElsewhere
    <3>. QED  BY <2>1, <2>2, <3>1, <3>2, <3>4 DEF RouterBooks
  <2>. QED  BY <1>2, <2>3, <2>4
<1>3. CASE S1!Send \/ S1!GiveUp
  <2>1. PICK m \in Message, o \in Processors :
           /\ m = stage1.message /\ o = S1!Target
           /\ UNCHANGED producer_queues
    <3>1. PICK m \in Message, o \in Processors :
            /\ m = stage1.message /\ o = get_processor_for_message(m.msg_type)
            /\ UNCHANGED producer_queues
      BY <1>3, Stage1Frees
    <3>. QED  BY <3>1 DEF S1!Target
  <2>2. InRouter(stage1) = 1 /\ InRouter(stage1') = 0
    <3>1. CASE S1!Send  BY <1>0, <3>1 DEF S1!Send, S1!Object, InRouter
    <3>2. CASE S1!GiveUp  BY <1>0, <3>2 DEF S1!GiveUp, S1!Object, InRouter
    <3>. QED  BY <1>3, <3>1, <3>2
  <2>3. InRouter(stage1) = InRouter(stage1') + 1
    BY ONLY <2>2
  <2>4. CASE S1!Send
    <3>1. stage1_queues' = Pushed(stage1_queues, o, m) /\ UNCHANGED lost
      BY <2>1, <2>4 DEF S1!Send, Pushed
    <3>2. Held(stage1_queues') = Held(stage1_queues) + 1
      BY ONLY <1>0, <3>1, m \in Message, o \in Processors, HeldPush
    <3>3. stage1'.routing_errors_ = stage1.routing_errors_
      BY <1>0, <2>4 DEF S1!Send, S1!Object
    <3>4. stage1'.messages_routed_ = Bumped(stage1.messages_routed_)
      BY <1>0, <2>4 DEF S1!Send, S1!Object, S1!Incremented, Bumped
    <3>. QED  BY <2>1, <2>3, <3>1, <3>2, <3>3, <3>4, DropsNothing DEF RouterBooks
  <2>5. CASE S1!GiveUp
    <3>1. /\ lost' = lost \union {[message |-> stage1.message, at |-> "stage1"]}
          /\ UNCHANGED stage1_queues
      BY <2>5 DEF S1!GiveUp
    <3>2. SameDrops
      BY <3>1, DropsElsewhere
    <3>3. stage1'.messages_routed_ = stage1.messages_routed_
      BY <1>0, <2>5 DEF S1!GiveUp, S1!Object
    <3>4. stage1'.routing_errors_ = Bumped(stage1.routing_errors_)
      BY <1>0, <2>5 DEF S1!GiveUp, S1!Object, S1!Incremented, Bumped
    <3>. QED  BY <2>1, <2>3, <3>1, <3>2, <3>3, <3>4 DEF RouterBooks
  <2>. QED  BY <1>3, <2>4, <2>5
<1>. QED  BY <1>1, <1>2, <1>3 DEF Stage1Moves, S1!routing_loop

\* The second router.
LEMMA Stage2Books ==
  ASSUME TypeInv, TypeInv', IsFiniteSet(lost), Stage2Moves
  PROVE  /\ SameDrops
         /\ RouterBooks(Held(processor_queues), Held(processor_queues'), InRouter(stage2), InRouter(stage2'),
                        stage2.messages_routed_, stage2'.messages_routed_,
                        stage2.routing_errors_, stage2'.routing_errors_,
                        Held(stage2_queues), Held(stage2_queues'))
<1>0. /\ processor_queues \in [Processors -> Seq(Message)] /\ stage2_queues \in [Strategies -> Seq(Message)]
      /\ stage2 \in S2!Object /\ IsFiniteSet(Processors) /\ IsFiniteSet(Strategies)
  BY FiniteIds DEF TypeInv, ObjectsOK, Stage2OK, QueuesOK
<1>1. CASE S2!Start \/ S2!StartFails \/ S2!Stop \/ S2!Loop \/ S2!NextQueue \/ S2!Retry
  <2>1. UNCHANGED <<processor_queues, stage2_queues, lost>>
    BY <1>1, Stage2Keeps
  <2>2. /\ stage2'.messages_routed_ = stage2.messages_routed_
        /\ stage2'.routing_errors_ = stage2.routing_errors_
        /\ InRouter(stage2') = InRouter(stage2)
    <3>1. CASE S2!Start
      <4>1. stage2.pc # "push"
        BY <3>1, Stage2Keeps DEF TypeInv, ObjectsOK, Stage2OK, S2!Start, S2!Object
      <4>. QED  BY <1>0, <3>1, <4>1 DEF S2!Start, S2!Object, InRouter
    <3>2. CASE S2!StartFails  BY <1>0, <3>2 DEF S2!StartFails, S2!Object, InRouter
    <3>3. CASE S2!Stop  BY <1>0, <3>3 DEF S2!Stop, S2!Object, InRouter
    <3>4. CASE S2!Loop  BY <1>0, <3>4 DEF S2!Loop, S2!Object, InRouter
    <3>5. CASE S2!NextQueue  BY <1>0, <3>5 DEF S2!NextQueue, S2!Object, InRouter
    <3>6. CASE S2!Retry  BY <1>0, <3>6 DEF S2!Retry, S2!Object, InRouter
    <3>. QED  BY <1>1, <3>1, <3>2, <3>3, <3>4, <3>5, <3>6
  <2>. QED  BY <2>1, <2>2, DropsNothing DEF RouterBooks
<1>2. CASE S2!Pop \/ S2!PopUnroutable
  <2>1. PICK i \in Processors, m \in Message :
           /\ processor_queues[i] # <<>>
           /\ processor_queues' = Popped(processor_queues, i)
           /\ UNCHANGED stage2_queues
    BY <1>2, Stage2Pops
  <2>2. Held(processor_queues) = Held(processor_queues') + 1
    BY ONLY <1>0, <2>1, i \in Processors, HeldPop
  <2>3. CASE S2!Pop
    <3>1. /\ stage2'.messages_routed_ = stage2.messages_routed_
          /\ stage2'.routing_errors_ = stage2.routing_errors_
          /\ InRouter(stage2) = 0 /\ InRouter(stage2') = 1 /\ UNCHANGED lost
      BY <1>0, <2>3 DEF S2!Pop, S2!Object, InRouter
    <3>2. InRouter(stage2') = InRouter(stage2) + 1
      BY ONLY <3>1
    <3>. QED  BY <2>1, <2>2, <3>1, <3>2, DropsNothing DEF RouterBooks
  <2>4. CASE S2!PopUnroutable
    <3>1. /\ stage2'.messages_routed_ = stage2.messages_routed_
          /\ InRouter(stage2') = InRouter(stage2)
      BY <1>0, <2>4 DEF S2!PopUnroutable, S2!Object, InRouter
    <3>2. stage2'.routing_errors_ = Bumped(stage2.routing_errors_)
      BY <1>0, <2>4 DEF S2!PopUnroutable, S2!Object, S2!Incremented, Bumped
    <3>3. \E n : lost' = lost \union {[message |-> n, at |-> "stage2"]}
      BY <2>4 DEF S2!PopUnroutable
    <3>4. SameDrops
      BY <3>3, DropsElsewhere
    <3>. QED  BY <2>1, <2>2, <3>1, <3>2, <3>4 DEF RouterBooks
  <2>. QED  BY <1>2, <2>3, <2>4
<1>3. CASE S2!Send \/ S2!GiveUp
  <2>1. PICK m \in Message, o \in Strategies :
           /\ m = stage2.message /\ o = S2!Target
           /\ UNCHANGED processor_queues
    <3>1. PICK m \in Message, o \in Strategies :
            /\ m = stage2.message /\ o = get_strategy_for_message(m.msg_type)
            /\ UNCHANGED processor_queues
      BY <1>3, Stage2Frees
    <3>. QED  BY <3>1 DEF S2!Target
  <2>2. InRouter(stage2) = 1 /\ InRouter(stage2') = 0
    <3>1. CASE S2!Send  BY <1>0, <3>1 DEF S2!Send, S2!Object, InRouter
    <3>2. CASE S2!GiveUp  BY <1>0, <3>2 DEF S2!GiveUp, S2!Object, InRouter
    <3>. QED  BY <1>3, <3>1, <3>2
  <2>3. InRouter(stage2) = InRouter(stage2') + 1
    BY ONLY <2>2
  <2>4. CASE S2!Send
    <3>1. stage2_queues' = Pushed(stage2_queues, o, m) /\ UNCHANGED lost
      BY <2>1, <2>4 DEF S2!Send, Pushed
    <3>2. Held(stage2_queues') = Held(stage2_queues) + 1
      BY ONLY <1>0, <3>1, m \in Message, o \in Strategies, HeldPush
    <3>3. stage2'.routing_errors_ = stage2.routing_errors_
      BY <1>0, <2>4 DEF S2!Send, S2!Object
    <3>4. stage2'.messages_routed_ = Bumped(stage2.messages_routed_)
      BY <1>0, <2>4 DEF S2!Send, S2!Object, S2!Incremented, Bumped
    <3>. QED  BY <2>1, <2>3, <3>1, <3>2, <3>3, <3>4, DropsNothing DEF RouterBooks
  <2>5. CASE S2!GiveUp
    <3>1. /\ lost' = lost \union {[message |-> stage2.message, at |-> "stage2"]}
          /\ UNCHANGED stage2_queues
      BY <2>5 DEF S2!GiveUp
    <3>2. SameDrops
      BY <3>1, DropsElsewhere
    <3>3. stage2'.messages_routed_ = stage2.messages_routed_
      BY <1>0, <2>5 DEF S2!GiveUp, S2!Object
    <3>4. stage2'.routing_errors_ = Bumped(stage2.routing_errors_)
      BY <1>0, <2>5 DEF S2!GiveUp, S2!Object, S2!Incremented, Bumped
    <3>. QED  BY <2>1, <2>3, <3>1, <3>2, <3>3, <3>4 DEF RouterBooks
  <2>. QED  BY <1>3, <2>4, <2>5
<1>. QED  BY <1>1, <1>2, <1>3 DEF Stage2Moves, S2!routing_loop

\* What a processor's step does to what is queued before the processors (q), in
\* their hands (h), counted as processed (c), lost by them (l) and queued after
\* them (o).
ProcessorsBooks(q, q2, h, h2, c, c2, l, l2, o, o2) ==
  \/ q2 = q /\ h2 = h /\ c2 = c /\ l2 = l /\ o2 = o
  \/ q = q2 + 1 /\ h2 = h + 1 /\ c2 = c /\ l2 = l /\ o2 = o
  \/ q2 = q /\ h = h2 + 1 /\ c2 = c + 1 /\ l2 = l /\ o2 = o + 1
  \/ q2 = q /\ h = h2 + 1 /\ c2 = c /\ l2 = l + 1 /\ o2 = o

\* A message in a processor's hand is not lost.
LEMMA HandIsNotLost ==
  ASSUME TypeInv, PlaceInv, NEW i \in Processors, processor[i].message \in Message
  PROVE  \A l \in lost : l.message # processor[i].message
<1>. DEFINE m == processor[i].message
            id == IdOf(m)
<1>0. DOMAIN processor = Processors
  BY DEF TypeInv, ObjectsOK, ProcessorsOK
<1>1. id \in Ids /\ m # NoMessage
  BY NoMessageAssumption DEF Ids, IdOf, Message
<1>2. <<"processor", i>> \in Shelves[5][id]
  BY <1>0, <1>1, ShelfFacts, HandsFacts
<1>3. Alone(Shelves, id) \/ Nowhere(Shelves, id)
  BY <1>1 DEF PlaceInv, Ids
<1>4. Shelves[10][id] = {}
  <2>. HIDE DEF id
  <2>. QED  BY ONLY <1>2, <1>3 DEF Alone, Nowhere
<1>5. GoneAt(lost)[id] = {}
  BY <1>4, ShelfFacts
<1>. QED  BY <1>1, <1>5 DEF GoneAt

\* The processors.
LEMMA ProcessorBooks ==
  ASSUME TypeInv, TypeInv', PlaceInv, IsFiniteSet(lost), NEW i \in Processors, ProcessorMoves(i)
  PROVE  /\ IsFiniteSet(lost')
         /\ ProcessorsBooks(Held(stage1_queues), Held(stage1_queues'),
                            Holding(processor), Holding(processor'),
                            get_total_messages_processed, get_total_messages_processed',
                            DropsIn(lost, "processor"), DropsIn(lost', "processor"),
                            Held(processor_queues), Held(processor_queues'))
<1>0. /\ processor \in [Processors -> W!Object] /\ processor' \in [Processors -> W!Object]
      /\ stage1_queues \in [Processors -> Seq(Message)]
      /\ processor_queues \in [Processors -> Seq(Message)]
      /\ IsFiniteSet(Processors)
      /\ DOMAIN processor = Processors /\ DOMAIN processor' = Processors
  BY FiniteIds DEF TypeInv, ObjectsOK, ProcessorsOK, QueuesOK
<1>1. /\ \A j \in Processors : processor[j].pc = "push" <=> processor[j].message # NoMessage
      /\ \A j \in Processors : processor'[j].pc = "push" <=> processor'[j].message # NoMessage
  BY DEF TypeInv, ObjectsOK, ProcessorsOK
<1>. DEFINE f == [j \in Processors |-> processor[j].messages_processed_]
            g == [j \in Processors |-> processor'[j].messages_processed_]
<1>2. /\ get_total_messages_processed = Total(f) /\ get_total_messages_processed' = Total(g)
  BY DEF get_total_messages_processed
<1>3. f \in [Processors -> Nat] /\ g \in [Processors -> Nat]
  BY <1>0 DEF W!Object
<1>4. /\ (\A j \in Processors : processor'[j].pc = "push" <=> processor[j].pc = "push")
           => Holding(processor') = Holding(processor)
      /\ \A k \in Processors :
           processor[k].pc # "push" /\ processor'[k].pc = "push"
             /\ (\A j \in Processors \ {k} : processor'[j].pc = processor[j].pc)
             => Holding(processor') = Holding(processor) + 1
      /\ \A k \in Processors :
           processor'[k].pc # "push" /\ processor[k].pc = "push"
             /\ (\A j \in Processors \ {k} : processor[j].pc = processor'[j].pc)
             => Holding(processor) = Holding(processor') + 1
  BY ONLY <1>0, HoldingFacts
<1>5. CASE \/ W!Start(i) \/ W!StartFails(i) \/ W!Stop(i)
           \/ W!Loop(i) \/ W!Empty(i) \/ W!Retry(i)
  <2>1. /\ UNCHANGED <<stage1_queues, processor_queues, lost>>
        /\ \A j \in Processors : processor'[j].message = processor[j].message
    BY <1>5, ProcessorKeeps
  <2>2. \A j \in Processors : processor'[j].messages_processed_ = processor[j].messages_processed_
    <3>1. CASE W!Start(i)  BY <1>0, <3>1 DEF W!Start, W!Object
    <3>2. CASE W!StartFails(i)  BY <1>0, <3>2 DEF W!StartFails, W!Object
    <3>3. CASE W!Stop(i)  BY <1>0, <3>3 DEF W!Stop, W!Object
    <3>4. CASE W!Loop(i)  BY <1>0, <3>4 DEF W!Loop, W!Object
    <3>5. CASE W!Empty(i)  BY <1>0, <3>5 DEF W!Empty, W!Object
    <3>6. CASE W!Retry(i)  BY <1>0, <3>6 DEF W!Retry, W!Object
    <3>. QED  BY <1>5, <3>1, <3>2, <3>3, <3>4, <3>5, <3>6
  <2>3. f = g
    BY <2>2
  <2>4. Holding(processor') = Holding(processor)
    BY ONLY <1>1, <1>4, <2>1
  <2>. HIDE DEF f, g
  <2>. QED  BY <1>2, <2>1, <2>3, <2>4 DEF ProcessorsBooks
<1>6. CASE W!Pop(i)
  <2>1. PICK m \in Message, n \in Message :
           /\ stage1_queues[i] # <<>>
           /\ stage1_queues' = Popped(stage1_queues, i)
           /\ processor[i].message = NoMessage /\ processor'[i].message = n
           /\ \A j \in Processors \ {i} : processor'[j] = processor[j]
           /\ UNCHANGED <<processor_queues, lost>>
    BY <1>6, ProcessorPops
  <2>2. Held(stage1_queues) = Held(stage1_queues') + 1
    BY ONLY <1>0, <2>1, i \in Processors, HeldPop
  <2>3. processor[i].pc # "push" /\ processor'[i].pc = "push"
    BY <1>1, <2>1, NoMessageAssumption
  <2>4. Holding(processor') = Holding(processor) + 1
    BY ONLY <1>4, <2>1, <2>3, i \in Processors
  <2>5. processor'[i].messages_processed_ = processor[i].messages_processed_
    BY <1>0, <1>6 DEF W!Pop, W!Object
  <2>6. f = g
    BY <2>1, <2>5
  <2>. HIDE DEF f, g
  <2>. QED  BY <1>2, <2>1, <2>2, <2>4, <2>6 DEF ProcessorsBooks
<1>7. CASE W!Send(i) \/ W!GiveUp(i)
  <2>1. PICK m \in Message :
           /\ m = processor[i].message /\ processor'[i].message = NoMessage
           /\ \A j \in Processors \ {i} : processor'[j] = processor[j]
           /\ UNCHANGED stage1_queues
    BY <1>7, ProcessorFrees
  <2>2. processor[i].pc = "push" /\ processor'[i].pc # "push"
    BY <1>1, <2>1, NoMessageAssumption
  <2>3. Holding(processor) = Holding(processor') + 1
    BY ONLY <1>4, <2>1, <2>2, i \in Processors
  <2>4. CASE W!Send(i)
    <3>1. processor_queues' = Pushed(processor_queues, i, m) /\ UNCHANGED lost
      BY <2>1, <2>4 DEF W!Send, Pushed
    <3>2. Held(processor_queues') = Held(processor_queues) + 1
      BY ONLY <1>0, <3>1, m \in Message, i \in Processors, HeldPush
    <3>3. processor'[i].messages_processed_ = processor[i].messages_processed_ + 1
      BY <1>0, <2>4 DEF W!Send, W!Object
    <3>4. g[i] = f[i] + 1 /\ \A j \in Processors \ {i} : g[j] = f[j]
      BY <2>1, <3>3
    <3>. HIDE DEF f, g
    <3>5. Grows(Processors, f, g, i)
      BY <1>3, <3>4 DEF Grows
    <3>6. Total(g) = Total(f) + 1
      BY ONLY <1>0, <3>5, TotalGrows
    <3>. QED  BY <1>2, <2>1, <2>3, <3>1, <3>2, <3>6 DEF ProcessorsBooks
  <2>5. CASE W!GiveUp(i)
    <3>1. lost' = Dropped(lost, m, "processor") /\ UNCHANGED processor_queues
      BY <2>1, <2>5 DEF W!GiveUp, Dropped
    <3>2. \A l \in lost : l.message # m
      BY <2>1, HandIsNotLost
    <3>3. /\ IsFiniteSet(lost')
          /\ DropsIn(lost', "processor") = DropsIn(lost, "processor") + 1
      BY ONLY <3>1, <3>2, IsFiniteSet(lost), LostFacts
    <3>4. processor'[i].messages_processed_ = processor[i].messages_processed_
      BY <1>0, <2>5 DEF W!GiveUp, W!Object
    <3>5. f = g
      BY <2>1, <3>4
    <3>. HIDE DEF f, g
    <3>. QED  BY <1>2, <2>1, <2>3, <3>1, <3>3, <3>5 DEF ProcessorsBooks
  <2>. QED  BY <1>7, <2>4, <2>5
<1>. QED  BY <1>5, <1>6, <1>7 DEF ProcessorMoves, W!processor_loop

\* A strategy counts a message in the step that takes it from its queue.
LEMMA StrategyBooks ==
  ASSUME TypeInv, TypeInv', NEW i \in Strategies, StrategyMoves(i)
  PROVE  \/ /\ Held(stage2_queues') = Held(stage2_queues)
            /\ get_total_messages_delivered' = get_total_messages_delivered
         \/ /\ Held(stage2_queues) = Held(stage2_queues') + 1
            /\ get_total_messages_delivered' = get_total_messages_delivered + 1
<1>0. /\ strategy \in [Strategies -> T!Object] /\ strategy' \in [Strategies -> T!Object]
      /\ stage2_queues \in [Strategies -> Seq(Message)] /\ IsFiniteSet(Strategies)
  BY FiniteIds DEF TypeInv, ObjectsOK, StrategiesOK, QueuesOK
<1>. DEFINE f == [j \in Strategies |-> strategy[j].messages_delivered_]
            g == [j \in Strategies |-> strategy'[j].messages_delivered_]
<1>1. /\ get_total_messages_delivered = Total(f) /\ get_total_messages_delivered' = Total(g)
  BY DEF get_total_messages_delivered
<1>2. f \in [Strategies -> Nat] /\ g \in [Strategies -> Nat]
  BY <1>0 DEF T!Object
<1>3. CASE T!Start(i) \/ T!StartFails(i) \/ T!Stop(i) \/ T!Loop(i) \/ T!Empty(i)
  <2>1. UNCHANGED stage2_queues
    BY <1>3, StrategyKeeps
  <2>2. \A j \in Strategies : strategy'[j].messages_delivered_ = strategy[j].messages_delivered_
    <3>0. ASSUME NEW b, \/ strategy' = [strategy EXCEPT ![i].running_ = b]
                        \/ strategy' = [strategy EXCEPT ![i].pc = b]
                        \/ strategy' = [strategy EXCEPT ![i].running_ = TRUE, ![i].pc = "loop"]
          PROVE  \A j \in Strategies : strategy'[j].messages_delivered_ = strategy[j].messages_delivered_
      <4>1. CASE strategy' = [strategy EXCEPT ![i].running_ = b]
        BY ONLY <1>0, <4>1, i \in Strategies DEF T!Object
      <4>2. CASE strategy' = [strategy EXCEPT ![i].pc = b]
        BY ONLY <1>0, <4>2, i \in Strategies DEF T!Object
      <4>3. CASE strategy' = [strategy EXCEPT ![i].running_ = TRUE, ![i].pc = "loop"]
        BY ONLY <1>0, <4>3, i \in Strategies DEF T!Object
      <4>. QED  BY <3>0, <4>1, <4>2, <4>3
    <3>1. CASE T!Start(i)  BY <3>0, <3>1 DEF T!Start
    <3>2. CASE T!StartFails(i)  BY <3>0, <3>2 DEF T!StartFails
    <3>3. CASE T!Stop(i)  BY <3>0, <3>3 DEF T!Stop
    <3>4. CASE T!Loop(i)  BY <3>0, <3>4 DEF T!Loop
    <3>5. CASE T!Empty(i)  BY <3>0, <3>5 DEF T!Empty
    <3>. QED  BY <1>3, <3>1, <3>2, <3>3, <3>4, <3>5
  <2>3. f = g
    BY <2>2
  <2>. QED  BY <1>1, <2>1, <2>3
<1>4. CASE T!Pop(i)
  <2>1. PICK m \in Message :
           /\ stage2_queues[i] # <<>> /\ m = Head(stage2_queues[i])
           /\ stage2_queues' = Popped(stage2_queues, i)
    BY <1>4, StrategyPops
  <2>2. Held(stage2_queues) = Held(stage2_queues') + 1
    BY ONLY <1>0, <2>1, i \in Strategies, HeldPop
  <2>3. /\ strategy'[i] = T!process_message(strategy[i], m)
        /\ \A j \in Strategies \ {i} : strategy'[j] = strategy[j]
    BY <1>0, <1>4, <2>1 DEF T!Pop
  <2>4. T!process_message(strategy[i], m).messages_delivered_ = strategy[i].messages_delivered_ + 1
    BY <1>0 DEF T!process_message, T!Object
  <2>5. g[i] = f[i] + 1 /\ \A j \in Strategies \ {i} : g[j] = f[j]
    BY <2>3, <2>4
  <2>. HIDE DEF f, g
  <2>6. Grows(Strategies, f, g, i)
    BY <1>2, <2>5 DEF Grows
  <2>7. Total(g) = Total(f) + 1
    BY ONLY <1>0, <2>6, TotalGrows
  <2>. QED  BY <1>1, <2>2, <2>7
<1>. QED  BY <1>3, <1>4 DEF StrategyMoves, T!strategy_loop

-----------------------------------------------------------------------------
(* The balance *)

\* Numbers; p messages are accounted for; what a router counts as routed and
\* what is queued after it grow together.
Figures(q, h, r, e, o) == {q, h, r, e, o} \subseteq Nat
Accounted(p, q, h, r, e) == p = q + h + r + e
InStep(r, r2, o, o2) == (r2 = r /\ o2 = o) \/ (r2 = r + 1 /\ o2 = o + 1)

\* A router takes from one side what it puts on the other.  The p messages
\* that reached it are fewer than CounterRange, so its counters do not wrap.
LEMMA RouterBalances ==
  ASSUME NEW p, NEW q, NEW h, NEW r, NEW e, NEW o, NEW q2, NEW h2, NEW r2, NEW e2, NEW o2,
         Figures(q, h, r, e, o), Figures(q2, h2, r2, e2, o2), p < CounterRange,
         Accounted(p, q, h, r, e), RouterBooks(q, q2, h, h2, r, r2, e, e2, o, o2)
  PROVE  Accounted(p, q2, h2, r2, e2) /\ InStep(r, r2, o, o2)
<1>. /\ q \in Nat /\ h \in Nat /\ r \in Nat /\ e \in Nat /\ o \in Nat
     /\ q2 \in Nat /\ h2 \in Nat /\ r2 \in Nat /\ e2 \in Nat /\ o2 \in Nat
     /\ p = q + h + r + e
  BY DEF Figures, Accounted
<1>0. CounterRange \in Nat
  BY BoundFacts
<1>1. q2 = q /\ h2 = h /\ r2 = r /\ e2 = e /\ o2 = o =>
        p = q2 + h2 + r2 + e2 /\ r2 = r /\ o2 = o
  OBVIOUS
<1>2. q = q2 + 1 /\ h2 = h + 1 /\ r2 = r /\ e2 = e /\ o2 = o =>
        p = q2 + h2 + r2 + e2 /\ r2 = r /\ o2 = o
  OBVIOUS
<1>3. ASSUME q = q2 + 1 \/ h = h2 + 1  PROVE  Bumped(r) = r + 1 /\ Bumped(e) = e + 1
  <2>1. r + 1 < CounterRange /\ e + 1 < CounterRange
    BY <1>0, <1>3
  <2>. QED  BY <2>1, NoWrap DEF Bumped
<1>4. q = q2 + 1 /\ h2 = h /\ r2 = r /\ e2 = Bumped(e) /\ o2 = o =>
        p = q2 + h2 + r2 + e2 /\ r2 = r /\ o2 = o
  BY <1>3
<1>5. q2 = q /\ h = h2 + 1 /\ r2 = Bumped(r) /\ e2 = e /\ o2 = o + 1 =>
        p = q2 + h2 + r2 + e2 /\ r2 = r + 1 /\ o2 = o + 1
  BY <1>3
<1>6. q2 = q /\ h = h2 + 1 /\ r2 = r /\ e2 = Bumped(e) /\ o2 = o =>
        p = q2 + h2 + r2 + e2 /\ r2 = r /\ o2 = o
  BY <1>3
<1>. QED  BY ONLY <1>1, <1>2, <1>4, <1>5, <1>6, RouterBooks(q, q2, h, h2, r, r2, e, e2, o, o2)
          DEF RouterBooks, Accounted, InStep

\* Every figure is a number.
FiguresOK ==
  /\ get_total_messages_produced \in Nat /\ get_total_messages_produced < CounterRange
  /\ get_total_messages_processed \in Nat /\ get_total_messages_delivered \in Nat
  /\ Held(producer_queues) \in Nat /\ Held(stage1_queues) \in Nat
  /\ Held(processor_queues) \in Nat /\ Held(stage2_queues) \in Nat
  /\ InRouter(stage1) \in Nat /\ InRouter(stage2) \in Nat
  /\ Holding(processor) \in Nat /\ LostAt("processor") \in Nat
  /\ stage1.messages_routed_ \in Nat /\ stage1.routing_errors_ \in Nat
  /\ stage2.messages_routed_ \in Nat /\ stage2.routing_errors_ \in Nat

\* The producers together produce fewer messages than a counter can count.
LEMMA FiguresHold == TypeInv /\ IsFiniteSet(lost) => FiguresOK
<1>. SUFFICES ASSUME TypeInv, IsFiniteSet(lost)  PROVE  FiguresOK
  OBVIOUS
<1>1. /\ get_total_messages_produced \in Nat /\ get_total_messages_produced < CounterRange
  <2>. DEFINE f == [i \in Producers |-> producer[i].messages_produced_]
  <2>1. \A i \in Producers : producer[i].messages_produced_ \in 0 .. MaxMessages
    <3>1. ASSUME NEW i \in Producers  PROVE  producer[i].messages_produced_ \in 0 .. MaxMessages
      BY BoundFacts DEF TypeInv, ObjectsOK, ProducersOK, P!Object
    <3>. QED  BY <3>1
  <2>2. f \in [Producers -> 0 .. MaxMessages]
    BY <2>1
  <2>3. f \in [0 .. config.producers_count - 1 -> 0 .. MaxMessages]
    BY <2>2 DEF Producers
  <2>4. f \in [Producers -> Nat]
    BY <2>2, BoundFacts
  <2>5. get_total_messages_produced = Total(f)
    BY DEF get_total_messages_produced
  <2>. HIDE DEF f
  <2>6. config.producers_count \in Nat /\ MaxMessages \in Nat
    BY CountFacts, BoundFacts
  <2>7. Total(f) <= MaxMessages * config.producers_count
    BY ONLY <2>3, <2>6, TotalBound
  <2>8. Total(f) \in Nat
    BY ONLY <2>4, FiniteIds, TotalFacts
  <2>9. MaxMessages * config.producers_count < CounterRange /\ CounterRange \in Nat
        /\ MaxMessages * config.producers_count \in Nat
    BY <2>6, BoundsAssumption
  <2>. QED  BY ONLY <2>5, <2>7, <2>8, <2>9
<1>2. get_total_messages_processed \in Nat
  <2>. DEFINE f == [i \in Processors |-> processor[i].messages_processed_]
  <2>1. f \in [Processors -> Nat]
    BY DEF TypeInv, ObjectsOK, ProcessorsOK, W!Object
  <2>2. get_total_messages_processed = Total(f)
    BY DEF get_total_messages_processed
  <2>. HIDE DEF f
  <2>. QED  BY <2>1, <2>2, FiniteIds, TotalFacts
<1>3. get_total_messages_delivered \in Nat
  <2>. DEFINE f == [i \in Strategies |-> strategy[i].messages_delivered_]
  <2>1. f \in [Strategies -> Nat]
    BY DEF TypeInv, ObjectsOK, StrategiesOK, T!Object
  <2>2. get_total_messages_delivered = Total(f)
    BY DEF get_total_messages_delivered
  <2>. HIDE DEF f
  <2>. QED  BY <2>1, <2>2, FiniteIds, TotalFacts
<1>4. /\ Held(producer_queues) \in Nat /\ Held(stage1_queues) \in Nat
      /\ Held(processor_queues) \in Nat /\ Held(stage2_queues) \in Nat
  BY FiniteIds, HeldFacts DEF TypeInv, ObjectsOK, QueuesOK
<1>5. InRouter(stage1) \in Nat /\ InRouter(stage2) \in Nat
  BY DEF InRouter
<1>6. Holding(processor) \in Nat
  <2>1. DOMAIN processor = Processors
    BY DEF TypeInv, ObjectsOK, ProcessorsOK
  <2>. QED  BY <2>1, FiniteIds, HoldingFacts
<1>7. LostAt("processor") \in Nat
  <2>1. {l \in lost : l.at = "processor"} \in SUBSET lost
    OBVIOUS
  <2>2. IsFiniteSet({l \in lost : l.at = "processor"})
    BY ONLY <2>1, IsFiniteSet(lost), FS_Subset
  <2>. QED  BY <2>2, FS_CardinalityType DEF LostAt
<1>8. /\ stage1.messages_routed_ \in Nat /\ stage1.routing_errors_ \in Nat
      /\ stage2.messages_routed_ \in Nat /\ stage2.routing_errors_ \in Nat
  BY BoundFacts DEF TypeInv, ObjectsOK, Stage1OK, Stage2OK, S1!Object, S2!Object
<1>. QED  BY <1>1, <1>2, <1>3, <1>4, <1>5, <1>6, <1>7, <1>8 DEF FiguresOK

\* They are numbers after a step, too.
LEMMA FiguresHoldAfter == TypeInv' /\ IsFiniteSet(lost)' => FiguresOK'
BY FiguresHold, PTL

\* The figures after a step, and when a step leaves one of them alone.
LEMMA FigureFrames ==
  /\ Held(producer_queues)' = Held(producer_queues') /\ Held(stage1_queues)' = Held(stage1_queues')
  /\ Held(processor_queues)' = Held(processor_queues') /\ Held(stage2_queues)' = Held(stage2_queues')
  /\ InRouter(stage1)' = InRouter(stage1') /\ InRouter(stage2)' = InRouter(stage2')
  /\ Holding(processor)' = Holding(processor')
  /\ LostAt("processor") = DropsIn(lost, "processor")
  /\ LostAt("processor")' = DropsIn(lost', "processor")
  /\ UNCHANGED producer => UNCHANGED get_total_messages_produced
  /\ UNCHANGED processor => UNCHANGED get_total_messages_processed
  /\ UNCHANGED strategy => UNCHANGED get_total_messages_delivered
BY DEF Held, InRouter, Holding, LostAt, DropsIn, get_total_messages_produced,
       get_total_messages_processed, get_total_messages_delivered

\* The account, and that there is an end to what is lost.
AccountInv == CountersBalance /\ IsFiniteSet(lost)

\* At the start there is nothing to account for.
LEMMA AccountInit == Init => AccountInv
<1>. SUFFICES ASSUME Init  PROVE  AccountInv
  OBVIOUS
<1>1. /\ producer_queues = [i \in Producers |-> <<>>] /\ stage1_queues = [i \in Processors |-> <<>>]
      /\ processor_queues = [i \in Processors |-> <<>>] /\ stage2_queues = [i \in Strategies |-> <<>>]
      /\ lost = {} /\ IsFiniteSet(lost)
  BY FS_EmptySet DEF Init
<1>2. /\ Held(producer_queues) = 0 /\ Held(stage1_queues) = 0
      /\ Held(processor_queues) = 0 /\ Held(stage2_queues) = 0
  <2>1. ASSUME NEW ids, IsFiniteSet(ids)  PROVE  Held([i \in ids |-> <<>>]) = 0
    <3>. DEFINE f == [i \in ids |-> <<>>]
    <3>1. f \in [ids -> Seq(Message)] /\ \A i \in ids : f[i] = <<>>
      OBVIOUS
    <3>. HIDE DEF f
    <3>2. Held(f) = 0
      BY <2>1, <3>1, HeldFacts
    <3>. QED  BY <3>2 DEF f
  <2>. QED  BY <1>1, <2>1, FiniteIds
<1>3. /\ get_total_messages_produced = 0 /\ get_total_messages_processed = 0
      /\ get_total_messages_delivered = 0
  <2>1. ASSUME NEW ids, IsFiniteSet(ids), NEW f, f = [i \in ids |-> 0]  PROVE  Total(f) = 0
    BY <2>1, TotalFacts
  <2>2. /\ [i \in Producers |-> producer[i].messages_produced_] = [i \in Producers |-> 0]
        /\ [i \in Processors |-> processor[i].messages_processed_] = [i \in Processors |-> 0]
        /\ [i \in Strategies |-> strategy[i].messages_delivered_] = [i \in Strategies |-> 0]
    BY DEF Init, P!Init, W!Init, T!Init
  <2>. QED  BY <2>1, <2>2, FiniteIds DEF get_total_messages_produced,
               get_total_messages_processed, get_total_messages_delivered
<1>4. /\ InRouter(stage1) = 0 /\ InRouter(stage2) = 0
      /\ stage1.messages_routed_ = 0 /\ stage1.routing_errors_ = 0
      /\ stage2.messages_routed_ = 0 /\ stage2.routing_errors_ = 0
  BY DEF Init, S1!Init, S2!Init, InRouter
<1>5. Holding(processor) = 0 /\ LostAt("processor") = 0
  <2>1. {i \in DOMAIN processor : processor[i].pc = "push"} = {}
    BY DEF Init, W!Init
  <2>2. {l \in lost : l.at = "processor"} = {}
    BY <1>1
  <2>. QED  BY <2>1, <2>2, FS_EmptySet DEF Holding, LostAt
<1>. QED  BY <1>1, <1>2, <1>3, <1>4, <1>5 DEF AccountInv, CountersBalance

\* Every step keeps the account.
LEMMA AccountStep == TypeInv /\ PlaceInv /\ AccountInv /\ [Next]_vars => AccountInv'
<1>. SUFFICES ASSUME TypeInv, PlaceInv, CountersBalance, IsFiniteSet(lost), [Next]_vars
              PROVE  CountersBalance' /\ IsFiniteSet(lost')
  BY DEF AccountInv
<1>0. TypeInv' /\ FiguresOK
  BY TypeStep, FiguresHold
<1>1. IsFiniteSet(lost') => FiguresOK'
  BY <1>0, FiguresHoldAfter
<1>2. ASSUME NEW i \in Producers, ProducerMoves(i)  PROVE  CountersBalance' /\ IsFiniteSet(lost')
  <2>1. /\ SameDrops
        /\ \/ /\ get_total_messages_produced' = get_total_messages_produced
              /\ Held(producer_queues)' = Held(producer_queues)
           \/ /\ get_total_messages_produced' = get_total_messages_produced + 1
              /\ Held(producer_queues)' = Held(producer_queues) + 1
    BY <1>0, <1>2, ProducerBooks
  <2>2. UNCHANGED <<stage1, processor, stage2, strategy, stage1_queues, processor_queues, stage2_queues>>
    BY <1>2 DEF ProducerMoves, AtProducers
  <2>3. /\ Held(stage1_queues)' = Held(stage1_queues) /\ Held(processor_queues)' = Held(processor_queues)
        /\ Held(stage2_queues)' = Held(stage2_queues) /\ InRouter(stage1)' = InRouter(stage1)
        /\ InRouter(stage2)' = InRouter(stage2) /\ Holding(processor)' = Holding(processor)
        /\ UNCHANGED <<get_total_messages_processed, get_total_messages_delivered>>
    BY <2>2, FigureFrames
  <2>. QED  BY <1>0, <2>1, <2>2, <2>3 DEF CountersBalance, SameDrops, FiguresOK
<1>3. ASSUME Stage1Moves  PROVE  CountersBalance' /\ IsFiniteSet(lost')
  <2>1. /\ SameDrops
        /\ RouterBooks(Held(producer_queues), Held(producer_queues'), InRouter(stage1), InRouter(stage1'),
                       stage1.messages_routed_, stage1'.messages_routed_,
                       stage1.routing_errors_, stage1'.routing_errors_,
                       Held(stage1_queues), Held(stage1_queues'))
    BY <1>0, <1>3, Stage1Books
  <2>2. UNCHANGED <<producer, processor, stage2, strategy, processor_queues, stage2_queues>>
    BY <1>3 DEF Stage1Moves, AtStage1
  <2>3. /\ Held(processor_queues)' = Held(processor_queues) /\ Held(stage2_queues)' = Held(stage2_queues)
        /\ InRouter(stage2)' = InRouter(stage2) /\ Holding(processor)' = Holding(processor)
        /\ UNCHANGED <<get_total_messages_produced, get_total_messages_processed,
                       get_total_messages_delivered>>
    BY <2>2, FigureFrames
  <2>4. FiguresOK'
    BY <1>1, <2>1 DEF SameDrops
  <2>5. /\ Accounted(get_total_messages_produced, Held(producer_queues'), InRouter(stage1'),
                     stage1'.messages_routed_, stage1'.routing_errors_)
        /\ InStep(stage1.messages_routed_, stage1'.messages_routed_,
                  Held(stage1_queues), Held(stage1_queues'))
    <3>1. Accounted(get_total_messages_produced, Held(producer_queues), InRouter(stage1),
                    stage1.messages_routed_, stage1.routing_errors_)
      BY DEF CountersBalance, Accounted
    <3>2. Figures(Held(producer_queues), InRouter(stage1), stage1.messages_routed_,
                  stage1.routing_errors_, Held(stage1_queues))
      BY <1>0 DEF FiguresOK, Figures
    <3>3. Figures(Held(producer_queues'), InRouter(stage1'), stage1'.messages_routed_,
                  stage1'.routing_errors_, Held(stage1_queues'))
      BY <2>4, FigureFrames DEF FiguresOK, Figures
    <3>4. get_total_messages_produced < CounterRange
      BY <1>0 DEF FiguresOK
    <3>. QED  BY ONLY <2>1, <3>1, <3>2, <3>3, <3>4, RouterBalances
  <2>. QED  BY <1>0, <2>1, <2>2, <2>3, <2>5, FigureFrames
            DEF CountersBalance, SameDrops, FiguresOK, Accounted, InStep
<1>4. ASSUME NEW i \in Processors, ProcessorMoves(i)  PROVE  CountersBalance' /\ IsFiniteSet(lost')
  <2>1. /\ IsFiniteSet(lost')
        /\ ProcessorsBooks(Held(stage1_queues), Held(stage1_queues'),
                           Holding(processor), Holding(processor'),
                           get_total_messages_processed, get_total_messages_processed',
                           DropsIn(lost, "processor"), DropsIn(lost', "processor"),
                           Held(processor_queues), Held(processor_queues'))
    BY <1>0, <1>4, ProcessorBooks
  <2>2. UNCHANGED <<producer, stage1, stage2, strategy, producer_queues, stage2_queues>>
    BY <1>4 DEF ProcessorMoves, AtProcessors
  <2>3. /\ Held(producer_queues)' = Held(producer_queues) /\ Held(stage2_queues)' = Held(stage2_queues)
        /\ InRouter(stage1)' = InRouter(stage1) /\ InRouter(stage2)' = InRouter(stage2)
        /\ UNCHANGED <<get_total_messages_produced, get_total_messages_delivered>>
    BY <2>2, FigureFrames
  <2>4. ProcessorsBooks(Held(stage1_queues), Held(stage1_queues)',
                        Holding(processor), Holding(processor)',
                        get_total_messages_processed, get_total_messages_processed',
                        LostAt("processor"), LostAt("processor")',
                        Held(processor_queues), Held(processor_queues)')
    BY <2>1, FigureFrames
  <2>5. FiguresOK'
    BY <1>1, <2>1
  <2>. QED  BY ONLY <1>0, <2>1, <2>2, <2>3, <2>4, <2>5, CountersBalance
            DEF CountersBalance, ProcessorsBooks, FiguresOK
<1>5. ASSUME Stage2Moves  PROVE  CountersBalance' /\ IsFiniteSet(lost')
  <2>1. /\ SameDrops
        /\ RouterBooks(Held(processor_queues), Held(processor_queues'), InRouter(stage2), InRouter(stage2'),
                       stage2.messages_routed_, stage2'.messages_routed_,
                       stage2.routing_errors_, stage2'.routing_errors_,
                       Held(stage2_queues), Held(stage2_queues'))
    BY <1>0, <1>5, Stage2Books
  <2>2. UNCHANGED <<producer, stage1, processor, strategy, producer_queues, stage1_queues>>
    BY <1>5 DEF Stage2Moves, AtStage2
  <2>3. /\ Held(producer_queues)' = Held(producer_queues) /\ Held(stage1_queues)' = Held(stage1_queues)
        /\ InRouter(stage1)' = InRouter(stage1) /\ Holding(processor)' = Holding(processor)
        /\ UNCHANGED <<get_total_messages_produced, get_total_messages_processed,
                       get_total_messages_delivered>>
    BY <2>2, FigureFrames
  <2>4. FiguresOK'
    BY <1>1, <2>1 DEF SameDrops
  <2>5. /\ Accounted(get_total_messages_processed, Held(processor_queues'), InRouter(stage2'),
                     stage2'.messages_routed_, stage2'.routing_errors_)
        /\ InStep(stage2.messages_routed_, stage2'.messages_routed_,
                  Held(stage2_queues), Held(stage2_queues'))
    <3>1. Accounted(get_total_messages_processed, Held(processor_queues), InRouter(stage2),
                    stage2.messages_routed_, stage2.routing_errors_)
      BY DEF CountersBalance, Accounted
    <3>2. Figures(Held(processor_queues), InRouter(stage2), stage2.messages_routed_,
                  stage2.routing_errors_, Held(stage2_queues))
      BY <1>0 DEF FiguresOK, Figures
    <3>3. Figures(Held(processor_queues'), InRouter(stage2'), stage2'.messages_routed_,
                  stage2'.routing_errors_, Held(stage2_queues'))
      BY <2>4, FigureFrames DEF FiguresOK, Figures
    <3>4. get_total_messages_processed < CounterRange
      BY <1>0, BoundFacts DEF FiguresOK, CountersBalance
    <3>. QED  BY ONLY <2>1, <3>1, <3>2, <3>3, <3>4, RouterBalances
  <2>. QED  BY <1>0, <2>1, <2>2, <2>3, <2>5, FigureFrames
            DEF CountersBalance, SameDrops, FiguresOK, Accounted, InStep
<1>6. ASSUME NEW i \in Strategies, StrategyMoves(i)  PROVE  CountersBalance' /\ IsFiniteSet(lost')
  <2>1. \/ /\ Held(stage2_queues') = Held(stage2_queues)
           /\ get_total_messages_delivered' = get_total_messages_delivered
        \/ /\ Held(stage2_queues) = Held(stage2_queues') + 1
           /\ get_total_messages_delivered' = get_total_messages_delivered + 1
    BY <1>0, <1>6, StrategyBooks
  <2>2. UNCHANGED <<producer, stage1, processor, stage2, lost,
                    producer_queues, stage1_queues, processor_queues>>
    BY <1>6 DEF StrategyMoves, AtStrategies
  <2>3. /\ Held(producer_queues)' = Held(producer_queues) /\ Held(stage1_queues)' = Held(stage1_queues)
        /\ Held(processor_queues)' = Held(processor_queues) /\ InRouter(stage1)' = InRouter(stage1)
        /\ InRouter(stage2)' = InRouter(stage2) /\ Holding(processor)' = Holding(processor)
        /\ LostAt("processor")' = LostAt("processor")
        /\ UNCHANGED <<get_total_messages_produced, get_total_messages_processed>>
    BY <2>2, FigureFrames
  <2>4. FiguresOK'
    BY <1>1, <2>2
  <2>. QED  BY <1>0, <2>1, <2>2, <2>3, <2>4, FigureFrames DEF CountersBalance, FiguresOK
<1>7. ASSUME UNCHANGED <<objects, queues, lost>>  PROVE  CountersBalance' /\ IsFiniteSet(lost')
  <2>1. /\ UNCHANGED <<producer, stage1, processor, stage2, strategy, lost>>
        /\ UNCHANGED <<producer_queues, stage1_queues, processor_queues, stage2_queues>>
    BY <1>7 DEF objects, queues
  <2>2. /\ Held(producer_queues)' = Held(producer_queues) /\ Held(stage1_queues)' = Held(stage1_queues)
        /\ Held(processor_queues)' = Held(processor_queues) /\ Held(stage2_queues)' = Held(stage2_queues)
        /\ InRouter(stage1)' = InRouter(stage1) /\ InRouter(stage2)' = InRouter(stage2)
        /\ Holding(processor)' = Holding(processor) /\ LostAt("processor")' = LostAt("processor")
        /\ UNCHANGED <<get_total_messages_produced, get_total_messages_processed,
                       get_total_messages_delivered>>
    BY <2>1, FigureFrames
  <2>. QED  BY <2>1, <2>2 DEF CountersBalance
<1>. QED  BY <1>2, <1>3, <1>4, <1>5, <1>6, <1>7, OneMoves

\* The account is kept in every reachable state.
LEMMA AccountInvHolds == Spec => [](TypeInv /\ AccountInv)
<1>1. Init => TypeInv /\ PlaceInv /\ AccountInv
  BY TypeInit, PlaceInit, AccountInit
<1>2. TypeInv /\ PlaceInv /\ AccountInv /\ [Next]_vars => TypeInv' /\ PlaceInv' /\ AccountInv'
  BY TypeStep, PlaceStep, AccountStep
<1>. QED  BY <1>1, <1>2, PTL DEF Spec

\* At every moment, for every configuration and every interleaving, what a
\* stage counted is what the next one counted and what is on its way between
\* them: no counter of main's summary can drift from the messages it counts,
\* and the only messages that leave no trace in them are those a processor
\* gives up on.
THEOREM CountersAlwaysBalance == Spec => []CountersBalance
<1>1. AccountInv => CountersBalance
  BY DEF AccountInv
<1>. QED  BY <1>1, AccountInvHolds, PTL

\* The printed figures add up, for every configuration: what was produced and is
\* neither delivered nor printed as lost was dropped by a processor or is still
\* in a queue.  When the summary is printed nobody holds a message and the
\* figures are those of the counters, which balance.
THEOREM ReportsAddUp == Spec => []ReportAddsUp
<1>1. TypeInv /\ AccountInv /\ ReportIsFinal => ReportAddsUp
  <2>. SUFFICES ASSUME TypeInv, AccountInv, ReportIsFinal, report.printed
                PROVE  report.produced
                         = report.delivered + report.lost + LostAt("processor")
                           + Held(producer_queues) + Held(stage1_queues)
                           + Held(processor_queues) + Held(stage2_queues)
    BY DEF ReportAddsUp
  <2>1. /\ report = Summary
        /\ Holding(producer) + InRouter(stage1) + Holding(processor) + InRouter(stage2) = 0
    BY DEF ReportIsFinal
  <2>2. FiguresOK /\ Holding(producer) \in Nat
    <3>1. DOMAIN producer = Producers
      BY DEF TypeInv, ObjectsOK, ProducersOK
    <3>. QED  BY <3>1, FiguresHold, FiniteIds, HoldingFacts DEF AccountInv
  <2>3. /\ InRouter(stage1) = 0 /\ Holding(processor) = 0 /\ InRouter(stage2) = 0
    <3>1. /\ Holding(producer) \in Nat /\ InRouter(stage1) \in Nat
          /\ Holding(processor) \in Nat /\ InRouter(stage2) \in Nat
      BY <2>2 DEF FiguresOK
    <3>2. Holding(producer) + InRouter(stage1) + Holding(processor) + InRouter(stage2) = 0
      BY <2>1
    <3>. QED  BY ONLY <3>1, <3>2
  <2>4. /\ report.produced = get_total_messages_produced
        /\ report.delivered = get_total_messages_delivered
        /\ report.lost = stage1.routing_errors_ + stage2.routing_errors_
    <3>1. /\ Summary.produced = get_total_messages_produced
          /\ Summary.delivered = get_total_messages_delivered
          /\ Summary.lost = routing_errors
      BY DEF Summary
    <3>. QED  BY <2>1, <3>1, Zenon DEF routing_errors
  <2>5. CountersBalance
    BY DEF AccountInv
  <2>. QED  BY ONLY <2>2, <2>3, <2>4, <2>5 DEF FiguresOK, CountersBalance
<1>. QED  BY <1>1, AccountInvHolds, ReportsAreFinal, PTL
-----------------------------------------------------------------------------
(* The counters and the history *)

\* A message that is somewhere else is not among the lost.
LEMMA ShelvedIsNotLost ==
  ASSUME PlaceInv, NEW m \in Message, NEW k \in 1 .. 9, Shelves[k][IdOf(m)] # {}
  PROVE  \A l \in lost : l.message # m
<1>. DEFINE id == IdOf(m)
<1>1. id \in Ids
  BY DEF Ids, IdOf, Message
<1>2. Alone(Shelves, id) \/ Nowhere(Shelves, id)
  BY <1>1 DEF PlaceInv, Ids
<1>3. Shelves[k][id] # {}
  OBVIOUS
<1>4. Shelves[10][id] = {}
  <2>. HIDE DEF id
  <2>. QED  BY ONLY <1>2, <1>3, k \in 1 .. 9 DEF Alone, Nowhere
<1>5. GoneAt(lost)[id] = {}
  BY <1>4, ShelfFacts
<1>. QED  BY <1>1, <1>5 DEF GoneAt

\* Neither the message in a router's hand nor the first one of a queue it pops
\* from is lost, nor the one in a producer's hand.
LEMMA HandsAreNotLost ==
  ASSUME TypeInv, PlaceInv, NEW m \in Message
  PROVE  /\ stage1.message = m => \A l \in lost : l.message # m
         /\ stage2.message = m => \A l \in lost : l.message # m
         /\ \A i \in Producers :
              /\ producer[i].message = m => \A l \in lost : l.message # m
              /\ producer_queues[i] # <<>> /\ m = Head(producer_queues[i])
                   => \A l \in lost : l.message # m
         /\ \A i \in Processors :
              processor_queues[i] # <<>> /\ m = Head(processor_queues[i])
                => \A l \in lost : l.message # m
<1>0. IdOf(m) \in Ids /\ m # NoMessage /\ DOMAIN producer = Producers
  BY NoMessageAssumption DEF Ids, IdOf, Message, TypeInv, ObjectsOK, ProducersOK
<1>1. ASSUME stage1.message = m  PROVE  \A l \in lost : l.message # m
  <2>1. Shelves[7][IdOf(m)] # {}
    BY <1>0, <1>1, ShelfFacts DEF HandAt
  <2>. QED  BY ONLY <2>1, PlaceInv, m \in Message, ShelvedIsNotLost
<1>2. ASSUME stage2.message = m  PROVE  \A l \in lost : l.message # m
  <2>1. Shelves[3][IdOf(m)] # {}
    BY <1>0, <1>2, ShelfFacts DEF HandAt
  <2>. QED  BY ONLY <2>1, PlaceInv, m \in Message, ShelvedIsNotLost
<1>3. ASSUME NEW i \in Producers, producer[i].message = m  PROVE  \A l \in lost : l.message # m
  <2>1. Shelves[9][IdOf(m)] # {}
    <3>1. <<"producer", i>> \in HandsAt("producer", producer)[IdOf(m)]
      BY <1>0, <1>3, HandsFacts
    <3>. QED  BY <3>1, ShelfFacts
  <2>. QED  BY ONLY <2>1, PlaceInv, m \in Message, ShelvedIsNotLost
<1>4. ASSUME NEW name, NEW ids, NEW f \in [ids -> Seq(Message)], NEW i \in ids,
             f[i] # <<>>, m = Head(f[i])
      PROVE  QueueAt(name, f)[IdOf(m)] # {}
  <2>1. 1 \in DOMAIN f[i] /\ f[i][1] = m
    <3>1. f[i] \in Seq(Message)
      BY <1>4
    <3>. QED  BY ONLY <1>4, <3>1
  <2>2. <<name, i, 1>> \in InSeq(name, f, IdOf(m))
    BY <1>4, <2>1 DEF InSeq
  <2>. QED  BY <1>0, <2>2 DEF QueueAt
<1>5. ASSUME NEW i \in Producers, producer_queues[i] # <<>>, m = Head(producer_queues[i])
      PROVE  \A l \in lost : l.message # m
  <2>1. producer_queues \in [Producers -> Seq(Message)]
    BY DEF TypeInv, ObjectsOK, QueuesOK
  <2>2. Shelves[8][IdOf(m)] # {}
    <3>1. QueueAt("producer_queues", producer_queues)[IdOf(m)] # {}
      BY ONLY <1>4, <1>5, <2>1, i \in Producers
    <3>. QED  BY <3>1, ShelfFacts
  <2>. QED  BY ONLY <2>2, PlaceInv, m \in Message, ShelvedIsNotLost
<1>6. ASSUME NEW i \in Processors, processor_queues[i] # <<>>, m = Head(processor_queues[i])
      PROVE  \A l \in lost : l.message # m
  <2>1. processor_queues \in [Processors -> Seq(Message)]
    BY DEF TypeInv, ObjectsOK, QueuesOK
  <2>2. Shelves[4][IdOf(m)] # {}
    <3>1. QueueAt("processor_queues", processor_queues)[IdOf(m)] # {}
      BY ONLY <1>4, <1>6, <2>1, i \in Processors
    <3>. QED  BY <3>1, ShelfFacts
  <2>. QED  BY ONLY <2>2, PlaceInv, m \in Message, ShelvedIsNotLost
<1>. QED  BY <1>1, <1>2, <1>3, <1>5, <1>6

\* Nothing is dropped at one stage; one message more is.
NoDrop(at) == DropsIn(lost', at) = DropsIn(lost, at)
OneDrop(at) == DropsIn(lost', at) = DropsIn(lost, at) + 1

\* A step that drops nothing, or at another stage.
LEMMA NotDroppedHere ==
  ASSUME IsFiniteSet(lost), NEW at,
         \/ UNCHANGED lost
         \/ \E m, stage : stage # at /\ lost' = lost \union {[message |-> m, at |-> stage]}
  PROVE  NoDrop(at)
<1>1. CASE UNCHANGED lost
  BY <1>1 DEF NoDrop
<1>2. CASE \E m, stage : stage # at /\ lost' = lost \union {[message |-> m, at |-> stage]}
  <2>1. PICK m, stage : stage # at /\ lost' = Dropped(lost, m, stage)
    BY <1>2 DEF Dropped
  <2>2. DropsIn(lost', at) = DropsIn(lost, at)
    BY ONLY <2>1, IsFiniteSet(lost), LostFacts
  <2>. QED  BY <2>2 DEF NoDrop
<1>. QED  BY <1>1, <1>2

\* A step that drops a message that was not lost.
LEMMA DroppedHere ==
  ASSUME IsFiniteSet(lost), NEW at, NEW m, \A l \in lost : l.message # m,
         lost' = lost \union {[message |-> m, at |-> at]}
  PROVE  OneDrop(at)
<1>1. lost' = Dropped(lost, m, at)
  BY DEF Dropped
<1>2. DropsIn(lost', at) = DropsIn(lost, at) + 1
  BY ONLY <1>1, IsFiniteSet(lost), \A l \in lost : l.message # m, LostFacts
<1>. QED  BY <1>2 DEF OneDrop

\* An error is counted in the step that drops the message, and no counter that
\* counts fewer than CounterRange messages wraps.
ErrorBooks(r, r2, at) ==
  \/ r2.routing_errors_ = r.routing_errors_ /\ NoDrop(at)
  \/ r2.routing_errors_ = r.routing_errors_ + 1 /\ OneDrop(at)

LEMMA Stage1Counts ==
  ASSUME TypeInv, PlaceInv, AccountInv, Stage1Moves
  PROVE  ErrorBooks(stage1, stage1', "stage1")
<1>0. /\ stage1 \in S1!Object /\ IsFiniteSet(lost) /\ IsFiniteSet(Producers)
      /\ producer_queues \in [Producers -> Seq(Message)]
  BY FiniteIds DEF TypeInv, ObjectsOK, Stage1OK, QueuesOK, AccountInv
<1>1. CASE \/ S1!Start \/ S1!StartFails \/ S1!Stop \/ S1!Loop
           \/ S1!NextQueue \/ S1!Retry \/ S1!Pop \/ S1!Send
  <2>1. UNCHANGED lost
    BY <1>1 DEF S1!Start, S1!StartFails, S1!Stop, S1!Loop, S1!NextQueue, S1!Retry, S1!Pop,
                S1!Send
  <2>2. stage1'.routing_errors_ = stage1.routing_errors_
    <3>1. CASE S1!Start  BY <1>0, <3>1 DEF S1!Start, S1!Object
    <3>2. CASE S1!StartFails  BY <1>0, <3>2 DEF S1!StartFails, S1!Object
    <3>3. CASE S1!Stop  BY <1>0, <3>3 DEF S1!Stop, S1!Object
    <3>4. CASE S1!Loop  BY <1>0, <3>4 DEF S1!Loop, S1!Object
    <3>5. CASE S1!NextQueue  BY <1>0, <3>5 DEF S1!NextQueue, S1!Object
    <3>6. CASE S1!Retry  BY <1>0, <3>6 DEF S1!Retry, S1!Object
    <3>7. CASE S1!Pop  BY <1>0, <3>7 DEF S1!Pop, S1!Object
    <3>8. CASE S1!Send  BY <1>0, <3>8 DEF S1!Send, S1!Object
    <3>. QED  BY <1>1, <3>1, <3>2, <3>3, <3>4, <3>5, <3>6, <3>7, <3>8
  <2>. QED  BY <1>0, <2>1, <2>2, NotDroppedHere DEF ErrorBooks
<1>2. CASE S1!PopUnroutable \/ S1!GiveUp
  <2>1. /\ Held(producer_queues) \in Nat /\ InRouter(stage1) \in Nat
        /\ stage1.messages_routed_ \in Nat /\ stage1.routing_errors_ \in Nat
        /\ get_total_messages_produced \in Nat /\ get_total_messages_produced < CounterRange
        /\ get_total_messages_produced = Held(producer_queues) + InRouter(stage1) + stage1.messages_routed_ + stage1.routing_errors_
    BY <1>0, FiguresHold DEF FiguresOK, AccountInv, CountersBalance
  <2>2. OneDrop("stage1") /\ Held(producer_queues) + InRouter(stage1) > 0
    <3>1. CASE S1!PopUnroutable
      <4>1. PICK i \in Producers, m \in Message :
              /\ producer_queues[i] # <<>> /\ m = Head(producer_queues[i])
              /\ producer_queues' = Popped(producer_queues, i)
              /\ stage1.message = NoMessage
              /\ \/ stage1'.message = m /\ UNCHANGED lost
                 \/ /\ stage1'.message = NoMessage
                    /\ lost' = lost \union {[message |-> m, at |-> "stage1"]}
        BY <3>1, Stage1Pops
      <4>2. stage1'.message = stage1.message
        BY <1>0, <3>1 DEF S1!PopUnroutable, S1!Object
      <4>3. lost' = lost \union {[message |-> m, at |-> "stage1"]}
        BY ONLY <4>1, <4>2, NoMessageAssumption, m \in Message
      <4>4. \A l \in lost : l.message # m
        BY <4>1, HandsAreNotLost
      <4>5. OneDrop("stage1")
        BY ONLY <1>0, <4>3, <4>4, DroppedHere
      <4>6. Held(producer_queues) = Held(producer_queues') + 1
        BY ONLY <1>0, <4>1, i \in Producers, HeldPop
      <4>7. Held(producer_queues') \in Nat
        <5>1. producer_queues' \in [Producers -> Seq(Message)]
          BY ONLY <1>0, <4>1, i \in Producers, PopFacts
        <5>. QED  BY ONLY <1>0, <5>1, HeldFacts
      <4>. QED  BY ONLY <2>1, <4>5, <4>6, <4>7
    <3>2. CASE S1!GiveUp
      <4>1. stage1.message \in Message
        BY <3>2, Stage1Frees
      <4>2. PICK m \in Message : m = stage1.message
        BY <4>1
      <4>3. /\ lost' = lost \union {[message |-> m, at |-> "stage1"]}
            /\ stage1.pc = "push"
        BY <3>2, <4>2 DEF S1!GiveUp
      <4>4. \A l \in lost : l.message # m
        BY <4>2, HandsAreNotLost
      <4>5. OneDrop("stage1")
        BY ONLY <1>0, <4>3, <4>4, DroppedHere
      <4>6. InRouter(stage1) = 1
        BY <4>3 DEF InRouter
      <4>. QED  BY ONLY <2>1, <4>5, <4>6
    <3>. QED  BY <1>2, <3>1, <3>2
  <2>3. stage1'.routing_errors_ = Bumped(stage1.routing_errors_)
    <3>1. CASE S1!PopUnroutable
      BY <1>0, <3>1 DEF S1!PopUnroutable, S1!Object, S1!Incremented, Bumped
    <3>2. CASE S1!GiveUp
      BY <1>0, <3>2 DEF S1!GiveUp, S1!Object, S1!Incremented, Bumped
    <3>. QED  BY <1>2, <3>1, <3>2
  <2>4. stage1.routing_errors_ + 1 < CounterRange
    BY ONLY <2>1, <2>2, BoundFacts
  <2>5. stage1'.routing_errors_ = stage1.routing_errors_ + 1
    BY <2>1, <2>3, <2>4, NoWrap DEF Bumped
  <2>. QED  BY <2>2, <2>5 DEF ErrorBooks
<1>. QED  BY <1>1, <1>2 DEF Stage1Moves, S1!routing_loop

\* The second router.
LEMMA Stage2Counts ==
  ASSUME TypeInv, PlaceInv, AccountInv, Stage2Moves
  PROVE  ErrorBooks(stage2, stage2', "stage2")
<1>0. /\ stage2 \in S2!Object /\ IsFiniteSet(lost) /\ IsFiniteSet(Processors)
      /\ processor_queues \in [Processors -> Seq(Message)]
  BY FiniteIds DEF TypeInv, ObjectsOK, Stage2OK, QueuesOK, AccountInv
<1>1. CASE \/ S2!Start \/ S2!StartFails \/ S2!Stop \/ S2!Loop
           \/ S2!NextQueue \/ S2!Retry \/ S2!Pop \/ S2!Send
  <2>1. UNCHANGED lost
    BY <1>1 DEF S2!Start, S2!StartFails, S2!Stop, S2!Loop, S2!NextQueue, S2!Retry, S2!Pop,
                S2!Send
  <2>2. stage2'.routing_errors_ = stage2.routing_errors_
    <3>1. CASE S2!Start  BY <1>0, <3>1 DEF S2!Start, S2!Object
    <3>2. CASE S2!StartFails  BY <1>0, <3>2 DEF S2!StartFails, S2!Object
    <3>3. CASE S2!Stop  BY <1>0, <3>3 DEF S2!Stop, S2!Object
    <3>4. CASE S2!Loop  BY <1>0, <3>4 DEF S2!Loop, S2!Object
    <3>5. CASE S2!NextQueue  BY <1>0, <3>5 DEF S2!NextQueue, S2!Object
    <3>6. CASE S2!Retry  BY <1>0, <3>6 DEF S2!Retry, S2!Object
    <3>7. CASE S2!Pop  BY <1>0, <3>7 DEF S2!Pop, S2!Object
    <3>8. CASE S2!Send  BY <1>0, <3>8 DEF S2!Send, S2!Object
    <3>. QED  BY <1>1, <3>1, <3>2, <3>3, <3>4, <3>5, <3>6, <3>7, <3>8
  <2>. QED  BY <1>0, <2>1, <2>2, NotDroppedHere DEF ErrorBooks
<1>2. CASE S2!PopUnroutable \/ S2!GiveUp
  <2>1. /\ Held(processor_queues) \in Nat /\ InRouter(stage2) \in Nat
        /\ stage2.messages_routed_ \in Nat /\ stage2.routing_errors_ \in Nat
        /\ get_total_messages_processed \in Nat /\ get_total_messages_processed < CounterRange
        /\ get_total_messages_processed = Held(processor_queues) + InRouter(stage2) + stage2.messages_routed_ + stage2.routing_errors_
    <3>1. FiguresOK /\ CountersBalance
      BY <1>0, FiguresHold DEF AccountInv
    <3>2. CounterRange \in Nat
      BY BoundFacts
    <3>. QED  BY ONLY <3>1, <3>2 DEF FiguresOK, CountersBalance
  <2>2. OneDrop("stage2") /\ Held(processor_queues) + InRouter(stage2) > 0
    <3>1. CASE S2!PopUnroutable
      <4>1. PICK i \in Processors, m \in Message :
              /\ processor_queues[i] # <<>> /\ m = Head(processor_queues[i])
              /\ processor_queues' = Popped(processor_queues, i)
              /\ stage2.message = NoMessage
              /\ \/ stage2'.message = m /\ UNCHANGED lost
                 \/ /\ stage2'.message = NoMessage
                    /\ lost' = lost \union {[message |-> m, at |-> "stage2"]}
        BY <3>1, Stage2Pops
      <4>2. stage2'.message = stage2.message
        BY <1>0, <3>1 DEF S2!PopUnroutable, S2!Object
      <4>3. lost' = lost \union {[message |-> m, at |-> "stage2"]}
        BY ONLY <4>1, <4>2, NoMessageAssumption, m \in Message
      <4>4. \A l \in lost : l.message # m
        BY <4>1, HandsAreNotLost
      <4>5. OneDrop("stage2")
        BY ONLY <1>0, <4>3, <4>4, DroppedHere
      <4>6. Held(processor_queues) = Held(processor_queues') + 1
        BY ONLY <1>0, <4>1, i \in Processors, HeldPop
      <4>7. Held(processor_queues') \in Nat
        <5>1. processor_queues' \in [Processors -> Seq(Message)]
          BY ONLY <1>0, <4>1, i \in Processors, PopFacts
        <5>. QED  BY ONLY <1>0, <5>1, HeldFacts
      <4>. QED  BY ONLY <2>1, <4>5, <4>6, <4>7
    <3>2. CASE S2!GiveUp
      <4>1. stage2.message \in Message
        BY <3>2, Stage2Frees
      <4>2. PICK m \in Message : m = stage2.message
        BY <4>1
      <4>3. /\ lost' = lost \union {[message |-> m, at |-> "stage2"]}
            /\ stage2.pc = "push"
        BY <3>2, <4>2 DEF S2!GiveUp
      <4>4. \A l \in lost : l.message # m
        BY <4>2, HandsAreNotLost
      <4>5. OneDrop("stage2")
        BY ONLY <1>0, <4>3, <4>4, DroppedHere
      <4>6. InRouter(stage2) = 1
        BY <4>3 DEF InRouter
      <4>. QED  BY ONLY <2>1, <4>5, <4>6
    <3>. QED  BY <1>2, <3>1, <3>2
  <2>3. stage2'.routing_errors_ = Bumped(stage2.routing_errors_)
    <3>1. CASE S2!PopUnroutable
      BY <1>0, <3>1 DEF S2!PopUnroutable, S2!Object, S2!Incremented, Bumped
    <3>2. CASE S2!GiveUp
      BY <1>0, <3>2 DEF S2!GiveUp, S2!Object, S2!Incremented, Bumped
    <3>. QED  BY <1>2, <3>1, <3>2
  <2>4. stage2.routing_errors_ + 1 < CounterRange
    BY ONLY <2>1, <2>2, BoundFacts
  <2>5. stage2'.routing_errors_ = stage2.routing_errors_ + 1
    BY <2>1, <2>3, <2>4, NoWrap DEF Bumped
  <2>. QED  BY <2>2, <2>5 DEF ErrorBooks
<1>. QED  BY <1>1, <1>2 DEF Stage2Moves, S2!routing_loop

-----------------------------------------------------------------------------
(* What the producers made *)

Made(f) == Total([j \in Producers |-> f[j].next_sequence_ - 1])
Produced(f) == Total([j \in Producers |-> f[j].messages_produced_])

\* What a step does to the messages numbered (n), counted (c), in the
\* producers' hands (h) and dropped by them.
ProducersCount(n, n2, c, c2, h, h2) ==
  \/ n2 = n /\ c2 = c /\ h2 = h /\ NoDrop("producer")
  \/ n2 = n + 1 /\ c2 = c /\ h2 = h + 1 /\ NoDrop("producer")
  \/ n2 = n /\ c2 = c + 1 /\ h = h2 + 1 /\ NoDrop("producer")
  \/ n2 = n /\ c2 = c /\ h = h2 + 1 /\ OneDrop("producer")

\* A producer counts what it has numbered, but not what it holds or drops.
LEMMA ProducerCounts ==
  ASSUME TypeInv, TypeInv', PlaceInv, IsFiniteSet(lost), NEW i \in Producers, ProducerMoves(i)
  PROVE  ProducersCount(Made(producer), Made(producer'), Produced(producer), Produced(producer'),
                        Holding(producer), Holding(producer'))
<1>0. /\ producer \in [Producers -> P!Object] /\ producer' \in [Producers -> P!Object]
      /\ IsFiniteSet(Producers)
      /\ DOMAIN producer = Producers /\ DOMAIN producer' = Producers
  BY FiniteIds DEF TypeInv, ObjectsOK, ProducersOK
<1>1. /\ \A j \in Producers : producer[j].pc = "push" <=> producer[j].message # NoMessage
      /\ \A j \in Producers : producer'[j].pc = "push" <=> producer'[j].message # NoMessage
  BY DEF TypeInv, ObjectsOK, ProducersOK
<1>. DEFINE n == [j \in Producers |-> producer[j].next_sequence_ - 1]
            n2 == [j \in Producers |-> producer'[j].next_sequence_ - 1]
            c == [j \in Producers |-> producer[j].messages_produced_]
            c2 == [j \in Producers |-> producer'[j].messages_produced_]
<1>2. /\ Made(producer) = Total(n) /\ Made(producer') = Total(n2)
      /\ Produced(producer) = Total(c) /\ Produced(producer') = Total(c2)
  BY DEF Made, Produced
<1>3. /\ n \in [Producers -> Nat] /\ n2 \in [Producers -> Nat]
      /\ c \in [Producers -> Nat] /\ c2 \in [Producers -> Nat]
  <2>1. \A j \in Producers : /\ producer[j].next_sequence_ \in 1 .. MaxMessages + 1
                             /\ producer'[j].next_sequence_ \in 1 .. MaxMessages + 1
                             /\ producer[j].messages_produced_ \in 0 .. MaxMessages
                             /\ producer'[j].messages_produced_ \in 0 .. MaxMessages
    BY <1>0 DEF P!Object
  <2>. QED  BY <2>1, BoundFacts
<1>4. /\ (\A j \in Producers : producer'[j].pc = "push" <=> producer[j].pc = "push")
           => Holding(producer') = Holding(producer)
      /\ \A k \in Producers :
           producer[k].pc # "push" /\ producer'[k].pc = "push"
             /\ (\A j \in Producers \ {k} : producer'[j].pc = producer[j].pc)
             => Holding(producer') = Holding(producer) + 1
      /\ \A k \in Producers :
           producer'[k].pc # "push" /\ producer[k].pc = "push"
             /\ (\A j \in Producers \ {k} : producer[j].pc = producer'[j].pc)
             => Holding(producer) = Holding(producer') + 1
  BY ONLY <1>0, HoldingFacts
<1>5. CASE P!Start(i) \/ P!StartFails(i) \/ P!Stop(i) \/ P!Begin(i) \/ P!Retry(i) \/ P!Exit(i)
  <2>1. /\ UNCHANGED lost
        /\ \A j \in Producers : /\ producer'[j].message = producer[j].message
                                /\ producer'[j].next_sequence_ = producer[j].next_sequence_
    BY <1>5, ProducerKeeps
  <2>2. \A j \in Producers : producer'[j].messages_produced_ = producer[j].messages_produced_
    <3>1. CASE P!Start(i)  BY <1>0, <3>1 DEF P!Start, P!Object
    <3>2. CASE P!StartFails(i)  BY <1>0, <3>2 DEF P!StartFails, P!Object
    <3>3. CASE P!Stop(i)  BY <1>0, <3>3 DEF P!Stop, P!Object
    <3>4. CASE P!Begin(i)  BY <1>0, <3>4 DEF P!Begin, P!Object
    <3>5. CASE P!Retry(i)  BY <1>0, <3>5 DEF P!Retry, P!Object
    <3>6. CASE P!Exit(i)  BY <1>0, <3>6 DEF P!Exit, P!Object
    <3>. QED  BY <1>5, <3>1, <3>2, <3>3, <3>4, <3>5, <3>6
  <2>3. n2 = n /\ c2 = c
    BY <2>1, <2>2
  <2>4. Holding(producer') = Holding(producer)
    BY ONLY <1>1, <1>4, <2>1
  <2>5. NoDrop("producer")
    BY <2>1, NotDroppedHere
  <2>. HIDE DEF n, n2, c, c2
  <2>. QED  BY ONLY <1>2, <2>3, <2>4, <2>5 DEF ProducersCount
<1>6. CASE P!Generate(i)
  <2>1. PICK t \in MsgTypes :
          producer' = [producer EXCEPT
            ![i].message = P!NewMessage(t, i, producer[i].next_sequence_),
            ![i].next_sequence_ = @ + 1,
            ![i].retry = 0,
            ![i].pc = "push"]
    BY <1>6 DEF P!Generate
  <2>2. /\ producer'[i].next_sequence_ = producer[i].next_sequence_ + 1
        /\ producer'[i].messages_produced_ = producer[i].messages_produced_
        /\ producer[i].pc # "push" /\ producer'[i].pc = "push"
        /\ \A j \in Producers \ {i} : producer'[j] = producer[j]
        /\ UNCHANGED lost
    BY <1>0, <1>6, <2>1 DEF P!Generate, P!Object
  <2>3. c2 = c
    BY <2>2
  <2>4. n2[i] = n[i] + 1 /\ \A j \in Producers \ {i} : n2[j] = n[j]
    <3>1. producer[i].next_sequence_ \in Int
      BY <1>0, BoundFacts DEF P!Object
    <3>. QED  BY <2>2, <3>1
  <2>5. Holding(producer') = Holding(producer) + 1
    BY ONLY <1>4, <2>2, i \in Producers
  <2>6. NoDrop("producer")
    BY <2>2, NotDroppedHere
  <2>. HIDE DEF n, n2, c, c2
  <2>7. Grows(Producers, n, n2, i)
    BY <1>3, <2>4 DEF Grows
  <2>8. Total(n2) = Total(n) + 1
    BY ONLY <1>0, <2>7, TotalGrows
  <2>. QED  BY ONLY <1>2, <2>3, <2>5, <2>6, <2>8 DEF ProducersCount
<1>7. CASE P!Send(i) \/ P!GiveUp(i)
  <2>1. /\ producer[i].message \in Message /\ producer'[i].message = NoMessage
        /\ \A j \in Producers : producer'[j].next_sequence_ = producer[j].next_sequence_
        /\ \A j \in Producers \ {i} : producer'[j] = producer[j]
    BY <1>7, ProducerFrees
  <2>2. producer[i].pc = "push" /\ producer'[i].pc # "push"
    BY <1>1, <2>1, NoMessageAssumption
  <2>3. Holding(producer) = Holding(producer') + 1
    BY ONLY <1>4, <2>1, <2>2, i \in Producers
  <2>4. n2 = n
    BY <2>1
  <2>5. CASE P!Send(i)
    <3>1. producer'[i].messages_produced_ = producer[i].messages_produced_ + 1 /\ UNCHANGED lost
      BY <1>0, <2>5 DEF P!Send, P!Object
    <3>2. c2[i] = c[i] + 1 /\ \A j \in Producers \ {i} : c2[j] = c[j]
      BY <2>1, <3>1
    <3>3. NoDrop("producer")
      BY <3>1, NotDroppedHere
    <3>. HIDE DEF n, n2, c, c2
    <3>4. Grows(Producers, c, c2, i)
      BY <1>3, <3>2 DEF Grows
    <3>5. Total(c2) = Total(c) + 1
      BY ONLY <1>0, <3>4, TotalGrows
    <3>. QED  BY ONLY <1>2, <2>3, <2>4, <3>3, <3>5 DEF ProducersCount
  <2>6. CASE P!GiveUp(i)
    <3>1. /\ producer'[i].messages_produced_ = producer[i].messages_produced_
          /\ lost' = lost \union {[message |-> producer[i].message, at |-> "producer"]}
      BY <1>0, <2>6 DEF P!GiveUp, P!Object
    <3>2. c2 = c
      BY <2>1, <3>1
    <3>3. PICK m \in Message : m = producer[i].message
      BY <2>1
    <3>4. \A l \in lost : l.message # m
      BY <3>3, HandsAreNotLost
    <3>5. OneDrop("producer")
      BY ONLY <3>1, <3>3, <3>4, IsFiniteSet(lost), DroppedHere
    <3>. HIDE DEF n, n2, c, c2
    <3>. QED  BY ONLY <1>2, <2>3, <2>4, <3>2, <3>5 DEF ProducersCount
  <2>. QED  BY <1>7, <2>5, <2>6
<1>. QED  BY <1>5, <1>6, <1>7 DEF ProducerMoves, P!producer_loop

\* A strategy counts what it logs.
LEMMA StrategyCounts ==
  ASSUME TypeInv, NEW i \in Strategies, StrategyMoves(i),
         \A s \in Strategies : strategy[s].messages_delivered_ = Len(strategy[s].log)
  PROVE  \A s \in Strategies : strategy'[s].messages_delivered_ = Len(strategy'[s].log)
<1>0. strategy \in [Strategies -> T!Object]
  BY DEF TypeInv, ObjectsOK, StrategiesOK
<1>1. \A s \in Strategies \ {i} : strategy'[s] = strategy[s]
  <2>1. CASE T!Start(i)  BY <1>0, <2>1 DEF T!Start
  <2>2. CASE T!StartFails(i)  BY <1>0, <2>2 DEF T!StartFails
  <2>3. CASE T!Stop(i)  BY <1>0, <2>3 DEF T!Stop
  <2>4. CASE T!Loop(i)  BY <1>0, <2>4 DEF T!Loop
  <2>5. CASE T!Empty(i)  BY <1>0, <2>5 DEF T!Empty
  <2>6. CASE T!Pop(i)  BY <1>0, <2>6 DEF T!Pop
  <2>. QED  BY <2>1, <2>2, <2>3, <2>4, <2>5, <2>6 DEF StrategyMoves, T!strategy_loop
<1>2. strategy'[i].messages_delivered_ = Len(strategy'[i].log)
  <2>1. strategy[i] \in T!Object /\ strategy[i].messages_delivered_ = Len(strategy[i].log)
    BY <1>0
  <2>2. CASE T!Start(i) \/ T!StartFails(i) \/ T!Stop(i) \/ T!Loop(i) \/ T!Empty(i)
    <3>1. /\ strategy'[i].messages_delivered_ = strategy[i].messages_delivered_
          /\ strategy'[i].log = strategy[i].log
      <4>1. CASE T!Start(i)  BY <1>0, <4>1 DEF T!Start, T!Object
      <4>2. CASE T!StartFails(i)  BY <1>0, <4>2 DEF T!StartFails, T!Object
      <4>3. CASE T!Stop(i)  BY <1>0, <4>3 DEF T!Stop, T!Object
      <4>4. CASE T!Loop(i)  BY <1>0, <4>4 DEF T!Loop, T!Object
      <4>5. CASE T!Empty(i)  BY <1>0, <4>5 DEF T!Empty, T!Object
      <4>. QED  BY <2>2, <4>1, <4>2, <4>3, <4>4, <4>5
    <3>. QED  BY <2>1, <3>1
  <2>3. CASE T!Pop(i)
    <3>1. PICK m \in Message : m = Head(stage2_queues[i])
      BY <2>3, StrategyPops
    <3>2. strategy'[i] = T!process_message(strategy[i], m)
      BY <1>0, <2>3, <3>1 DEF T!Pop
    <3>3. /\ T!process_message(strategy[i], m).messages_delivered_ = strategy[i].messages_delivered_ + 1
          /\ T!process_message(strategy[i], m).log = Append(strategy[i].log, m)
      BY <2>1 DEF T!process_message, T!Object
    <3>4. strategy[i].log \in Seq(Message)
      BY <2>1 DEF T!Object
    <3>. QED  BY ONLY <2>1, <3>2, <3>3, <3>4, m \in Message
  <2>. QED  BY <2>2, <2>3 DEF StrategyMoves, T!strategy_loop
<1>. QED  BY <1>1, <1>2

-----------------------------------------------------------------------------
(* The counters are true *)

\* The four parts of CountersAreTrue, as sums and sizes.
TrueParts ==
  /\ stage1.routing_errors_ = DropsIn(lost, "stage1")
  /\ stage2.routing_errors_ = DropsIn(lost, "stage2")
  /\ Produced(producer) + Holding(producer) + DropsIn(lost, "producer") = Made(producer)
  /\ \A s \in Strategies : strategy[s].messages_delivered_ = Len(strategy[s].log)

TruePartsAfter ==
  /\ stage1'.routing_errors_ = DropsIn(lost', "stage1")
  /\ stage2'.routing_errors_ = DropsIn(lost', "stage2")
  /\ Produced(producer') + Holding(producer') + DropsIn(lost', "producer") = Made(producer')
  /\ \A s \in Strategies : strategy'[s].messages_delivered_ = Len(strategy'[s].log)

LEMMA PartsAreTrue == TypeInv => (CountersAreTrue <=> TrueParts)
<1>. SUFFICES ASSUME TypeInv  PROVE  CountersAreTrue <=> TrueParts
  OBVIOUS
<1>1. \A s \in Strategies : Logs[s] = strategy[s].log
  BY DEF Logs
<1>2. /\ get_total_messages_produced = Produced(producer)
      /\ Total([i \in Producers |-> producer[i].next_sequence_ - 1]) = Made(producer)
      /\ \A at : LostAt(at) = DropsIn(lost, at)
  BY DEF get_total_messages_produced, Produced, Made, LostAt, DropsIn
<1>. QED  BY ONLY <1>1, <1>2 DEF CountersAreTrue, TrueParts

LEMMA PartsAfter == TruePartsAfter <=> TrueParts'
BY DEF TrueParts, TruePartsAfter, Produced, Made, Holding, DropsIn

\* The figures are numbers.
LEMMA CountsAreNumbers ==
  ASSUME TypeInv, IsFiniteSet(lost)
  PROVE  /\ Produced(producer) \in Nat /\ Made(producer) \in Nat /\ Holding(producer) \in Nat
         /\ \A at : DropsIn(lost, at) \in Nat
         /\ stage1.routing_errors_ \in Nat /\ stage2.routing_errors_ \in Nat
<1>0. producer \in [Producers -> P!Object] /\ DOMAIN producer = Producers /\ IsFiniteSet(Producers)
  BY FiniteIds DEF TypeInv, ObjectsOK, ProducersOK
<1>1. /\ [j \in Producers |-> producer[j].next_sequence_ - 1] \in [Producers -> Nat]
      /\ [j \in Producers |-> producer[j].messages_produced_] \in [Producers -> Nat]
  <2>1. \A j \in Producers : /\ producer[j].next_sequence_ \in 1 .. MaxMessages + 1
                             /\ producer[j].messages_produced_ \in 0 .. MaxMessages
    BY <1>0 DEF P!Object
  <2>. QED  BY <2>1, BoundFacts
<1>2. Produced(producer) \in Nat /\ Made(producer) \in Nat
  BY <1>0, <1>1, TotalFacts DEF Produced, Made
<1>3. Holding(producer) \in Nat
  BY ONLY <1>0, HoldingFacts
<1>4. \A at : DropsIn(lost, at) \in Nat
  BY ONLY IsFiniteSet(lost), LostFacts
<1>5. stage1.routing_errors_ \in Nat /\ stage2.routing_errors_ \in Nat
  BY FiguresHold DEF FiguresOK
<1>. QED  BY <1>2, <1>3, <1>4, <1>5

\* Every step keeps the counters true.
LEMMA TrueStep ==
  ASSUME TypeInv, PlaceInv, AccountInv, TrueParts, [Next]_vars
  PROVE  TruePartsAfter
<1>0. TypeInv' /\ IsFiniteSet(lost)
  BY TypeStep DEF AccountInv
<1>1. /\ Produced(producer) \in Nat /\ Made(producer) \in Nat /\ Holding(producer) \in Nat
      /\ \A at : DropsIn(lost, at) \in Nat
      /\ stage1.routing_errors_ \in Nat /\ stage2.routing_errors_ \in Nat
  BY <1>0, CountsAreNumbers
<1>2. ASSUME NEW i \in Producers, ProducerMoves(i)  PROVE  TruePartsAfter
  <2>1. ProducersCount(Made(producer), Made(producer'), Produced(producer), Produced(producer'),
                       Holding(producer), Holding(producer'))
    BY <1>0, <1>2, ProducerCounts
  <2>2. UNCHANGED <<stage1, stage2, strategy>>
    BY <1>2 DEF ProducerMoves, AtProducers
  <2>3. NoDrop("stage1") /\ NoDrop("stage2")
    <3>1. \/ UNCHANGED lost
          \/ lost' = lost \union {[message |-> producer[i].message, at |-> "producer"]}
      BY <1>2 DEF ProducerMoves, P!producer_loop, P!Start, P!StartFails, P!Stop, P!Begin,
                  P!Generate, P!Retry, P!GiveUp, P!Exit, P!Send
    <3>. QED  BY <1>0, <3>1, NotDroppedHere
  <2>4. Holding(producer') \in Nat
    <3>1. DOMAIN producer' = Producers
      BY <1>0 DEF TypeInv, ObjectsOK, ProducersOK
    <3>. QED  BY ONLY <3>1, FiniteIds, HoldingFacts
  <2>5. Produced(producer') + Holding(producer') + DropsIn(lost', "producer") = Made(producer')
    BY ONLY <1>1, <2>1, <2>4, TrueParts DEF TrueParts, ProducersCount, NoDrop, OneDrop
  <2>. QED  BY ONLY <2>2, <2>3, <2>5, TrueParts DEF TrueParts, TruePartsAfter, NoDrop
<1>3. ASSUME Stage1Moves  PROVE  TruePartsAfter
  <2>1. ErrorBooks(stage1, stage1', "stage1")
    BY <1>3, Stage1Counts
  <2>2. UNCHANGED <<producer, stage2, strategy>>
    BY <1>3 DEF Stage1Moves, AtStage1
  <2>3. NoDrop("producer") /\ NoDrop("stage2")
    <3>1. \/ UNCHANGED lost
          \/ \E m : lost' = lost \union {[message |-> m, at |-> "stage1"]}
      BY <1>3 DEF Stage1Moves, S1!routing_loop, S1!Start, S1!StartFails, S1!Stop, S1!Loop,
                  S1!Pop, S1!PopUnroutable, S1!NextQueue, S1!Send, S1!Retry, S1!GiveUp
    <3>. QED  BY <1>0, <3>1, NotDroppedHere
  <2>. QED  BY ONLY <1>1, <2>1, <2>2, <2>3, TrueParts
            DEF TrueParts, TruePartsAfter, ErrorBooks, NoDrop, OneDrop
<1>4. ASSUME NEW i \in Processors, ProcessorMoves(i)  PROVE  TruePartsAfter
  <2>1. UNCHANGED <<producer, stage1, stage2, strategy>>
    BY <1>4 DEF ProcessorMoves, AtProcessors
  <2>2. NoDrop("producer") /\ NoDrop("stage1") /\ NoDrop("stage2")
    <3>1. \/ UNCHANGED lost
          \/ \E m : lost' = lost \union {[message |-> m, at |-> "processor"]}
      BY <1>4 DEF ProcessorMoves, W!processor_loop, W!Start, W!StartFails, W!Stop, W!Loop,
                  W!Pop, W!Empty, W!Send, W!Retry, W!GiveUp
    <3>. QED  BY <1>0, <3>1, NotDroppedHere
  <2>. QED  BY ONLY <2>1, <2>2, TrueParts DEF TrueParts, TruePartsAfter, NoDrop
<1>5. ASSUME Stage2Moves  PROVE  TruePartsAfter
  <2>1. ErrorBooks(stage2, stage2', "stage2")
    BY <1>5, Stage2Counts
  <2>2. UNCHANGED <<producer, stage1, strategy>>
    BY <1>5 DEF Stage2Moves, AtStage2
  <2>3. NoDrop("producer") /\ NoDrop("stage1")
    <3>1. \/ UNCHANGED lost
          \/ \E m : lost' = lost \union {[message |-> m, at |-> "stage2"]}
      BY <1>5 DEF Stage2Moves, S2!routing_loop, S2!Start, S2!StartFails, S2!Stop, S2!Loop,
                  S2!Pop, S2!PopUnroutable, S2!NextQueue, S2!Send, S2!Retry, S2!GiveUp
    <3>. QED  BY <1>0, <3>1, NotDroppedHere
  <2>. QED  BY ONLY <1>1, <2>1, <2>2, <2>3, TrueParts
            DEF TrueParts, TruePartsAfter, ErrorBooks, NoDrop, OneDrop
<1>6. ASSUME NEW i \in Strategies, StrategyMoves(i)  PROVE  TruePartsAfter
  <2>1. UNCHANGED <<producer, stage1, stage2, lost>>
    BY <1>6 DEF StrategyMoves, AtStrategies
  <2>2. \A s \in Strategies : strategy[s].messages_delivered_ = Len(strategy[s].log)
    BY DEF TrueParts
  <2>3. \A s \in Strategies : strategy'[s].messages_delivered_ = Len(strategy'[s].log)
    BY ONLY <1>6, <2>2, TypeInv, i \in Strategies, StrategyCounts
  <2>. QED  BY ONLY <2>1, <2>3, TrueParts DEF TrueParts, TruePartsAfter
<1>7. ASSUME UNCHANGED <<objects, queues, lost>>  PROVE  TruePartsAfter
  <2>1. UNCHANGED <<producer, stage1, stage2, strategy, lost>>
    BY <1>7 DEF objects
  <2>. QED  BY ONLY <2>1, TrueParts DEF TrueParts, TruePartsAfter
<1>. QED  BY <1>2, <1>3, <1>4, <1>5, <1>6, <1>7, OneMoves

\* At the start nothing is counted and nothing has happened.
LEMMA TrueInit == Init => TrueParts
<1>. SUFFICES ASSUME Init  PROVE  TrueParts
  OBVIOUS
<1>1. ASSUME NEW f, f = [i \in Producers |-> 0]  PROVE  Total(f) = 0
  BY <1>1, FiniteIds, TotalFacts
<1>2. /\ [i \in Producers |-> producer[i].messages_produced_] = [i \in Producers |-> 0]
      /\ [i \in Producers |-> producer[i].next_sequence_ - 1] = [i \in Producers |-> 0]
  BY DEF Init, P!Init
<1>3. Produced(producer) = 0 /\ Made(producer) = 0
  BY <1>1, <1>2 DEF Produced, Made
<1>4. Holding(producer) = 0 /\ \A at : DropsIn(lost, at) = 0
  <2>1. {i \in DOMAIN producer : producer[i].pc = "push"} = {}
    BY DEF Init, P!Init
  <2>2. \A at : {l \in lost : l.at = at} = {}
    BY DEF Init
  <2>. QED  BY <2>1, <2>2, FS_EmptySet DEF Holding, DropsIn
<1>5. /\ stage1.routing_errors_ = 0 /\ stage2.routing_errors_ = 0
      /\ \A s \in Strategies : strategy[s].messages_delivered_ = 0 /\ strategy[s].log = <<>>
  BY DEF Init, S1!Init, S2!Init, T!Init
<1>. QED  BY <1>3, <1>4, <1>5 DEF TrueParts

\* What the counters say is what happened, for every configuration and every
\* interleaving: the routers' errors are the messages they gave up on, what a
\* producer has counted is what it numbered and neither holds nor dropped, and
\* a strategy's figure is the number of messages it was given.
THEOREM CountersTellTheTruth == Spec => []CountersAreTrue
<1>1. Init => TypeInv /\ PlaceInv /\ AccountInv /\ TrueParts
  BY TypeInit, PlaceInit, AccountInit, TrueInit
<1>2. TypeInv /\ PlaceInv /\ AccountInv /\ TrueParts /\ [Next]_vars
        => TypeInv' /\ PlaceInv' /\ AccountInv' /\ TrueParts'
  BY TypeStep, PlaceStep, AccountStep, TrueStep, PartsAfter
<1>3. TypeInv /\ TrueParts => CountersAreTrue
  BY PartsAreTrue
<1>. QED  BY <1>1, <1>2, <1>3, PTL DEF Spec

-----------------------------------------------------------------------------
(* Joins *)

(***************************************************************************)
(* A thread main joins has been told to stop, and the threads that feed it *)
(* have ended.  So what it still has to do only gets less: a message is    *)
(* worth more steps before a pop than after it, an attempt more than the   *)
(* next one, and a router's place in its scan more than the place after.   *)
(***************************************************************************)

\* How many input queues a router scans.
LEMMA CountIds == Cardinality(Producers) = NP /\ Cardinality(Processors) = NW
<1>1. 0 \in Int /\ NP - 1 \in Int /\ NW - 1 \in Int
  BY SizeFacts
<1>2. Cardinality(0 .. NP - 1) = NP /\ Cardinality(0 .. NW - 1) = NW
  BY <1>1, SizeFacts, FS_Interval
<1>. QED  BY <1>2, SizeFacts

\* The work left, thread by thread, before and after a step.
WorkParts ==
  /\ \A i : WorkLeft(<<"producer", i>>)
              = LoopLeft(producer[i]) + TriesLeft(producer[i], ProducerTries)
  /\ WorkLeft(<<"stage1", 0>>) = RouterWork(stage1, producer_queues, Producers)
  /\ \A i : WorkLeft(<<"processor", i>>)
              = LoopLeft(processor[i]) + TriesLeft(processor[i], PushTries)
                  + Len(stage1_queues[i]) * (PushTries + 1)
  /\ WorkLeft(<<"stage2", 0>>) = RouterWork(stage2, processor_queues, Processors)
  /\ \A i : WorkLeft(<<"strategy", i>>) = LoopLeft(strategy[i]) + Len(stage2_queues[i])

LEMMA WorkFacts == WorkParts
BY DEF WorkLeft, WorkParts

LEMMA WorkFactsAfter == WorkParts'
BY WorkFacts, PTL

\* What each message still queued stands for.
LEMMA OneLess ==
  ASSUME NEW h \in Nat, NEW k \in Nat, h = k + 1, NEW c \in Nat
  PROVE  h * c = k * c + c /\ h * c \in Nat /\ k * c \in Nat
OBVIOUS

\* A producer told to stop finishes the message it has in hand and leaves.
LEMMA ProducerWork ==
  ASSUME TypeInv, NEW i \in Producers, ~ producer[i].running_, ProducerStep(i)
  PROVE  LoopLeft(producer'[i]) + TriesLeft(producer'[i], ProducerTries)
           < LoopLeft(producer[i]) + TriesLeft(producer[i], ProducerTries)
<1>1. /\ producer \in [Producers -> P!Object] /\ producer[i].retry \in 0 .. ProducerTries - 1
      /\ ProducerTries \in Nat \ {0}
  BY BoundFacts DEF TypeInv, ObjectsOK, ProducersOK, P!Object
<1>2. P!producer_loop(i)
  BY DEF ProducerStep
<1>. USE DEF LoopLeft, TriesLeft, P!Object
<1>3. CASE P!Begin(i)  BY <1>1, <1>3 DEF P!Begin
<1>4. CASE P!Generate(i)  BY <1>4 DEF P!Generate
<1>5. CASE P!Send(i)  BY <1>1, <1>5 DEF P!Send
<1>6. CASE P!Retry(i)  BY <1>1, <1>6 DEF P!Retry
<1>7. CASE P!GiveUp(i)  BY <1>1, <1>7 DEF P!GiveUp
<1>8. CASE P!Exit(i)  BY <1>1, <1>8 DEF P!Exit
<1>. QED  BY <1>2, <1>3, <1>4, <1>5, <1>6, <1>7, <1>8 DEF P!producer_loop

\* A processor told to stop, with nobody to fill its queue.
LEMMA ProcessorWork ==
  ASSUME TypeInv, NEW i \in Processors, ~ processor[i].running_, ProcessorStep(i)
  PROVE  LoopLeft(processor'[i]) + TriesLeft(processor'[i], PushTries)
             + Len(stage1_queues'[i]) * (PushTries + 1)
           < LoopLeft(processor[i]) + TriesLeft(processor[i], PushTries)
               + Len(stage1_queues[i]) * (PushTries + 1)
<1>1. /\ processor \in [Processors -> W!Object] /\ processor[i].retry \in 0 .. PushTries - 1
      /\ stage1_queues \in [Processors -> Seq(Message)]
      /\ PushTries \in Nat \ {0} /\ PushTries + 1 \in Nat
  BY BoundFacts DEF TypeInv, ObjectsOK, ProcessorsOK, W!Object, QueuesOK
<1>2. W!processor_loop(i)
  BY DEF ProcessorStep
<1>3. CASE W!Pop(i)
  <2>1. Len(stage1_queues[i]) \in Nat /\ Len(stage1_queues'[i]) \in Nat
        /\ Len(stage1_queues[i]) = Len(stage1_queues'[i]) + 1
    <3>1. stage1_queues[i] \in Seq(Message) /\ stage1_queues[i] # <<>>
          /\ stage1_queues'[i] = Tail(stage1_queues[i])
      BY <1>1, <1>3 DEF W!Pop
    <3>. QED  BY ONLY <3>1
  <2>2. /\ LoopLeft(processor[i]) = 2 /\ TriesLeft(processor[i], PushTries) = 0
        /\ LoopLeft(processor'[i]) = 2 /\ TriesLeft(processor'[i], PushTries) = PushTries
    BY <1>1, <1>3 DEF W!Pop, W!Object, LoopLeft, TriesLeft
  <2>3. /\ Len(stage1_queues[i]) * (PushTries + 1)
             = Len(stage1_queues'[i]) * (PushTries + 1) + (PushTries + 1)
        /\ Len(stage1_queues'[i]) * (PushTries + 1) \in Nat
    <3>. DEFINE h == Len(stage1_queues[i])
                k == Len(stage1_queues'[i])
                c == PushTries + 1
    <3>1. h \in Nat /\ k \in Nat /\ h = k + 1 /\ c \in Nat
      BY <1>1, <2>1
    <3>. HIDE DEF h, k, c
    <3>2. h * c = k * c + c /\ k * c \in Nat
      BY ONLY <3>1, OneLess
    <3>. QED  BY ONLY <3>2 DEF h, k, c
  <2>. QED  BY ONLY <1>1, <2>2, <2>3
<1>4. CASE ~ W!Pop(i)
  <2>1. UNCHANGED stage1_queues /\ Len(stage1_queues[i]) * (PushTries + 1) \in Nat
    <3>1. UNCHANGED stage1_queues
      BY <1>2, <1>4 DEF W!processor_loop, W!Loop, W!Empty, W!Send, W!Retry, W!GiveUp
    <3>2. Len(stage1_queues[i]) \in Nat
      BY <1>1
    <3>. QED  BY <1>1, <3>1, <3>2
  <2>2. LoopLeft(processor'[i]) + TriesLeft(processor'[i], PushTries)
          < LoopLeft(processor[i]) + TriesLeft(processor[i], PushTries)
    <3>. USE DEF LoopLeft, TriesLeft, W!Object
    <3>1. CASE W!Loop(i)  BY <1>1, <3>1 DEF W!Loop
    <3>2. CASE W!Empty(i)  BY <1>1, <3>2 DEF W!Empty
    <3>3. CASE W!Send(i)  BY <1>1, <3>3 DEF W!Send
    <3>4. CASE W!Retry(i)  BY <1>1, <3>4 DEF W!Retry
    <3>5. CASE W!GiveUp(i)  BY <1>1, <3>5 DEF W!GiveUp
    <3>. QED  BY <1>2, <1>4, <3>1, <3>2, <3>3, <3>4, <3>5 DEF W!processor_loop
  <2>3. /\ LoopLeft(processor[i]) \in Int /\ TriesLeft(processor[i], PushTries) \in Int
        /\ LoopLeft(processor'[i]) \in Int /\ TriesLeft(processor'[i], PushTries) \in Int
    <3>1. /\ LoopLeft(processor[i]) \in Int /\ LoopLeft(processor'[i]) \in Int
          /\ TriesLeft(processor[i], PushTries) \in Int
      BY <1>1 DEF LoopLeft, TriesLeft
    <3>2. TriesLeft(processor'[i], PushTries) \in Int
      <4>1. processor'[i].retry \in Int
        BY <1>1, <1>2, <1>4 DEF W!processor_loop, W!Loop, W!Empty, W!Send, W!Retry, W!GiveUp, W!Object
      <4>. QED  BY <1>1, <4>1 DEF TriesLeft
    <3>. QED  BY <3>1, <3>2
  <2>. QED  BY ONLY <2>1, <2>2, <2>3
<1>. QED  BY <1>3, <1>4

\* A strategy told to stop.
LEMMA StrategyWork ==
  ASSUME TypeInv, NEW i \in Strategies, ~ strategy[i].running_, StrategyStep(i)
  PROVE  LoopLeft(strategy'[i]) + Len(stage2_queues'[i])
           < LoopLeft(strategy[i]) + Len(stage2_queues[i])
<1>1. /\ strategy \in [Strategies -> T!Object] /\ stage2_queues \in [Strategies -> Seq(Message)]
      /\ stage2_queues[i] \in Seq(Message)
  BY DEF TypeInv, ObjectsOK, StrategiesOK, QueuesOK
<1>2. Len(stage2_queues[i]) \in Nat
  BY ONLY <1>1
<1>3. CASE T!Loop(i)
  BY <1>1, <1>2, <1>3 DEF T!Loop, LoopLeft, T!Object
<1>4. CASE T!Empty(i)
  BY <1>1, <1>2, <1>4 DEF T!Empty, LoopLeft, T!Object
<1>5. CASE T!Pop(i)
  <2>1. strategy'[i].pc = strategy[i].pc
    BY <1>1, <1>5 DEF T!Pop, T!process_message, T!Object
  <2>2. LoopLeft(strategy'[i]) = LoopLeft(strategy[i]) /\ LoopLeft(strategy[i]) \in Nat
    BY <2>1 DEF LoopLeft
  <2>3. stage2_queues[i] # <<>> /\ stage2_queues'[i] = Tail(stage2_queues[i])
    BY <1>1, <1>5 DEF T!Pop
  <2>4. Len(Tail(stage2_queues[i])) = Len(stage2_queues[i]) - 1
    BY ONLY <1>1, <2>3
  <2>. QED  BY ONLY <1>2, <2>2, <2>3, <2>4
<1>. QED  BY <1>3, <1>4, <1>5 DEF StrategyStep, T!strategy_loop

\* The stage 1 router told to stop, with nobody to fill its queues, ends the scan
\* it is in; the loop is then left.
LEMMA Stage1Work ==
  ASSUME TypeInv, ~ stage1.running_, Stage1Step
  PROVE  RouterWork(stage1, producer_queues, Producers)' < RouterWork(stage1, producer_queues, Producers)
<1>1. /\ stage1 \in S1!Object /\ stage1.retry \in 0 .. PushTries - 1
      /\ stage1.cursor \in 0 .. Cardinality(Producers) - 1 /\ Cardinality(Producers) \in Nat
      /\ producer_queues \in [Producers -> Seq(Message)]
      /\ PushTries \in Nat \ {0} /\ PushTries + 1 \in Nat
  BY BoundFacts, CountIds, SizeFacts DEF TypeInv, ObjectsOK, Stage1OK, S1!Object, QueuesOK
<1>2. S1!routing_loop
  BY DEF Stage1Step
<1>3. stage1.cursor \in Producers /\ IsFiniteSet(Producers)
  BY <1>1, FiniteIds DEF S1!Object
<1>. DEFINE h == Held(producer_queues)
            k == Held(producer_queues')
            c == PushTries + 1
<1>4. h \in Nat /\ c \in Nat
  BY <1>1, <1>3, HeldFacts
<1>5. CASE S1!Pop \/ S1!PopUnroutable
  <2>1. h = k + 1 /\ k \in Nat
    <3>1. producer_queues[stage1.cursor] # <<>> /\ producer_queues' = Popped(producer_queues, stage1.cursor)
      BY <1>5 DEF S1!Pop, S1!PopUnroutable, Popped
    <3>2. h = k + 1
      BY ONLY <1>1, <1>3, <3>1, HeldPop
    <3>3. producer_queues' \in [Producers -> Seq(Message)]
      BY ONLY <1>1, <1>3, <3>1, PopFacts
    <3>4. k \in Nat
      BY ONLY <1>3, <3>3, HeldFacts
    <3>. QED  BY <3>2, <3>4
  <2>2. /\ LoopLeft(stage1) = 2 /\ TriesLeft(stage1, PushTries) = 0
        /\ LoopLeft(stage1') = 2 /\ TriesLeft(stage1', PushTries) \in {0, PushTries}
        /\ ScanLeft(stage1', Producers) = ScanLeft(stage1, Producers) /\ ScanLeft(stage1, Producers) \in Int
    <3>1. /\ stage1.pc = "scan" /\ stage1'.cursor = stage1.cursor
          /\ \/ stage1'.pc = "push" /\ stage1'.retry = 0
             \/ stage1'.pc = "scan"
      BY <1>1, <1>5 DEF S1!Pop, S1!PopUnroutable, S1!Object
    <3>2. ScanLeft(stage1', Producers) = ScanLeft(stage1, Producers) /\ ScanLeft(stage1, Producers) \in Int
      BY ONLY <1>1, <3>1 DEF ScanLeft
    <3>3. TriesLeft(stage1', PushTries) \in {0, PushTries} /\ TriesLeft(stage1, PushTries) = 0
      BY ONLY <1>1, <3>1 DEF TriesLeft
    <3>. QED  BY <3>1, <3>2, <3>3 DEF LoopLeft
  <2>. HIDE DEF h, k
  <2>3. h * c = k * c + c /\ k * c \in Nat
    <3>. HIDE DEF c
    <3>. QED  BY ONLY <1>4, <2>1, OneLess
  <2>4. h * c = k * c + (PushTries + 1)
    BY <2>3
  <2>5. LoopLeft(stage1') + ScanLeft(stage1', Producers) + TriesLeft(stage1', PushTries) + k * c
          < LoopLeft(stage1) + ScanLeft(stage1, Producers) + TriesLeft(stage1, PushTries) + h * c
    <3>. DEFINE y == k * c
    <3>1. y \in Nat /\ h * c = y + (PushTries + 1)
      BY <2>3, <2>4
    <3>. HIDE DEF y, c
    <3>. QED  BY ONLY <1>1, <2>2, <3>1 DEF y
  <2>. QED  BY <2>5 DEF RouterWork, h, k
<1>6. CASE ~ S1!Pop /\ ~ S1!PopUnroutable
  <2>1. UNCHANGED producer_queues
    BY <1>2, <1>6 DEF S1!routing_loop, S1!Loop, S1!NextQueue, S1!Send, S1!Retry,
                      S1!GiveUp
  <2>. DEFINE y == h * c
  <2>2. y \in Nat
    <3>. HIDE DEF h, c
    <3>. QED  BY <1>4
  <2>. HIDE DEF y
  <2>3. LoopLeft(stage1') + ScanLeft(stage1', Producers) + TriesLeft(stage1', PushTries) + y
          < LoopLeft(stage1) + ScanLeft(stage1, Producers) + TriesLeft(stage1, PushTries) + y
    <3>. USE DEF LoopLeft, TriesLeft, ScanLeft, S1!Object
    <3>1. CASE S1!Loop  BY <1>1, <2>2, <3>1 DEF S1!Loop
    <3>2. CASE S1!NextQueue
      <4>1. CASE stage1.cursor + 1 \in Producers
        <5>1. stage1.pc = "scan" /\ stage1'.pc = "scan" /\ stage1'.cursor = stage1.cursor + 1
          BY <1>1, <3>2, <4>1 DEF S1!NextQueue
        <5>. QED  BY ONLY <1>1, <2>2, <5>1 DEF LoopLeft, TriesLeft, ScanLeft
      <4>2. CASE stage1.cursor + 1 \notin Producers
        <5>1. stage1.pc = "scan" /\ stage1'.pc = "loop"
          BY <1>1, <3>2, <4>2 DEF S1!NextQueue
        <5>. QED  BY ONLY <1>1, <2>2, <5>1 DEF LoopLeft, TriesLeft, ScanLeft
      <4>. QED  BY <4>1, <4>2
    <3>3. CASE S1!Send
      <4>1. stage1.pc = "push" /\ stage1'.cursor = stage1.cursor /\ stage1'.pc = "scan"
        BY <1>1, <3>3 DEF S1!Send
      <4>. QED  BY ONLY <1>1, <2>2, <4>1 DEF LoopLeft, TriesLeft, ScanLeft
    <3>4. CASE S1!Retry
      <4>1. stage1.pc = "push" /\ stage1'.cursor = stage1.cursor /\ stage1'.pc = "push" /\ stage1'.retry = stage1.retry + 1
        BY <1>1, <3>4 DEF S1!Retry
      <4>. QED  BY ONLY <1>1, <2>2, <4>1 DEF LoopLeft, TriesLeft, ScanLeft
    <3>5. CASE S1!GiveUp
      <4>1. stage1.pc = "push" /\ stage1'.cursor = stage1.cursor /\ stage1'.pc = "scan"
        BY <1>1, <3>5 DEF S1!GiveUp
      <4>. QED  BY ONLY <1>1, <2>2, <4>1 DEF LoopLeft, TriesLeft, ScanLeft
    <3>. QED  BY <1>2, <1>6, <3>1, <3>2, <3>3, <3>4, <3>5 DEF S1!routing_loop
  <2>. QED  BY <2>1, <2>3 DEF RouterWork, y
<1>. QED  BY <1>5, <1>6

\* The stage 2 router does the same.
LEMMA Stage2Work ==
  ASSUME TypeInv, ~ stage2.running_, Stage2Step
  PROVE  RouterWork(stage2, processor_queues, Processors)' < RouterWork(stage2, processor_queues, Processors)
<1>1. /\ stage2 \in S2!Object /\ stage2.retry \in 0 .. PushTries - 1
      /\ stage2.cursor \in 0 .. Cardinality(Processors) - 1 /\ Cardinality(Processors) \in Nat
      /\ processor_queues \in [Processors -> Seq(Message)]
      /\ PushTries \in Nat \ {0} /\ PushTries + 1 \in Nat
  BY BoundFacts, CountIds, SizeFacts DEF TypeInv, ObjectsOK, Stage2OK, S2!Object, QueuesOK
<1>2. S2!routing_loop
  BY DEF Stage2Step
<1>3. stage2.cursor \in Processors /\ IsFiniteSet(Processors)
  BY <1>1, FiniteIds DEF S2!Object
<1>. DEFINE h == Held(processor_queues)
            k == Held(processor_queues')
            c == PushTries + 1
<1>4. h \in Nat /\ c \in Nat
  BY <1>1, <1>3, HeldFacts
<1>5. CASE S2!Pop \/ S2!PopUnroutable
  <2>1. h = k + 1 /\ k \in Nat
    <3>1. processor_queues[stage2.cursor] # <<>> /\ processor_queues' = Popped(processor_queues, stage2.cursor)
      BY <1>5 DEF S2!Pop, S2!PopUnroutable, Popped
    <3>2. h = k + 1
      BY ONLY <1>1, <1>3, <3>1, HeldPop
    <3>3. processor_queues' \in [Processors -> Seq(Message)]
      BY ONLY <1>1, <1>3, <3>1, PopFacts
    <3>4. k \in Nat
      BY ONLY <1>3, <3>3, HeldFacts
    <3>. QED  BY <3>2, <3>4
  <2>2. /\ LoopLeft(stage2) = 2 /\ TriesLeft(stage2, PushTries) = 0
        /\ LoopLeft(stage2') = 2 /\ TriesLeft(stage2', PushTries) \in {0, PushTries}
        /\ ScanLeft(stage2', Processors) = ScanLeft(stage2, Processors) /\ ScanLeft(stage2, Processors) \in Int
    <3>1. /\ stage2.pc = "scan" /\ stage2'.cursor = stage2.cursor
          /\ \/ stage2'.pc = "push" /\ stage2'.retry = 0
             \/ stage2'.pc = "scan"
      BY <1>1, <1>5 DEF S2!Pop, S2!PopUnroutable, S2!Object
    <3>2. ScanLeft(stage2', Processors) = ScanLeft(stage2, Processors) /\ ScanLeft(stage2, Processors) \in Int
      BY ONLY <1>1, <3>1 DEF ScanLeft
    <3>3. TriesLeft(stage2', PushTries) \in {0, PushTries} /\ TriesLeft(stage2, PushTries) = 0
      BY ONLY <1>1, <3>1 DEF TriesLeft
    <3>. QED  BY <3>1, <3>2, <3>3 DEF LoopLeft
  <2>. HIDE DEF h, k
  <2>3. h * c = k * c + c /\ k * c \in Nat
    <3>. HIDE DEF c
    <3>. QED  BY ONLY <1>4, <2>1, OneLess
  <2>4. h * c = k * c + (PushTries + 1)
    BY <2>3
  <2>5. LoopLeft(stage2') + ScanLeft(stage2', Processors) + TriesLeft(stage2', PushTries) + k * c
          < LoopLeft(stage2) + ScanLeft(stage2, Processors) + TriesLeft(stage2, PushTries) + h * c
    <3>. DEFINE y == k * c
    <3>1. y \in Nat /\ h * c = y + (PushTries + 1)
      BY <2>3, <2>4
    <3>. HIDE DEF y, c
    <3>. QED  BY ONLY <1>1, <2>2, <3>1 DEF y
  <2>. QED  BY <2>5 DEF RouterWork, h, k
<1>6. CASE ~ S2!Pop /\ ~ S2!PopUnroutable
  <2>1. UNCHANGED processor_queues
    BY <1>2, <1>6 DEF S2!routing_loop, S2!Loop, S2!NextQueue, S2!Send, S2!Retry,
                      S2!GiveUp
  <2>. DEFINE y == h * c
  <2>2. y \in Nat
    <3>. HIDE DEF h, c
    <3>. QED  BY <1>4
  <2>. HIDE DEF y
  <2>3. LoopLeft(stage2') + ScanLeft(stage2', Processors) + TriesLeft(stage2', PushTries) + y
          < LoopLeft(stage2) + ScanLeft(stage2, Processors) + TriesLeft(stage2, PushTries) + y
    <3>. USE DEF LoopLeft, TriesLeft, ScanLeft, S2!Object
    <3>1. CASE S2!Loop  BY <1>1, <2>2, <3>1 DEF S2!Loop
    <3>2. CASE S2!NextQueue
      <4>1. CASE stage2.cursor + 1 \in Processors
        <5>1. stage2.pc = "scan" /\ stage2'.pc = "scan" /\ stage2'.cursor = stage2.cursor + 1
          BY <1>1, <3>2, <4>1 DEF S2!NextQueue
        <5>. QED  BY ONLY <1>1, <2>2, <5>1 DEF LoopLeft, TriesLeft, ScanLeft
      <4>2. CASE stage2.cursor + 1 \notin Processors
        <5>1. stage2.pc = "scan" /\ stage2'.pc = "loop"
          BY <1>1, <3>2, <4>2 DEF S2!NextQueue
        <5>. QED  BY ONLY <1>1, <2>2, <5>1 DEF LoopLeft, TriesLeft, ScanLeft
      <4>. QED  BY <4>1, <4>2
    <3>3. CASE S2!Send
      <4>1. stage2.pc = "push" /\ stage2'.cursor = stage2.cursor /\ stage2'.pc = "scan"
        BY <1>1, <3>3 DEF S2!Send
      <4>. QED  BY ONLY <1>1, <2>2, <4>1 DEF LoopLeft, TriesLeft, ScanLeft
    <3>4. CASE S2!Retry
      <4>1. stage2.pc = "push" /\ stage2'.cursor = stage2.cursor /\ stage2'.pc = "push" /\ stage2'.retry = stage2.retry + 1
        BY <1>1, <3>4 DEF S2!Retry
      <4>. QED  BY ONLY <1>1, <2>2, <4>1 DEF LoopLeft, TriesLeft, ScanLeft
    <3>5. CASE S2!GiveUp
      <4>1. stage2.pc = "push" /\ stage2'.cursor = stage2.cursor /\ stage2'.pc = "scan"
        BY <1>1, <3>5 DEF S2!GiveUp
      <4>. QED  BY ONLY <1>1, <2>2, <4>1 DEF LoopLeft, TriesLeft, ScanLeft
    <3>. QED  BY <1>2, <1>6, <3>1, <3>2, <3>3, <3>4, <3>5 DEF S2!routing_loop
  <2>. QED  BY <2>1, <2>3 DEF RouterWork, y
<1>. QED  BY <1>5, <1>6

\* The work left is a number.
LEMMA WorkIsNumber ==
  ASSUME TypeInv, NEW t \in AllThreads
  PROVE  WorkLeft(t) \in Int
<1>1. PushTries \in Nat \ {0} /\ ProducerTries \in Nat \ {0} /\ PushTries + 1 \in Nat
  BY BoundFacts
<1>2. ASSUME NEW o, NEW tries \in Nat, o.retry \in 0 .. tries - 1
      PROVE  LoopLeft(o) \in Int /\ TriesLeft(o, tries) \in Int
  BY <1>2 DEF LoopLeft, TriesLeft
<1>3. ASSUME NEW i \in Producers, t = <<"producer", i>>  PROVE  WorkLeft(t) \in Int
  <2>1. producer[i].retry \in 0 .. ProducerTries - 1
    BY DEF TypeInv, ObjectsOK, ProducersOK, P!Object
  <2>. QED  BY ONLY <1>1, <1>2, <1>3, <2>1, WorkFacts DEF WorkParts
<1>4. ASSUME NEW o, NEW f, NEW ids, IsFiniteSet(ids), o.retry \in 0 .. PushTries - 1,
             o.cursor \in Int, Cardinality(ids) \in Int, f \in [ids -> Seq(Message)]
      PROVE  RouterWork(o, f, ids) \in Int
  <2>1. Held(f) \in Nat
    BY ONLY <1>4, HeldFacts
  <2>2. Held(f) * (PushTries + 1) \in Nat
    BY ONLY <1>1, <2>1
  <2>3. LoopLeft(o) \in Int /\ TriesLeft(o, PushTries) \in Int /\ ScanLeft(o, ids) \in Int
    BY ONLY <1>1, <1>2, <1>4 DEF ScanLeft
  <2>. QED  BY ONLY <2>2, <2>3 DEF RouterWork
<1>5. ASSUME t = <<"stage1", 0>>  PROVE  WorkLeft(t) \in Int
  <2>1. /\ stage1.retry \in 0 .. PushTries - 1 /\ stage1.cursor \in Int
        /\ Cardinality(Producers) \in Int /\ producer_queues \in [Producers -> Seq(Message)]
    BY CountIds, SizeFacts DEF TypeInv, ObjectsOK, Stage1OK, S1!Object, QueuesOK
  <2>2. RouterWork(stage1, producer_queues, Producers) \in Int
    BY ONLY <1>4, <2>1, FiniteIds
  <2>. QED  BY ONLY <1>5, <2>2, WorkFacts DEF WorkParts
<1>6. ASSUME t = <<"stage2", 0>>  PROVE  WorkLeft(t) \in Int
  <2>1. /\ stage2.retry \in 0 .. PushTries - 1 /\ stage2.cursor \in Int
        /\ Cardinality(Processors) \in Int /\ processor_queues \in [Processors -> Seq(Message)]
    BY CountIds, SizeFacts DEF TypeInv, ObjectsOK, Stage2OK, S2!Object, QueuesOK
  <2>2. RouterWork(stage2, processor_queues, Processors) \in Int
    BY ONLY <1>4, <2>1, FiniteIds
  <2>. QED  BY ONLY <1>6, <2>2, WorkFacts DEF WorkParts
<1>7. ASSUME NEW i \in Processors, t = <<"processor", i>>  PROVE  WorkLeft(t) \in Int
  <2>1. processor[i].retry \in 0 .. PushTries - 1 /\ stage1_queues[i] \in Seq(Message)
    BY DEF TypeInv, ObjectsOK, ProcessorsOK, W!Object, QueuesOK
  <2>2. Len(stage1_queues[i]) * (PushTries + 1) \in Int
    BY ONLY <1>1, <2>1
  <2>3. LoopLeft(processor[i]) \in Int /\ TriesLeft(processor[i], PushTries) \in Int
    BY ONLY <1>1, <1>2, <2>1
  <2>. QED  BY ONLY <1>7, <2>2, <2>3, WorkFacts DEF WorkParts
<1>8. ASSUME NEW i \in Strategies, t = <<"strategy", i>>  PROVE  WorkLeft(t) \in Int
  <2>1. stage2_queues[i] \in Seq(Message)
    BY DEF TypeInv, ObjectsOK, QueuesOK
  <2>2. Len(stage2_queues[i]) \in Int /\ LoopLeft(strategy[i]) \in Int
    BY ONLY <2>1 DEF LoopLeft
  <2>. QED  BY ONLY <1>8, <2>2, WorkFacts DEF WorkParts
<1>. QED  BY <1>3, <1>5, <1>6, <1>7, <1>8 DEF AllThreads

WorkOK == \A t \in AllThreads : WorkLeft(t) \in Int

LEMMA WorkIsOK == TypeInv => WorkOK
BY WorkIsNumber DEF WorkOK

LEMMA WorkStaysOK == TypeInv' => WorkOK'
BY WorkIsOK, PTL

\* What the steps of each thread leave alone.
LEMMA StepFrames ==
  ASSUME TypeInv
  PROVE  /\ \A i \in Producers : ProducerStep(i) =>
              /\ \A j \in Producers \ {i} : producer'[j] = producer[j]
              /\ AtProducers
         /\ Stage1Step => AtStage1
         /\ \A i \in Processors : ProcessorStep(i) =>
              /\ \A j \in Processors \ {i} :
                   processor'[j] = processor[j] /\ stage1_queues'[j] = stage1_queues[j]
              /\ AtProcessors
         /\ Stage2Step => AtStage2
         /\ \A i \in Strategies : StrategyStep(i) =>
              /\ \A j \in Strategies \ {i} :
                   strategy'[j] = strategy[j] /\ stage2_queues'[j] = stage2_queues[j]
              /\ AtStrategies
<1>1. /\ producer \in [Producers -> P!Object] /\ processor \in [Processors -> W!Object]
      /\ strategy \in [Strategies -> T!Object]
      /\ stage1_queues \in [Processors -> Seq(Message)]
      /\ stage2_queues \in [Strategies -> Seq(Message)]
  BY DEF TypeInv, ObjectsOK, ProducersOK, ProcessorsOK, StrategiesOK, QueuesOK
<1>2. ASSUME NEW i \in Producers, ProducerStep(i), NEW j \in Producers \ {i}
      PROVE  producer'[j] = producer[j]
  BY <1>1, <1>2 DEF ProducerStep, P!producer_loop, P!Begin, P!Generate, P!Send, P!Retry,
                    P!GiveUp, P!Exit
<1>3. ASSUME NEW i \in Processors, ProcessorStep(i), NEW j \in Processors \ {i}
      PROVE  processor'[j] = processor[j] /\ stage1_queues'[j] = stage1_queues[j]
  BY <1>1, <1>3 DEF ProcessorStep, W!processor_loop, W!Loop, W!Pop, W!Empty, W!Send, W!Retry,
                    W!GiveUp
<1>4. ASSUME NEW i \in Strategies, StrategyStep(i), NEW j \in Strategies \ {i}
      PROVE  strategy'[j] = strategy[j] /\ stage2_queues'[j] = stage2_queues[j]
  BY <1>1, <1>4 DEF StrategyStep, T!strategy_loop, T!Loop, T!Pop, T!Empty
<1>. QED  BY <1>2, <1>3, <1>4
          DEF ProducerStep, Stage1Step, ProcessorStep, Stage2Step, StrategyStep

\* The work left depends on the thread's record and on the queues it pops from.
LEMMA WorkSame ==
  ASSUME NEW t \in AllThreads,
         \A i \in Producers : t = <<"producer", i>> => producer'[i] = producer[i],
         t = <<"stage1", 0>> => UNCHANGED <<stage1, producer_queues>>,
         \A i \in Processors : t = <<"processor", i>> =>
           processor'[i] = processor[i] /\ stage1_queues'[i] = stage1_queues[i],
         t = <<"stage2", 0>> => UNCHANGED <<stage2, processor_queues>>,
         \A i \in Strategies : t = <<"strategy", i>> =>
           strategy'[i] = strategy[i] /\ stage2_queues'[i] = stage2_queues[i]
  PROVE  WorkLeft(t)' = WorkLeft(t)
<1>1. ASSUME NEW i \in Producers, t = <<"producer", i>>  PROVE  WorkLeft(t)' = WorkLeft(t)
  <2>1. producer'[i] = producer[i]
    BY <1>1
  <2>2. /\ WorkLeft(<<"producer", i>>)
             = LoopLeft(producer[i]) + TriesLeft(producer[i], ProducerTries)
        /\ WorkLeft(<<"producer", i>>)'
             = LoopLeft(producer'[i]) + TriesLeft(producer'[i], ProducerTries)
    BY ONLY WorkFacts, WorkFactsAfter DEF WorkParts
  <2>. QED  BY ONLY <1>1, <2>1, <2>2
<1>2. ASSUME t = <<"stage1", 0>>  PROVE  WorkLeft(t)' = WorkLeft(t)
  <2>1. RouterWork(stage1, producer_queues, Producers)'
          = RouterWork(stage1, producer_queues, Producers)
    BY <1>2
  <2>. QED  BY ONLY <1>2, <2>1, WorkFacts, WorkFactsAfter DEF WorkParts
<1>3. ASSUME NEW i \in Processors, t = <<"processor", i>>  PROVE  WorkLeft(t)' = WorkLeft(t)
  <2>1. processor'[i] = processor[i] /\ stage1_queues'[i] = stage1_queues[i]
    BY <1>3
  <2>2. /\ WorkLeft(<<"processor", i>>)
             = LoopLeft(processor[i]) + TriesLeft(processor[i], PushTries)
                 + Len(stage1_queues[i]) * (PushTries + 1)
        /\ WorkLeft(<<"processor", i>>)'
             = LoopLeft(processor'[i]) + TriesLeft(processor'[i], PushTries)
                 + Len(stage1_queues'[i]) * (PushTries + 1)
    BY ONLY WorkFacts, WorkFactsAfter DEF WorkParts
  <2>. QED  BY ONLY <1>3, <2>1, <2>2
<1>4. ASSUME t = <<"stage2", 0>>  PROVE  WorkLeft(t)' = WorkLeft(t)
  <2>1. RouterWork(stage2, processor_queues, Processors)'
          = RouterWork(stage2, processor_queues, Processors)
    BY <1>4
  <2>. QED  BY ONLY <1>4, <2>1, WorkFacts, WorkFactsAfter DEF WorkParts
<1>5. ASSUME NEW i \in Strategies, t = <<"strategy", i>>  PROVE  WorkLeft(t)' = WorkLeft(t)
  <2>1. strategy'[i] = strategy[i] /\ stage2_queues'[i] = stage2_queues[i]
    BY <1>5
  <2>2. /\ WorkLeft(<<"strategy", i>>) = LoopLeft(strategy[i]) + Len(stage2_queues[i])
        /\ WorkLeft(<<"strategy", i>>)' = LoopLeft(strategy'[i]) + Len(stage2_queues'[i])
    BY ONLY WorkFacts, WorkFactsAfter DEF WorkParts
  <2>. QED  BY ONLY <1>5, <2>1, <2>2
<1>. QED  BY <1>1, <1>2, <1>3, <1>4, <1>5 DEF AllThreads

\* Only a thread's own steps and those of the threads that feed it change the
\* work it has left.
LEMMA OthersStay ==
  ASSUME TypeInv, NEW t \in AllThreads, NEW u \in AllThreads \ {t}, u \notin Upstream(t),
         StepOf(u)
  PROVE  WorkLeft(t)' = WorkLeft(t)
<1>1. ASSUME NEW i \in Producers, u = <<"producer", i>>  PROVE  WorkLeft(t)' = WorkLeft(t)
  <2>1. /\ \A j \in Producers \ {i} : producer'[j] = producer[j]
        /\ AtProducers
    BY <1>1, StepFrames DEF StepOf
  <2>2. t # <<"stage1", 0>> /\ t # <<"producer", i>>
    BY <1>1 DEF Upstream
  <2>. QED  BY <2>1, <2>2, WorkSame DEF AtProducers
<1>2. ASSUME u = <<"stage1", 0>>  PROVE  WorkLeft(t)' = WorkLeft(t)
  <2>1. AtStage1
    BY <1>2, StepFrames DEF StepOf
  <2>2. t # <<"stage1", 0>> /\ \A i \in Processors : t # <<"processor", i>>
    BY <1>2 DEF Upstream
  <2>. QED  BY <2>1, <2>2, WorkSame DEF AtStage1
<1>3. ASSUME NEW i \in Processors, u = <<"processor", i>>  PROVE  WorkLeft(t)' = WorkLeft(t)
  <2>1. /\ \A j \in Processors \ {i} :
             processor'[j] = processor[j] /\ stage1_queues'[j] = stage1_queues[j]
        /\ AtProcessors
    BY <1>3, StepFrames DEF StepOf
  <2>2. t # <<"stage2", 0>> /\ t # <<"processor", i>>
    BY <1>3 DEF Upstream
  <2>. QED  BY <2>1, <2>2, WorkSame DEF AtProcessors
<1>4. ASSUME u = <<"stage2", 0>>  PROVE  WorkLeft(t)' = WorkLeft(t)
  <2>1. AtStage2
    BY <1>4, StepFrames DEF StepOf
  <2>2. t # <<"stage2", 0>> /\ \A i \in Strategies : t # <<"strategy", i>>
    BY <1>4 DEF Upstream
  <2>. QED  BY <2>1, <2>2, WorkSame DEF AtStage2
<1>5. ASSUME NEW i \in Strategies, u = <<"strategy", i>>  PROVE  WorkLeft(t)' = WorkLeft(t)
  <2>1. /\ \A j \in Strategies \ {i} :
             strategy'[j] = strategy[j] /\ stage2_queues'[j] = stage2_queues[j]
        /\ AtStrategies
    BY <1>5, StepFrames DEF StepOf
  <2>2. t # <<"strategy", i>>
    BY <1>5
  <2>. QED  BY <2>1, <2>2, WorkSame DEF AtStrategies
<1>. QED  BY <1>1, <1>2, <1>3, <1>4, <1>5 DEF AllThreads

\* The flag that tells a thread to go on.
RunningOf(t) ==
  CASE t[1] = "producer"  -> producer[t[2]].running_
    [] t[1] = "stage1"    -> stage1.running_
    [] t[1] = "processor" -> processor[t[2]].running_
    [] t[1] = "stage2"    -> stage2.running_
    [] t[1] = "strategy"  -> strategy[t[2]].running_

\* The flag of each thread, before and after a step.
LEMMA RunningFacts ==
  /\ \A i : RunningOf(<<"producer", i>>) = producer[i].running_
  /\ RunningOf(<<"stage1", 0>>) = stage1.running_
  /\ \A i : RunningOf(<<"processor", i>>) = processor[i].running_
  /\ RunningOf(<<"stage2", 0>>) = stage2.running_
  /\ \A i : RunningOf(<<"strategy", i>>) = strategy[i].running_
  /\ \A i : RunningOf(<<"producer", i>>)' = producer'[i].running_
  /\ RunningOf(<<"stage1", 0>>)' = stage1'.running_
  /\ \A i : RunningOf(<<"processor", i>>)' = processor'[i].running_
  /\ RunningOf(<<"stage2", 0>>)' = stage2'.running_
  /\ \A i : RunningOf(<<"strategy", i>>)' = strategy'[i].running_
BY DEF RunningOf

\* The thread main waits for has been told to stop.
ToldToStop ==
  \A t \in AllThreads : main.pc = "join" /\ t = StopOrder[main.at] => ~ RunningOf(t)

\* stop() clears the flag.
LEMMA StopClears ==
  ASSUME TypeInv, NEW t \in AllThreads, StopThread(t)
  PROVE  ~ RunningOf(t)'
<1>1. ASSUME NEW i \in Producers, t = <<"producer", i>>  PROVE  ~ RunningOf(t)'
  BY <1>1 DEF StopThread, P!Stop, RunningOf, TypeInv, ObjectsOK, ProducersOK, P!Object
<1>2. ASSUME t = <<"stage1", 0>>  PROVE  ~ RunningOf(t)'
  BY <1>2 DEF StopThread, S1!Stop, RunningOf, TypeInv, ObjectsOK, Stage1OK, S1!Object
<1>3. ASSUME NEW i \in Processors, t = <<"processor", i>>  PROVE  ~ RunningOf(t)'
  BY <1>3 DEF StopThread, W!Stop, RunningOf, TypeInv, ObjectsOK, ProcessorsOK, W!Object
<1>4. ASSUME t = <<"stage2", 0>>  PROVE  ~ RunningOf(t)'
  BY <1>4 DEF StopThread, S2!Stop, RunningOf, TypeInv, ObjectsOK, Stage2OK, S2!Object
<1>5. ASSUME NEW i \in Strategies, t = <<"strategy", i>>  PROVE  ~ RunningOf(t)'
  BY <1>5 DEF StopThread, T!Stop, RunningOf, TypeInv, ObjectsOK, StrategiesOK, T!Object
<1>. QED  BY <1>1, <1>2, <1>3, <1>4, <1>5 DEF AllThreads

\* No thread sets or clears a flag.
LEMMA StepsKeepFlags ==
  ASSUME TypeInv, ComponentStep, NEW t \in AllThreads
  PROVE  RunningOf(t)' = RunningOf(t)
<1>0. /\ producer \in [Producers -> P!Object] /\ processor \in [Processors -> W!Object]
      /\ strategy \in [Strategies -> T!Object] /\ stage1 \in S1!Object /\ stage2 \in S2!Object
  BY DEF TypeInv, ObjectsOK, ProducersOK, ProcessorsOK, StrategiesOK, Stage1OK, Stage2OK
<1>1. ASSUME NEW i \in Producers, ProducerStep(i)  PROVE  RunningOf(t)' = RunningOf(t)
  <2>1. \A j \in Producers : producer'[j].running_ = producer[j].running_
    <3>1. CASE P!Begin(i)  BY <1>0, <3>1 DEF P!Begin, P!Object
    <3>2. CASE P!Generate(i)  BY <1>0, <3>2 DEF P!Generate, P!Object
    <3>3. CASE P!Send(i)  BY <1>0, <3>3 DEF P!Send, P!Object
    <3>4. CASE P!Retry(i)  BY <1>0, <3>4 DEF P!Retry, P!Object
    <3>5. CASE P!GiveUp(i)  BY <1>0, <3>5 DEF P!GiveUp, P!Object
    <3>6. CASE P!Exit(i)  BY <1>0, <3>6 DEF P!Exit, P!Object
    <3>. QED  BY <1>1, <3>1, <3>2, <3>3, <3>4, <3>5, <3>6 DEF ProducerStep, P!producer_loop
  <2>. QED  BY <1>1, <2>1, RunningFacts DEF ProducerStep, AtProducers, AllThreads
<1>2. ASSUME Stage1Step  PROVE  RunningOf(t)' = RunningOf(t)
  <2>1. stage1'.running_ = stage1.running_
    <3>1. CASE S1!Loop  BY <1>0, <3>1 DEF S1!Loop, S1!Object
    <3>2. CASE S1!Pop  BY <1>0, <3>2 DEF S1!Pop, S1!Object
    <3>3. CASE S1!PopUnroutable  BY <1>0, <3>3 DEF S1!PopUnroutable, S1!Object
    <3>4. CASE S1!NextQueue  BY <1>0, <3>4 DEF S1!NextQueue, S1!Object
    <3>5. CASE S1!Send  BY <1>0, <3>5 DEF S1!Send, S1!Object
    <3>6. CASE S1!Retry  BY <1>0, <3>6 DEF S1!Retry, S1!Object
    <3>7. CASE S1!GiveUp  BY <1>0, <3>7 DEF S1!GiveUp, S1!Object
    <3>. QED  BY <1>2, <3>1, <3>2, <3>3, <3>4, <3>5, <3>6, <3>7 DEF Stage1Step, S1!routing_loop
  <2>. QED  BY <1>2, <2>1, RunningFacts DEF Stage1Step, AtStage1, AllThreads
<1>3. ASSUME NEW i \in Processors, ProcessorStep(i)  PROVE  RunningOf(t)' = RunningOf(t)
  <2>1. \A j \in Processors : processor'[j].running_ = processor[j].running_
    <3>1. CASE W!Loop(i)  BY <1>0, <3>1 DEF W!Loop, W!Object
    <3>2. CASE W!Pop(i)  BY <1>0, <3>2 DEF W!Pop, W!Object
    <3>3. CASE W!Empty(i)  BY <1>0, <3>3 DEF W!Empty, W!Object
    <3>4. CASE W!Send(i)  BY <1>0, <3>4 DEF W!Send, W!Object
    <3>5. CASE W!Retry(i)  BY <1>0, <3>5 DEF W!Retry, W!Object
    <3>6. CASE W!GiveUp(i)  BY <1>0, <3>6 DEF W!GiveUp, W!Object
    <3>. QED  BY <1>3, <3>1, <3>2, <3>3, <3>4, <3>5, <3>6 DEF ProcessorStep, W!processor_loop
  <2>. QED  BY <1>3, <2>1, RunningFacts DEF ProcessorStep, AtProcessors, AllThreads
<1>4. ASSUME Stage2Step  PROVE  RunningOf(t)' = RunningOf(t)
  <2>1. stage2'.running_ = stage2.running_
    <3>1. CASE S2!Loop  BY <1>0, <3>1 DEF S2!Loop, S2!Object
    <3>2. CASE S2!Pop  BY <1>0, <3>2 DEF S2!Pop, S2!Object
    <3>3. CASE S2!PopUnroutable  BY <1>0, <3>3 DEF S2!PopUnroutable, S2!Object
    <3>4. CASE S2!NextQueue  BY <1>0, <3>4 DEF S2!NextQueue, S2!Object
    <3>5. CASE S2!Send  BY <1>0, <3>5 DEF S2!Send, S2!Object
    <3>6. CASE S2!Retry  BY <1>0, <3>6 DEF S2!Retry, S2!Object
    <3>7. CASE S2!GiveUp  BY <1>0, <3>7 DEF S2!GiveUp, S2!Object
    <3>. QED  BY <1>4, <3>1, <3>2, <3>3, <3>4, <3>5, <3>6, <3>7 DEF Stage2Step, S2!routing_loop
  <2>. QED  BY <1>4, <2>1, RunningFacts DEF Stage2Step, AtStage2, AllThreads
<1>5. ASSUME NEW i \in Strategies, StrategyStep(i)  PROVE  RunningOf(t)' = RunningOf(t)
  <2>1. \A j \in Strategies : strategy'[j].running_ = strategy[j].running_
    <3>1. CASE T!Loop(i)  BY <1>0, <3>1 DEF T!Loop, T!Object
    <3>2. CASE T!Pop(i)  BY <1>0, <3>2 DEF T!Pop, T!process_message, T!Object
    <3>3. CASE T!Empty(i)  BY <1>0, <3>3 DEF T!Empty, T!Object
    <3>. QED  BY <1>5, <3>1, <3>2, <3>3 DEF StrategyStep, T!strategy_loop
  <2>. QED  BY <1>5, <2>1, RunningFacts DEF StrategyStep, AtStrategies, AllThreads
<1>. QED  BY <1>1, <1>2, <1>3, <1>4, <1>5 DEF ComponentStep

\* So it stays told until it is joined.
LEMMA ToldStep == TypeInv /\ ToldToStop /\ [Next]_vars => ToldToStop'
<1>. SUFFICES ASSUME TypeInv, ToldToStop, [Next]_vars, NEW t \in AllThreads,
                     main'.pc = "join", t = StopOrder[main'.at]
              PROVE  ~ RunningOf(t)'
  BY DEF ToldToStop
<1>1. CASE MainStop
  <2>1. main'.at = main.at /\ StopThread(StopOrder[main.at])
    BY <1>1 DEF MainStop, TypeInv, MainOK
  <2>. QED  BY <2>1, StopClears
<1>2. CASE ~ MainStop
  <2>1. main' = main /\ ~ MainJoin
    <3>0. main = [pc |-> main.pc, at |-> main.at]
      BY DEF TypeInv, MainOK
    <3>1. ~ MainStart
      BY <3>0 DEF MainStart
    <3>2. ~ MainSignalled /\ ~ MainExpired /\ ~ MainReport
      BY <3>0 DEF MainSignalled, MainExpired, MainReport
    <3>3. ~ MainStartFails /\ ~ MainFailed /\ ~ UseAfterFree
      BY <3>0 DEF MainStartFails, MainFailed, UseAfterFree
    <3>4. ~ MainJoin
      BY <3>0 DEF MainJoin
    <3>. QED  BY <1>2, <3>1, <3>2, <3>3, <3>4 DEF Next, vars, signal_handler, Terminated,
                ProducerStep, Stage1Step, ProcessorStep, Stage2Step, StrategyStep, CanStep
  <2>2. ~ RunningOf(t)
    BY <2>1 DEF ToldToStop
  <2>3. CASE ComponentStep
    BY <2>2, <2>3, StepsKeepFlags
  <2>4. CASE ~ ComponentStep
    <3>1. UNCHANGED objects
      BY <1>2, <2>1, <2>4 DEF Next, ComponentStep, vars, MainStart, MainSignalled, MainExpired,
                  MainReport, MainStartFails, MainFailed, UseAfterFree, signal_handler, Terminated
    <3>. QED  BY <2>2, <3>1 DEF objects, RunningOf
  <2>. QED  BY <2>3, <2>4
<1>. QED  BY <1>1, <1>2

\* A thread that has ended takes no step.
LEMMA GoneStepsNot ==
  ASSUME NEW t \in AllThreads, PcOf(t) = "exit"  PROVE  ~ StepOf(t)
<1>1. ASSUME NEW i \in Producers, t = <<"producer", i>>  PROVE  ~ StepOf(t)
  BY <1>1, PcOfFacts DEF StepOf, ProducerStep, P!producer_loop, P!Begin, P!Generate, P!Send,
                         P!Retry, P!GiveUp, P!Exit
<1>2. ASSUME t = <<"stage1", 0>>  PROVE  ~ StepOf(t)
  BY <1>2, PcOfFacts DEF StepOf, Stage1Step, S1!routing_loop, S1!Loop, S1!Pop, S1!PopUnroutable,
                         S1!NextQueue, S1!Send, S1!Retry, S1!GiveUp
<1>3. ASSUME NEW i \in Processors, t = <<"processor", i>>  PROVE  ~ StepOf(t)
  BY <1>3, PcOfFacts DEF StepOf, ProcessorStep, W!processor_loop, W!Loop, W!Pop, W!Empty,
                         W!Send, W!Retry, W!GiveUp
<1>4. ASSUME t = <<"stage2", 0>>  PROVE  ~ StepOf(t)
  BY <1>4, PcOfFacts DEF StepOf, Stage2Step, S2!routing_loop, S2!Loop, S2!Pop, S2!PopUnroutable,
                         S2!NextQueue, S2!Send, S2!Retry, S2!GiveUp
<1>5. ASSUME NEW i \in Strategies, t = <<"strategy", i>>  PROVE  ~ StepOf(t)
  BY <1>5, PcOfFacts DEF StepOf, StrategyStep, T!strategy_loop, T!Loop, T!Pop, T!Empty
<1>. QED  BY <1>1, <1>2, <1>3, <1>4, <1>5 DEF AllThreads

\* A thread told to stop comes closer to its end with every step.
LEMMA OwnStepAdvances ==
  ASSUME TypeInv, NEW t \in AllThreads, ~ RunningOf(t), StepOf(t)
  PROVE  WorkLeft(t)' < WorkLeft(t)
<1>1. ASSUME NEW i \in Producers, t = <<"producer", i>>  PROVE  WorkLeft(t)' < WorkLeft(t)
  <2>1. ~ producer[i].running_ /\ ProducerStep(i)
    BY <1>1, RunningFacts DEF StepOf
  <2>. QED  BY ONLY TypeInv, i \in Producers, <1>1, <2>1, ProducerWork, WorkFacts, WorkFactsAfter
            DEF WorkParts
<1>2. ASSUME t = <<"stage1", 0>>  PROVE  WorkLeft(t)' < WorkLeft(t)
  <2>1. ~ stage1.running_ /\ Stage1Step
    BY <1>2, RunningFacts DEF StepOf
  <2>. QED  BY ONLY TypeInv, <1>2, <2>1, Stage1Work, WorkFacts, WorkFactsAfter DEF WorkParts
<1>3. ASSUME NEW i \in Processors, t = <<"processor", i>>  PROVE  WorkLeft(t)' < WorkLeft(t)
  <2>1. ~ processor[i].running_ /\ ProcessorStep(i)
    BY <1>3, RunningFacts DEF StepOf
  <2>. QED  BY ONLY TypeInv, i \in Processors, <1>3, <2>1, ProcessorWork, WorkFacts, WorkFactsAfter
            DEF WorkParts
<1>4. ASSUME t = <<"stage2", 0>>  PROVE  WorkLeft(t)' < WorkLeft(t)
  <2>1. ~ stage2.running_ /\ Stage2Step
    BY <1>4, RunningFacts DEF StepOf
  <2>. QED  BY ONLY TypeInv, <1>4, <2>1, Stage2Work, WorkFacts, WorkFactsAfter DEF WorkParts
<1>5. ASSUME NEW i \in Strategies, t = <<"strategy", i>>  PROVE  WorkLeft(t)' < WorkLeft(t)
  <2>1. ~ strategy[i].running_ /\ StrategyStep(i)
    BY <1>5, RunningFacts DEF StepOf
  <2>. QED  BY ONLY TypeInv, i \in Strategies, <1>5, <2>1, StrategyWork, WorkFacts, WorkFactsAfter
            DEF WorkParts
<1>. QED  BY <1>1, <1>2, <1>3, <1>4, <1>5 DEF AllThreads

\* While main waits in a join, every step of the thread it waits for brings
\* that thread closer to its end, and no step of another thread sets it back.
THEOREM JoinsAdvance == Spec => JoinAdvances
<1>1. ASSUME TypeInv, ToldToStop, DrainIsFinite, [Next]_vars, main.pc = "join",
             NEW t \in AllThreads, t = StopOrder[main.at]
      PROVE  WorkLeft(t)' <= WorkLeft(t) /\ (StepOf(t) => WorkLeft(t)' < WorkLeft(t))
  <2>1. ~ RunningOf(t) /\ \A u \in Upstream(t) : PcOf(u) = "exit"
    BY <1>1 DEF ToldToStop, DrainIsFinite
  <2>2. WorkLeft(t) \in Int
    BY <1>1, WorkIsNumber
  <2>3. CASE StepOf(t)
    <3>1. WorkLeft(t)' < WorkLeft(t)
      BY <1>1, <2>1, <2>3, OwnStepAdvances
    <3>2. WorkLeft(t)' \in Int
      BY <1>1, TypeStep, WorkStaysOK DEF WorkOK
    <3>. QED  BY <2>2, <3>1, <3>2
  <2>4. CASE ~ StepOf(t)
    <3>1. WorkLeft(t)' = WorkLeft(t)
      <4>1. CASE \E u \in AllThreads : StepOf(u)
        <5>1. PICK u \in AllThreads \ {t} : StepOf(u)
          BY <2>4, <4>1
        <5>2. u \notin Upstream(t)
          BY <2>1, <5>1, GoneStepsNot
        <5>. QED  BY <1>1, <5>1, <5>2, OthersStay
      <4>2. CASE ~ \E u \in AllThreads : StepOf(u)
        <5>1. ~ ComponentStep
          <6>1. ASSUME NEW i \in Producers  PROVE  ~ ProducerStep(i)
            <7>1. <<"producer", i>> \in AllThreads
              BY DEF AllThreads
            <7>2. ~ StepOf(<<"producer", i>>)
              BY <4>2, <7>1
            <7>. QED  BY <7>2 DEF StepOf
          <6>2. ~ Stage1Step /\ ~ Stage2Step
            <7>1. <<"stage1", 0>> \in AllThreads /\ <<"stage2", 0>> \in AllThreads
              BY DEF AllThreads
            <7>2. ~ StepOf(<<"stage1", 0>>) /\ ~ StepOf(<<"stage2", 0>>)
              BY <4>2, <7>1
            <7>. QED  BY <7>2 DEF StepOf
          <6>3. ASSUME NEW i \in Processors  PROVE  ~ ProcessorStep(i)
            <7>1. <<"processor", i>> \in AllThreads
              BY DEF AllThreads
            <7>2. ~ StepOf(<<"processor", i>>)
              BY <4>2, <7>1
            <7>. QED  BY <7>2 DEF StepOf
          <6>4. ASSUME NEW i \in Strategies  PROVE  ~ StrategyStep(i)
            <7>1. <<"strategy", i>> \in AllThreads
              BY DEF AllThreads
            <7>2. ~ StepOf(<<"strategy", i>>)
              BY <4>2, <7>1
            <7>. QED  BY <7>2 DEF StepOf
          <6>. QED  BY <6>1, <6>2, <6>3, <6>4 DEF ComponentStep
        <5>2. ~ MainStart /\ ~ MainStop /\ ~ MainStartFails
          BY <1>1 DEF MainStart, MainStop, MainStartFails
        <5>3. UNCHANGED <<objects, queues>>
          BY <1>1, <5>1, <5>2 DEF ComponentStep, Next, vars, MainSignalled, MainExpired,
             MainJoin, MainReport, MainFailed, UseAfterFree, signal_handler, Terminated
        <5>. QED  BY <5>3, WorkSame DEF objects, queues
      <4>. QED  BY <4>1, <4>2
    <3>. QED  BY <2>2, <2>4, <3>1
  <2>. QED  BY <2>3, <2>4
<1>2. TypeInv /\ ToldToStop /\ DrainIsFinite /\ [Next]_vars
        => [\A k \in DOMAIN StopOrder :
              main.pc = "join" /\ main.at = k =>
                LET t == StopOrder[k]
                IN  /\ WorkLeft(t)' <= WorkLeft(t)
                    /\ StepOf(t) => WorkLeft(t)' < WorkLeft(t)]_vars
  <2>1. ASSUME TypeInv, ToldToStop, DrainIsFinite, [Next]_vars, NEW k \in DOMAIN StopOrder,
               main.pc = "join", main.at = k
        PROVE  /\ WorkLeft(StopOrder[k])' <= WorkLeft(StopOrder[k])
               /\ StepOf(StopOrder[k]) => WorkLeft(StopOrder[k])' < WorkLeft(StopOrder[k])
    <3>1. k \in 1 .. Len(StopOrder)
      BY StopOrderFacts
    <3>2. StopOrder[k] \in AllThreads
      BY <3>1, StopOnto
    <3>. QED  BY <1>1, <2>1, <3>2
  <2>. QED  BY <2>1
<1>3. Init => ToldToStop
  BY DEF Init, ToldToStop
<1>4. Spec => [](TypeInv /\ ToldToStop)
  BY <1>3, TypeInit, TypeStep, ToldStep, PTL DEF Spec
<1>. QED  BY <1>2, <1>4, DrainsAreFinite, PTL DEF Spec, JoinAdvances
=============================================================================
