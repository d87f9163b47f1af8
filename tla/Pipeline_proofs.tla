-------------------------- MODULE Pipeline_proofs --------------------------
(***************************************************************************)
(* Type correctness of Pipeline, for every configuration and every bound.  *)
(***************************************************************************)
EXTENDS Pipeline, FiniteSetTheorems, SequenceTheorems, TLAPS

-----------------------------------------------------------------------------
(* The configuration and the bounds *)

\* What validate leaves of the numbers of threads.
LEMMA CountFacts ==
  /\ config.producers_count \in Nat \ {0}
  /\ config.processors_count \in Nat \ {0}
  /\ config.strategies_count \in Nat \ {0}
BY ValidConfig, ConfigAssumption DEF validate, SystemConfig

\* Every stage has a thread with the number 0, and threads are numbered
\* without a gap.
LEMMA IdFacts ==
  /\ Producers \subseteq Nat /\ 0 \in Producers
  /\ Processors \subseteq Nat /\ 0 \in Processors
  /\ Strategies \subseteq Nat /\ 0 \in Strategies
BY CountFacts DEF Producers, Processors, Strategies

\* The constants are numbers the proofs can count with.
LEMMA BoundFacts ==
  /\ Capacity \in Nat \ {0} /\ ProducerTries \in Nat \ {0} /\ PushTries \in Nat \ {0}
  /\ MaxMessages \in Nat
  /\ CounterRange \in Nat \ {0}
<1>1. MaxMessages * config.producers_count \in Nat
  BY CountFacts, BoundsAssumption
<1>. QED  BY <1>1, BoundsAssumption

\* fetch_add keeps a counter in its range.
LEMMA IncrementedType ==
  ASSUME NEW n \in 0 .. CounterRange - 1
  PROVE  (n + 1) % CounterRange \in 0 .. CounterRange - 1
BY BoundFacts

-----------------------------------------------------------------------------
(* The orders of starting and stopping *)

NP == config.producers_count
NW == config.processors_count
NS == config.strategies_count

Thread == {"producer", "stage1", "processor", "stage2", "strategy"} \X Nat

\* The threads of one kind, in the order of their numbers.
LEMMA ThreadsFacts ==
  ASSUME NEW kind \in {"producer", "stage1", "processor", "stage2", "strategy"},
         NEW n \in Nat
  PROVE  /\ Threads(kind, 0 .. n - 1) \in Seq(Thread)
         /\ Len(Threads(kind, 0 .. n - 1)) = n
         /\ \A k \in 1 .. n : Threads(kind, 0 .. n - 1)[k] = <<kind, k - 1>>
<1>1. Cardinality(0 .. n - 1) = n
  BY FS_Interval
<1>2. Threads(kind, 0 .. n - 1) = [k \in 1 .. n |-> <<kind, k - 1>>]
  BY <1>1 DEF Threads
<1>3. \A k \in 1 .. n : <<kind, k - 1>> \in Thread
  BY DEF Thread
<1>4. [k \in 1 .. n |-> <<kind, k - 1>>] \in Seq(Thread)
  BY <1>3
<1>5. Len([k \in 1 .. n |-> <<kind, k - 1>>]) = n
  BY <1>4
<1>. QED  BY <1>2, <1>4, <1>5

\* Elements of a concatenation of three sequences.
LEMMA ThreeFacts ==
  ASSUME NEW S, NEW a \in Seq(S), NEW b \in Seq(S), NEW c \in Seq(S),
         NEW all, all = a \o b \o c, NEW la, NEW lb, NEW lc,
         la = Len(a), lb = Len(b), lc = Len(c)
  PROVE  /\ all \in Seq(S)
         /\ Len(all) = la + lb + lc
         /\ \A k \in 1 .. la : all[k] = a[k]
         /\ \A k \in 1 .. lb : all[la + k] = b[k]
         /\ \A k \in 1 .. lc : all[la + lb + k] = c[k]
<1>. SUFFICES ASSUME NEW ab, ab = a \o b, all = ab \o c
              PROVE  /\ all \in Seq(S)
                     /\ Len(all) = la + lb + lc
                     /\ \A k \in 1 .. la : all[k] = a[k]
                     /\ \A k \in 1 .. lb : all[la + k] = b[k]
                     /\ \A k \in 1 .. lc : all[la + lb + k] = c[k]
  BY Zenon
<1>1. /\ la \in Nat /\ lb \in Nat /\ lc \in Nat
  OBVIOUS
<1>2. /\ ab \in Seq(S) /\ Len(ab) = la + lb
      /\ \A k \in 1 .. la : ab[k] = a[k]
      /\ \A k \in 1 .. lb : ab[la + k] = b[k]
  OBVIOUS
<1>3. /\ all \in Seq(S) /\ Len(all) = Len(ab) + lc
      /\ \A k \in 1 .. Len(ab) : all[k] = ab[k]
      /\ \A k \in 1 .. lc : all[Len(ab) + k] = c[k]
  BY <1>2
<1>. QED  BY ONLY <1>1, <1>2, <1>3

\* all is the concatenation of five sequences of the given lengths.
Joined(S, a, b, c, d, e, all, la, lb, lc, ld, le) ==
  /\ a \in Seq(S) /\ b \in Seq(S) /\ c \in Seq(S) /\ d \in Seq(S) /\ e \in Seq(S)
  /\ all = a \o b \o c \o d \o e
  /\ la = Len(a) /\ lb = Len(b) /\ lc = Len(c) /\ ld = Len(d) /\ le = Len(e)

\* Elements of a concatenation of five sequences.
LEMMA FiveFacts ==
  ASSUME NEW S, NEW a, NEW b, NEW c, NEW d, NEW e, NEW all,
         NEW la, NEW lb, NEW lc, NEW ld, NEW le,
         Joined(S, a, b, c, d, e, all, la, lb, lc, ld, le)
  PROVE  /\ all \in Seq(S)
         /\ Len(all) = la + lb + lc + ld + le
         /\ \A k \in 1 .. la : all[k] = a[k]
         /\ \A k \in 1 .. lb : all[la + k] = b[k]
         /\ \A k \in 1 .. lc : all[la + lb + k] = c[k]
         /\ \A k \in 1 .. ld : all[la + lb + lc + k] = d[k]
         /\ \A k \in 1 .. le : all[la + lb + lc + ld + k] = e[k]
<1>. USE DEF Joined
<1>. SUFFICES ASSUME NEW abc, abc = a \o b \o c, all = abc \o d \o e
              PROVE  /\ all \in Seq(S)
                     /\ Len(all) = la + lb + lc + ld + le
                     /\ \A k \in 1 .. la : all[k] = a[k]
                     /\ \A k \in 1 .. lb : all[la + k] = b[k]
                     /\ \A k \in 1 .. lc : all[la + lb + k] = c[k]
                     /\ \A k \in 1 .. ld : all[la + lb + lc + k] = d[k]
                     /\ \A k \in 1 .. le : all[la + lb + lc + ld + k] = e[k]
  BY Zenon
<1>1. la \in Nat /\ lb \in Nat /\ lc \in Nat /\ ld \in Nat /\ le \in Nat
  OBVIOUS
<1>2. /\ abc \in Seq(S) /\ Len(abc) = la + lb + lc
      /\ \A k \in 1 .. la : abc[k] = a[k]
      /\ \A k \in 1 .. lb : abc[la + k] = b[k]
      /\ \A k \in 1 .. lc : abc[la + lb + k] = c[k]
  BY ThreeFacts
<1>3. /\ all \in Seq(S) /\ Len(all) = Len(abc) + ld + le
      /\ \A k \in 1 .. Len(abc) : all[k] = abc[k]
      /\ \A k \in 1 .. ld : all[Len(abc) + k] = d[k]
      /\ \A k \in 1 .. le : all[Len(abc) + ld + k] = e[k]
  BY <1>2, ThreeFacts
<1>4. \A k \in 1 .. la : all[k] = a[k]
  BY ONLY <1>1, <1>2, <1>3
<1>4a. \A k \in 1 .. lb : all[la + k] = b[k]
  BY ONLY <1>1, <1>2, <1>3
<1>5. \A k \in 1 .. lc : all[la + lb + k] = c[k]
  BY ONLY <1>1, <1>2, <1>3
<1>6. /\ all \in Seq(S) /\ Len(all) = la + lb + lc + ld + le
      /\ \A k \in 1 .. ld : all[la + lb + lc + k] = d[k]
      /\ \A k \in 1 .. le : all[la + lb + lc + ld + k] = e[k]
  BY ONLY <1>1, <1>2, <1>3
<1>. QED  BY <1>4, <1>4a, <1>5, <1>6

\* The groups of threads the two orders are made of.
LEMMA GroupFacts ==
  /\ Threads("producer", Producers) \in Seq(Thread)
  /\ Len(Threads("producer", Producers)) = NP
  /\ \A k \in 1 .. NP : Threads("producer", Producers)[k] = <<"producer", k - 1>>
  /\ Threads("processor", Processors) \in Seq(Thread)
  /\ Len(Threads("processor", Processors)) = NW
  /\ \A k \in 1 .. NW : Threads("processor", Processors)[k] = <<"processor", k - 1>>
  /\ Threads("strategy", Strategies) \in Seq(Thread)
  /\ Len(Threads("strategy", Strategies)) = NS
  /\ \A k \in 1 .. NS : Threads("strategy", Strategies)[k] = <<"strategy", k - 1>>
  /\ << <<"stage1", 0>> >> \in Seq(Thread) /\ Len(<< <<"stage1", 0>> >>) = 1
  /\ << <<"stage2", 0>> >> \in Seq(Thread) /\ Len(<< <<"stage2", 0>> >>) = 1
<1>1. NP \in Nat /\ NW \in Nat /\ NS \in Nat
  BY CountFacts DEF NP, NW, NS
<1>2. Producers = 0 .. NP - 1 /\ Processors = 0 .. NW - 1 /\ Strategies = 0 .. NS - 1
  BY DEF Producers, Processors, Strategies, NP, NW, NS
<1>. HIDE DEF Producers, Processors, Strategies, NP, NW, NS
<1>3. <<"stage1", 0>> \in Thread /\ <<"stage2", 0>> \in Thread
  BY DEF Thread
<1>4. /\ << <<"stage1", 0>> >> \in Seq(Thread) /\ Len(<< <<"stage1", 0>> >>) = 1
      /\ << <<"stage2", 0>> >> \in Seq(Thread) /\ Len(<< <<"stage2", 0>> >>) = 1
  BY <1>3
<1>5. /\ Threads("producer", Producers) \in Seq(Thread)
      /\ Len(Threads("producer", Producers)) = NP
      /\ \A k \in 1 .. NP : Threads("producer", Producers)[k] = <<"producer", k - 1>>
  BY <1>1, <1>2, ThreadsFacts
<1>6. /\ Threads("processor", Processors) \in Seq(Thread)
      /\ Len(Threads("processor", Processors)) = NW
      /\ \A k \in 1 .. NW : Threads("processor", Processors)[k] = <<"processor", k - 1>>
  BY <1>1, <1>2, ThreadsFacts
<1>7. /\ Threads("strategy", Strategies) \in Seq(Thread)
      /\ Len(Threads("strategy", Strategies)) = NS
      /\ \A k \in 1 .. NS : Threads("strategy", Strategies)[k] = <<"strategy", k - 1>>
  BY <1>1, <1>2, ThreadsFacts
<1>. QED  BY <1>4, <1>5, <1>6, <1>7

\* The order of stopping: the producers, stage 1, the processors, stage 2, the
\* strategies.
LEMMA StopOrderFacts ==
  /\ StopOrder \in Seq(Thread)
  /\ Len(StopOrder) = NP + 1 + NW + 1 + NS
  /\ \A k \in 1 .. NP : StopOrder[k] = <<"producer", k - 1>>
  /\ StopOrder[NP + 1] = <<"stage1", 0>>
  /\ \A k \in 1 .. NW : StopOrder[NP + 1 + k] = <<"processor", k - 1>>
  /\ StopOrder[NP + 1 + NW + 1] = <<"stage2", 0>>
  /\ \A k \in 1 .. NS : StopOrder[NP + 1 + NW + 1 + k] = <<"strategy", k - 1>>
<1>1. PICK a \in Seq(Thread), b \in Seq(Thread), c \in Seq(Thread), d \in Seq(Thread),
           e \in Seq(Thread) :
        /\ a = Threads("producer", Producers) /\ b = << <<"stage1", 0>> >>
        /\ c = Threads("processor", Processors) /\ d = << <<"stage2", 0>> >>
        /\ e = Threads("strategy", Strategies)
  BY GroupFacts
<1>3. Joined(Thread, a, b, c, d, e, StopOrder, NP, 1, NW, 1, NS)
  BY <1>1, GroupFacts DEF Joined, StopOrder
<1>4. /\ \A k \in 1 .. NP : a[k] = <<"producer", k - 1>>
      /\ \A k \in 1 .. NW : c[k] = <<"processor", k - 1>>
      /\ \A k \in 1 .. NS : e[k] = <<"strategy", k - 1>>
      /\ b[1] = <<"stage1", 0>> /\ d[1] = <<"stage2", 0>>
  BY <1>1, GroupFacts
<1>. HIDE DEF StopOrder, NP, NW, NS, Thread
<1>5. /\ StopOrder \in Seq(Thread)
      /\ Len(StopOrder) = NP + 1 + NW + 1 + NS
      /\ \A k \in 1 .. NP : StopOrder[k] = a[k]
      /\ \A k \in 1 .. 1 : StopOrder[NP + k] = b[k]
      /\ \A k \in 1 .. NW : StopOrder[NP + 1 + k] = c[k]
      /\ \A k \in 1 .. 1 : StopOrder[NP + 1 + NW + k] = d[k]
      /\ \A k \in 1 .. NS : StopOrder[NP + 1 + NW + 1 + k] = e[k]
  BY <1>3, FiveFacts
<1>6. StopOrder[NP + 1] = <<"stage1", 0>> /\ StopOrder[NP + 1 + NW + 1] = <<"stage2", 0>>
  BY <1>4, <1>5
<1>7. /\ \A k \in 1 .. NP : StopOrder[k] = <<"producer", k - 1>>
      /\ \A k \in 1 .. NW : StopOrder[NP + 1 + k] = <<"processor", k - 1>>
      /\ \A k \in 1 .. NS : StopOrder[NP + 1 + NW + 1 + k] = <<"strategy", k - 1>>
  BY <1>4, <1>5
<1>. QED  BY <1>5, <1>6, <1>7

\* The order of starting: stage 1, the processors, stage 2, the strategies, the
\* producers.
LEMMA StartOrderFacts ==
  /\ StartOrder \in Seq(Thread)
  /\ Len(StartOrder) = 1 + NW + 1 + NS + NP
  /\ StartOrder[1] = <<"stage1", 0>>
  /\ \A k \in 1 .. NW : StartOrder[1 + k] = <<"processor", k - 1>>
  /\ StartOrder[1 + NW + 1] = <<"stage2", 0>>
  /\ \A k \in 1 .. NS : StartOrder[1 + NW + 1 + k] = <<"strategy", k - 1>>
  /\ \A k \in 1 .. NP : StartOrder[1 + NW + 1 + NS + k] = <<"producer", k - 1>>
<1>1. PICK a \in Seq(Thread), b \in Seq(Thread), c \in Seq(Thread), d \in Seq(Thread),
           e \in Seq(Thread) :
        /\ a = << <<"stage1", 0>> >> /\ b = Threads("processor", Processors)
        /\ c = << <<"stage2", 0>> >> /\ d = Threads("strategy", Strategies)
        /\ e = Threads("producer", Producers)
  BY GroupFacts
<1>3. Joined(Thread, a, b, c, d, e, StartOrder, 1, NW, 1, NS, NP)
  BY <1>1, GroupFacts DEF Joined, StartOrder
<1>4. /\ \A k \in 1 .. NP : e[k] = <<"producer", k - 1>>
      /\ \A k \in 1 .. NW : b[k] = <<"processor", k - 1>>
      /\ \A k \in 1 .. NS : d[k] = <<"strategy", k - 1>>
      /\ a[1] = <<"stage1", 0>> /\ c[1] = <<"stage2", 0>>
  BY <1>1, GroupFacts
<1>. HIDE DEF StartOrder, NP, NW, NS, Thread
<1>5. /\ StartOrder \in Seq(Thread)
      /\ Len(StartOrder) = 1 + NW + 1 + NS + NP
      /\ \A k \in 1 .. 1 : StartOrder[k] = a[k]
      /\ \A k \in 1 .. NW : StartOrder[1 + k] = b[k]
      /\ \A k \in 1 .. 1 : StartOrder[1 + NW + k] = c[k]
      /\ \A k \in 1 .. NS : StartOrder[1 + NW + 1 + k] = d[k]
      /\ \A k \in 1 .. NP : StartOrder[1 + NW + 1 + NS + k] = e[k]
  BY <1>3, FiveFacts
<1>6. StartOrder[1] = <<"stage1", 0>> /\ StartOrder[1 + NW + 1] = <<"stage2", 0>>
  BY <1>4, <1>5
<1>7. /\ \A k \in 1 .. NW : StartOrder[1 + k] = <<"processor", k - 1>>
      /\ \A k \in 1 .. NS : StartOrder[1 + NW + 1 + k] = <<"strategy", k - 1>>
      /\ \A k \in 1 .. NP : StartOrder[1 + NW + 1 + NS + k] = <<"producer", k - 1>>
  BY <1>4, <1>5
<1>. QED  BY <1>5, <1>6, <1>7

\* The threads there are.
AllThreads ==
  {<<"stage1", 0>>, <<"stage2", 0>>} \union {<<"producer", i>> : i \in Producers}
    \union {<<"processor", i>> : i \in Processors} \union {<<"strategy", i>> : i \in Strategies}

\* Where each thread is in the order of starting.
LEMMA StartPlace ==
  ASSUME NEW k \in 1 .. Len(StartOrder)
  PROVE  \/ k = 1 /\ StartOrder[k] = <<"stage1", 0>>
         \/ \E i \in Processors : k = i + 2 /\ StartOrder[k] = <<"processor", i>>
         \/ k = NW + 2 /\ StartOrder[k] = <<"stage2", 0>>
         \/ \E i \in Strategies : k = NW + i + 3 /\ StartOrder[k] = <<"strategy", i>>
         \/ \E i \in Producers : k = NW + NS + i + 3 /\ StartOrder[k] = <<"producer", i>>
<1>1. NP \in Nat \ {0} /\ NW \in Nat \ {0} /\ NS \in Nat \ {0}
  BY CountFacts DEF NP, NW, NS
<1>2. Producers = 0 .. NP - 1 /\ Processors = 0 .. NW - 1 /\ Strategies = 0 .. NS - 1
  BY DEF Producers, Processors, Strategies, NP, NW, NS
<1>3. k \in 1 .. NW + NS + NP + 2
  BY <1>1, StartOrderFacts
<1>. HIDE DEF NP, NW, NS
<1>4. CASE k = 1
  BY <1>4, StartOrderFacts
<1>5. CASE k \in 2 .. NW + 1
  <2>1. k - 2 \in Processors /\ k - 1 \in 1 .. NW /\ k = 1 + (k - 1)
    BY <1>1, <1>2, <1>5
  <2>2. StartOrder[k] = <<"processor", k - 2>>
    <3>1. PICK j \in 1 .. NW : j = k - 1 /\ k = 1 + j
      BY <2>1
    <3>2. StartOrder[1 + j] = <<"processor", j - 1>>
      BY StartOrderFacts, Zenon
    <3>3. j - 1 = k - 2
      BY <1>1, <3>1
    <3>. QED  BY <3>1, <3>2, <3>3, Zenon
  <2>. QED  BY <2>1, <2>2
<1>6. CASE k = NW + 2
  BY <1>1, <1>6, StartOrderFacts
<1>7. CASE k \in NW + 3 .. NW + NS + 2
  <2>1. k - NW - 3 \in Strategies /\ k - NW - 2 \in 1 .. NS /\ k = 1 + NW + 1 + (k - NW - 2)
    BY <1>1, <1>2, <1>7
  <2>2. StartOrder[k] = <<"strategy", k - NW - 3>>
    <3>1. PICK j \in 1 .. NS : j = k - NW - 2 /\ k = 1 + NW + 1 + j
      BY <2>1
    <3>2. StartOrder[1 + NW + 1 + j] = <<"strategy", j - 1>>
      BY StartOrderFacts, Zenon
    <3>3. j - 1 = k - NW - 3
      BY <1>1, <3>1
    <3>. QED  BY <3>1, <3>2, <3>3, Zenon
  <2>. QED  BY <1>1, <2>1, <2>2
<1>8. CASE k \in NW + NS + 3 .. NW + NS + NP + 2
  <2>1. /\ k - NW - NS - 3 \in Producers /\ k - NW - NS - 2 \in 1 .. NP
        /\ k = 1 + NW + 1 + NS + (k - NW - NS - 2)
    BY <1>1, <1>2, <1>8
  <2>2. StartOrder[k] = <<"producer", k - NW - NS - 3>>
    <3>1. PICK j \in 1 .. NP : j = k - NW - NS - 2 /\ k = 1 + NW + 1 + NS + j
      BY <2>1
    <3>2. StartOrder[1 + NW + 1 + NS + j] = <<"producer", j - 1>>
      BY StartOrderFacts, Zenon
    <3>3. j - 1 = k - NW - NS - 3
      BY <1>1, <3>1
    <3>. QED  BY <3>1, <3>2, <3>3, Zenon
  <2>. QED  BY <1>1, <2>1, <2>2
<1>. QED  BY <1>1, <1>3, <1>4, <1>5, <1>6, <1>7, <1>8

\* Where each thread is in the order of stopping.
LEMMA StopPlace ==
  ASSUME NEW k \in 1 .. Len(StopOrder)
  PROVE  \/ \E i \in Producers : k = i + 1 /\ StopOrder[k] = <<"producer", i>>
         \/ k = NP + 1 /\ StopOrder[k] = <<"stage1", 0>>
         \/ \E i \in Processors : k = NP + i + 2 /\ StopOrder[k] = <<"processor", i>>
         \/ k = NP + NW + 2 /\ StopOrder[k] = <<"stage2", 0>>
         \/ \E i \in Strategies : k = NP + NW + i + 3 /\ StopOrder[k] = <<"strategy", i>>
<1>1. NP \in Nat \ {0} /\ NW \in Nat \ {0} /\ NS \in Nat \ {0}
  BY CountFacts DEF NP, NW, NS
<1>2. Producers = 0 .. NP - 1 /\ Processors = 0 .. NW - 1 /\ Strategies = 0 .. NS - 1
  BY DEF Producers, Processors, Strategies, NP, NW, NS
<1>3. k \in 1 .. NW + NS + NP + 2
  BY <1>1, StopOrderFacts
<1>. HIDE DEF NP, NW, NS
<1>4. CASE k \in 1 .. NP
  <2>1. k - 1 \in Producers
    BY <1>1, <1>2, <1>4
  <2>2. StopOrder[k] = <<"producer", k - 1>>
    BY <1>1, <1>4, StopOrderFacts
  <2>. QED  BY <2>1, <2>2
<1>5. CASE k = NP + 1
  BY <1>1, <1>5, StopOrderFacts
<1>6. CASE k \in NP + 2 .. NP + NW + 1
  <2>1. k - NP - 2 \in Processors /\ k - NP - 1 \in 1 .. NW /\ k = NP + 1 + (k - NP - 1)
    BY <1>1, <1>2, <1>6
  <2>2. StopOrder[k] = <<"processor", k - NP - 2>>
    <3>1. PICK j \in 1 .. NW : j = k - NP - 1 /\ k = NP + 1 + j
      BY <2>1
    <3>2. StopOrder[NP + 1 + j] = <<"processor", j - 1>>
      BY StopOrderFacts, Zenon
    <3>3. j - 1 = k - NP - 2
      BY <1>1, <3>1
    <3>. QED  BY <3>1, <3>2, <3>3, Zenon
  <2>. QED  BY <1>1, <2>1, <2>2
<1>7. CASE k = NP + NW + 2
  BY <1>1, <1>7, StopOrderFacts
<1>8. CASE k \in NP + NW + 3 .. NW + NS + NP + 2
  <2>1. /\ k - NP - NW - 3 \in Strategies /\ k - NP - NW - 2 \in 1 .. NS
        /\ k = NP + 1 + NW + 1 + (k - NP - NW - 2)
    BY <1>1, <1>2, <1>8
  <2>2. StopOrder[k] = <<"strategy", k - NP - NW - 3>>
    <3>1. PICK j \in 1 .. NS : j = k - NP - NW - 2 /\ k = NP + 1 + NW + 1 + j
      BY <2>1
    <3>2. StopOrder[NP + 1 + NW + 1 + j] = <<"strategy", j - 1>>
      BY StopOrderFacts, Zenon
    <3>3. j - 1 = k - NP - NW - 3
      BY <1>1, <3>1
    <3>. QED  BY <3>1, <3>2, <3>3, Zenon
  <2>. QED  BY <1>1, <2>1, <2>2
<1>. QED  BY <1>1, <1>3, <1>4, <1>5, <1>6, <1>7, <1>8

\* No thread is started twice, and every one that is is one of AllThreads.
LEMMA StartOnce ==
  /\ \A k \in 1 .. Len(StartOrder) : StartOrder[k] \in AllThreads
  /\ \A j, k \in 1 .. Len(StartOrder) : StartOrder[j] = StartOrder[k] => j = k
<1>1. \A k \in 1 .. Len(StartOrder) : StartOrder[k] \in AllThreads
  BY StartPlace DEF AllThreads
<1>2. ASSUME NEW j \in 1 .. Len(StartOrder), NEW k \in 1 .. Len(StartOrder),
             StartOrder[j] = StartOrder[k]
      PROVE  j = k
  BY <1>2, StartPlace
<1>. QED  BY <1>1, <1>2

-----------------------------------------------------------------------------
(* Type correctness *)

\* The parts of the type invariant, one for each component.  A producer has
\* counted fewer messages than it has numbered, and one fewer still while it
\* has one in hand: that is what bounds its counter.
MainOK ==
  /\ main \in [pc : {"start", "run", "stop", "join", "report", "failed", "exit", "undefined"},
               at : 1 .. Len(StartOrder)]
  /\ g_running \in BOOLEAN
ProducersOK ==
  /\ producer \in [Producers -> P!Object]
  /\ \A i \in Producers :
       /\ producer[i].pc = "push" <=> producer[i].message # NoMessage
       /\ producer[i].messages_produced_ < producer[i].next_sequence_
       /\ producer[i].pc = "push" =>
            producer[i].messages_produced_ + 1 < producer[i].next_sequence_
Stage1OK ==
  /\ stage1 \in S1!Object
  /\ stage1.pc = "push" <=> stage1.message # NoMessage
  /\ stage1.pc = "push" => get_processor_for_message(stage1.message.msg_type) \in Processors
ProcessorsOK ==
  /\ processor \in [Processors -> W!Object]
  /\ \A i \in Processors : processor[i].pc = "push" <=> processor[i].message # NoMessage
Stage2OK ==
  /\ stage2 \in S2!Object
  /\ stage2.pc = "push" <=> stage2.message # NoMessage
  /\ stage2.pc = "push" => get_strategy_for_message(stage2.message.msg_type) \in Strategies
StrategiesOK == strategy \in [Strategies -> T!Object]
LostOK ==
  lost \subseteq [message : Message, at : {"producer", "stage1", "processor", "stage2"}]

\* A thread main has not come to yet has not begun.
FreshOK ==
  main.pc = "start" =>
    \A k \in main.at .. Len(StartOrder) : PcOf(StartOrder[k]) = "new"

\* The components' part, and all of it.
ObjectsOK ==
  /\ ProducersOK /\ Stage1OK /\ ProcessorsOK /\ Stage2OK /\ StrategiesOK
  /\ QueuesOK(producer_queues, Producers) /\ QueuesOK(stage1_queues, Processors)
  /\ QueuesOK(processor_queues, Processors) /\ QueuesOK(stage2_queues, Strategies)
  /\ LostOK
TypeInv == MainOK /\ FreshOK /\ ObjectsOK

\* Pushing into a queue that has room and popping from one that is not empty
\* keep the queues in their range.
LEMMA PushType ==
  ASSUME NEW ids, NEW q, NEW i \in ids, NEW m \in Message,
         QueuesOK(q, ids), Len(q[i]) < Capacity
  PROVE  QueuesOK([q EXCEPT ![i] = Append(@, m)], ids)
<1>1. Append(q[i], m) \in Seq(Message) /\ Len(Append(q[i], m)) = Len(q[i]) + 1
  BY DEF QueuesOK
<1>2. Len(Append(q[i], m)) <= Capacity
  BY <1>1, BoundFacts DEF QueuesOK
<1>. QED  BY <1>1, <1>2 DEF QueuesOK

\* A try_pop that returns a message keeps the queues within their capacity, and
\* what it returns is a message.
LEMMA PopType ==
  ASSUME NEW ids, NEW q, NEW i \in ids, QueuesOK(q, ids), q[i] # <<>>
  PROVE  /\ QueuesOK([q EXCEPT ![i] = Tail(@)], ids)
         /\ Head(q[i]) \in Message
<1>1. q[i] \in Seq(Message) /\ Len(q[i]) <= Capacity
  BY DEF QueuesOK
<1>2. /\ Tail(q[i]) \in Seq(Message) /\ Len(Tail(q[i])) = Len(q[i]) - 1
      /\ Head(q[i]) \in Message
  BY <1>1
<1>3. Len(Tail(q[i])) <= Capacity
  BY <1>1, <1>2, BoundFacts
<1>. QED  BY <1>2, <1>3 DEF QueuesOK

\* The steps of a producer.
LEMMA ProducerTypes ==
  ASSUME TypeInv, NEW i \in Producers,
         \/ P!Start(i) /\ producer[i].pc = "new"
         \/ P!StartFails(i) \/ P!Stop(i) \/ P!producer_loop(i)
  PROVE  ProducersOK' /\ QueuesOK(producer_queues, Producers)' /\ LostOK'
<1>. USE BoundFacts, NoMessageAssumption
<1>0. /\ ProducersOK /\ QueuesOK(producer_queues, Producers) /\ LostOK
      /\ producer[i] \in P!Object
  BY DEF TypeInv, ObjectsOK, ProducersOK
<1>1. CASE P!Start(i) /\ producer[i].pc = "new"
  BY <1>0, <1>1 DEF P!Start, ProducersOK, P!Object, LostOK
<1>2. CASE P!StartFails(i)
  BY <1>0, <1>2 DEF P!StartFails, ProducersOK, P!Object, LostOK
<1>3. CASE P!Stop(i)
  BY <1>0, <1>3 DEF P!Stop, ProducersOK, P!Object, LostOK
<1>4. CASE P!Begin(i)
  BY <1>0, <1>4 DEF P!Begin, ProducersOK, P!Object, LostOK
<1>5. CASE P!Generate(i)
  <2>1. PICK t \in MsgTypes :
          producer' = [producer EXCEPT
            ![i].message = P!NewMessage(t, i, producer[i].next_sequence_),
            ![i].next_sequence_ = @ + 1,
            ![i].retry = 0,
            ![i].pc = "push"]
    BY <1>5 DEF P!Generate
  <2>2. P!NewMessage(t, i, producer[i].next_sequence_) \in Message
    BY <1>0, <1>5, IdFacts DEF P!NewMessage, P!Object, P!Generate, Message
  <2>. QED  BY <1>0, <1>5, <2>1, <2>2 DEF P!Generate, ProducersOK, P!Object, LostOK
<1>6. CASE P!Send(i)
  <2>1. producer[i].message \in Message
    BY <1>0, <1>6 DEF P!Send, ProducersOK, P!Object
  <2>2. QueuesOK(producer_queues, Producers)'
    BY <1>0, <1>6, <2>1, PushType DEF P!Send
  <2>. QED  BY <1>0, <1>6, <2>2 DEF P!Send, ProducersOK, P!Object, LostOK
<1>7. CASE P!Retry(i)
  <2>1. producer[i].retry + 1 \in 0 .. ProducerTries - 1
    BY <1>0, <1>7 DEF P!Retry, P!Object
  <2>. QED  BY <1>0, <1>7, <2>1 DEF P!Retry, ProducersOK, P!Object, LostOK
<1>8. CASE P!GiveUp(i)
  <2>1. producer[i].message \in Message
    BY <1>0, <1>8 DEF P!GiveUp, ProducersOK, P!Object
  <2>2. LostOK'
    BY <1>0, <1>8, <2>1 DEF P!GiveUp, LostOK
  <2>. QED  BY <1>0, <1>8, <2>2 DEF P!GiveUp, ProducersOK, P!Object
<1>9. CASE P!Exit(i)
  BY <1>0, <1>9 DEF P!Exit, ProducersOK, P!Object, LostOK
<1>. QED  BY <1>1, <1>2, <1>3, <1>4, <1>5, <1>6, <1>7, <1>8, <1>9 DEF P!producer_loop

\* The steps of the stage 1 router.
LEMMA Stage1Types ==
  ASSUME TypeInv,
         \/ S1!Start /\ stage1.pc = "new"
         \/ S1!StartFails \/ S1!Stop \/ S1!routing_loop
  PROVE  /\ Stage1OK' /\ LostOK'
         /\ QueuesOK(producer_queues, Producers)' /\ QueuesOK(stage1_queues, Processors)'
<1>. USE BoundFacts, NoMessageAssumption
<1>0. /\ Stage1OK /\ LostOK /\ stage1 \in S1!Object /\ stage1.cursor \in Producers
      /\ QueuesOK(producer_queues, Producers) /\ QueuesOK(stage1_queues, Processors)
  BY DEF TypeInv, ObjectsOK, Stage1OK, S1!Object
<1>1. CASE S1!Start /\ stage1.pc = "new"
  BY <1>0, <1>1 DEF S1!Start, Stage1OK, S1!Object, LostOK
<1>2. CASE S1!StartFails
  BY <1>0, <1>2 DEF S1!StartFails, Stage1OK, S1!Object, LostOK
<1>3. CASE S1!Stop
  BY <1>0, <1>3 DEF S1!Stop, Stage1OK, S1!Object, LostOK
<1>4. CASE S1!Loop
  BY <1>0, <1>4, IdFacts DEF S1!Loop, Stage1OK, S1!Object, LostOK
<1>5. CASE S1!Pop
  <2>1. Head(producer_queues[stage1.cursor]) \in Message /\ QueuesOK(producer_queues, Producers)'
    BY <1>0, <1>5, PopType DEF S1!Pop
  <2>2. PICK m \in Message :
          /\ get_processor_for_message(m.msg_type) \in Processors
          /\ stage1' = [stage1 EXCEPT !.message = m, !.retry = 0, !.pc = "push"]
    BY <1>5, <2>1 DEF S1!Pop
  <2>3. stage1' \in S1!Object /\ stage1'.pc = "push" /\ stage1'.message = m
    <3>1. 0 \in 0 .. PushTries - 1 /\ m \in Message \union {NoMessage}
      OBVIOUS
    <3>2. [stage1 EXCEPT !.message = m, !.retry = 0, !.pc = "push"] \in S1!Object
      BY ONLY <1>0, <3>1 DEF S1!Object
    <3>3. stage1'.pc = "push" /\ stage1'.message = m
      BY ONLY <1>0, <2>2 DEF S1!Object
    <3>. QED  BY <2>2, <3>2, <3>3
  <2>. QED  BY <1>0, <1>5, <2>1, <2>2, <2>3 DEF S1!Pop, Stage1OK, LostOK
<1>6. CASE S1!PopUnroutable
  <2>1. Head(producer_queues[stage1.cursor]) \in Message /\ QueuesOK(producer_queues, Producers)'
    BY <1>0, <1>6, PopType DEF S1!PopUnroutable
  <2>2. LostOK'
    BY <1>0, <1>6, <2>1 DEF S1!PopUnroutable, LostOK
  <2>3. S1!Incremented(stage1.routing_errors_) \in 0 .. CounterRange - 1
    BY <1>0, IncrementedType DEF S1!Incremented, S1!Object
  <2>. QED  BY <1>0, <1>6, <2>1, <2>2, <2>3 DEF S1!PopUnroutable, Stage1OK, S1!Object
<1>7. CASE S1!NextQueue
  BY <1>0, <1>7 DEF S1!NextQueue, Stage1OK, S1!Object, LostOK
<1>8. CASE S1!Send
  <2>1. stage1.message \in Message /\ S1!Target \in Processors
    BY <1>0, <1>8 DEF S1!Send, S1!Target, Stage1OK, S1!Object
  <2>2. QueuesOK(stage1_queues, Processors)'
    BY <1>0, <1>8, <2>1, PushType DEF S1!Send
  <2>3. S1!Incremented(stage1.messages_routed_) \in 0 .. CounterRange - 1
    BY <1>0, IncrementedType DEF S1!Incremented, S1!Object
  <2>. QED  BY <1>0, <1>8, <2>2, <2>3 DEF S1!Send, Stage1OK, S1!Object, LostOK
<1>9. CASE S1!Retry
  <2>1. stage1.retry + 1 \in 0 .. PushTries - 1
    BY <1>0, <1>9 DEF S1!Retry, S1!Object
  <2>. QED  BY <1>0, <1>9, <2>1 DEF S1!Retry, Stage1OK, S1!Object, LostOK
<1>10. CASE S1!GiveUp
  <2>1. stage1.message \in Message
    BY <1>0, <1>10 DEF S1!GiveUp, Stage1OK, S1!Object
  <2>2. LostOK'
    BY <1>0, <1>10, <2>1 DEF S1!GiveUp, LostOK
  <2>3. S1!Incremented(stage1.routing_errors_) \in 0 .. CounterRange - 1
    BY <1>0, IncrementedType DEF S1!Incremented, S1!Object
  <2>. QED  BY <1>0, <1>10, <2>2, <2>3 DEF S1!GiveUp, Stage1OK, S1!Object
<1>. QED  BY <1>1, <1>2, <1>3, <1>4, <1>5, <1>6, <1>7, <1>8, <1>9, <1>10 DEF S1!routing_loop

\* The steps of the stage 2 router.
LEMMA Stage2Types ==
  ASSUME TypeInv,
         \/ S2!Start /\ stage2.pc = "new"
         \/ S2!StartFails \/ S2!Stop \/ S2!routing_loop
  PROVE  /\ Stage2OK' /\ LostOK'
         /\ QueuesOK(processor_queues, Processors)' /\ QueuesOK(stage2_queues, Strategies)'
<1>. USE BoundFacts, NoMessageAssumption
<1>0. /\ Stage2OK /\ LostOK /\ stage2 \in S2!Object /\ stage2.cursor \in Processors
      /\ QueuesOK(processor_queues, Processors) /\ QueuesOK(stage2_queues, Strategies)
  BY DEF TypeInv, ObjectsOK, Stage2OK, S2!Object
<1>1. CASE S2!Start /\ stage2.pc = "new"
  BY <1>0, <1>1 DEF S2!Start, Stage2OK, S2!Object, LostOK
<1>2. CASE S2!StartFails
  BY <1>0, <1>2 DEF S2!StartFails, Stage2OK, S2!Object, LostOK
<1>3. CASE S2!Stop
  BY <1>0, <1>3 DEF S2!Stop, Stage2OK, S2!Object, LostOK
<1>4. CASE S2!Loop
  BY <1>0, <1>4, IdFacts DEF S2!Loop, Stage2OK, S2!Object, LostOK
<1>5. CASE S2!Pop
  <2>1. Head(processor_queues[stage2.cursor]) \in Message /\ QueuesOK(processor_queues, Processors)'
    BY <1>0, <1>5, PopType DEF S2!Pop
  <2>2. PICK m \in Message :
          /\ get_strategy_for_message(m.msg_type) \in Strategies
          /\ stage2' = [stage2 EXCEPT !.message = m, !.retry = 0, !.pc = "push"]
    BY <1>5, <2>1 DEF S2!Pop
  <2>3. stage2' \in S2!Object /\ stage2'.pc = "push" /\ stage2'.message = m
    <3>1. 0 \in 0 .. PushTries - 1 /\ m \in Message \union {NoMessage}
      OBVIOUS
    <3>2. [stage2 EXCEPT !.message = m, !.retry = 0, !.pc = "push"] \in S2!Object
      BY ONLY <1>0, <3>1 DEF S2!Object
    <3>3. stage2'.pc = "push" /\ stage2'.message = m
      BY ONLY <1>0, <2>2 DEF S2!Object
    <3>. QED  BY <2>2, <3>2, <3>3
  <2>. QED  BY <1>0, <1>5, <2>1, <2>2, <2>3 DEF S2!Pop, Stage2OK, LostOK
<1>6. CASE S2!PopUnroutable
  <2>1. Head(processor_queues[stage2.cursor]) \in Message /\ QueuesOK(processor_queues, Processors)'
    BY <1>0, <1>6, PopType DEF S2!PopUnroutable
  <2>2. LostOK'
    BY <1>0, <1>6, <2>1 DEF S2!PopUnroutable, LostOK
  <2>3. S2!Incremented(stage2.routing_errors_) \in 0 .. CounterRange - 1
    BY <1>0, IncrementedType DEF S2!Incremented, S2!Object
  <2>. QED  BY <1>0, <1>6, <2>1, <2>2, <2>3 DEF S2!PopUnroutable, Stage2OK, S2!Object
<1>7. CASE S2!NextQueue
  BY <1>0, <1>7 DEF S2!NextQueue, Stage2OK, S2!Object, LostOK
<1>8. CASE S2!Send
  <2>1. stage2.message \in Message /\ S2!Target \in Strategies
    BY <1>0, <1>8 DEF S2!Send, S2!Target, Stage2OK, S2!Object
  <2>2. QueuesOK(stage2_queues, Strategies)'
    BY <1>0, <1>8, <2>1, PushType DEF S2!Send
  <2>3. S2!Incremented(stage2.messages_routed_) \in 0 .. CounterRange - 1
    BY <1>0, IncrementedType DEF S2!Incremented, S2!Object
  <2>. QED  BY <1>0, <1>8, <2>2, <2>3 DEF S2!Send, Stage2OK, S2!Object, LostOK
<1>9. CASE S2!Retry
  <2>1. stage2.retry + 1 \in 0 .. PushTries - 1
    BY <1>0, <1>9 DEF S2!Retry, S2!Object
  <2>. QED  BY <1>0, <1>9, <2>1 DEF S2!Retry, Stage2OK, S2!Object, LostOK
<1>10. CASE S2!GiveUp
  <2>1. stage2.message \in Message
    BY <1>0, <1>10 DEF S2!GiveUp, Stage2OK, S2!Object
  <2>2. LostOK'
    BY <1>0, <1>10, <2>1 DEF S2!GiveUp, LostOK
  <2>3. S2!Incremented(stage2.routing_errors_) \in 0 .. CounterRange - 1
    BY <1>0, IncrementedType DEF S2!Incremented, S2!Object
  <2>. QED  BY <1>0, <1>10, <2>2, <2>3 DEF S2!GiveUp, Stage2OK, S2!Object
<1>. QED  BY <1>1, <1>2, <1>3, <1>4, <1>5, <1>6, <1>7, <1>8, <1>9, <1>10 DEF S2!routing_loop

\* The steps of a processor.
LEMMA ProcessorTypes ==
  ASSUME TypeInv, NEW i \in Processors,
         \/ W!Start(i) /\ processor[i].pc = "new"
         \/ W!StartFails(i) \/ W!Stop(i) \/ W!processor_loop(i)
  PROVE  /\ ProcessorsOK' /\ LostOK'
         /\ QueuesOK(stage1_queues, Processors)' /\ QueuesOK(processor_queues, Processors)'
<1>. USE BoundFacts, NoMessageAssumption
<1>0. /\ ProcessorsOK /\ LostOK /\ processor[i] \in W!Object
      /\ QueuesOK(stage1_queues, Processors) /\ QueuesOK(processor_queues, Processors)
  BY DEF TypeInv, ObjectsOK, ProcessorsOK
<1>1. CASE W!Start(i) /\ processor[i].pc = "new"
  BY <1>0, <1>1 DEF W!Start, ProcessorsOK, W!Object, LostOK
<1>2. CASE W!StartFails(i)
  BY <1>0, <1>2 DEF W!StartFails, ProcessorsOK, W!Object, LostOK
<1>3. CASE W!Stop(i)
  BY <1>0, <1>3 DEF W!Stop, ProcessorsOK, W!Object, LostOK
<1>4. CASE W!Loop(i)
  BY <1>0, <1>4 DEF W!Loop, ProcessorsOK, W!Object, LostOK
<1>5. CASE W!Pop(i)
  <2>1. Head(stage1_queues[i]) \in Message /\ QueuesOK(stage1_queues, Processors)'
    BY <1>0, <1>5, PopType DEF W!Pop
  <2>2. [Head(stage1_queues[i]) EXCEPT !.processor_id = i] \in Message
    BY <2>1 DEF Message
  <2>. QED  BY <1>0, <1>5, <2>1, <2>2 DEF W!Pop, ProcessorsOK, W!Object, LostOK
<1>6. CASE W!Empty(i)
  BY <1>0, <1>6 DEF W!Empty, ProcessorsOK, W!Object, LostOK
<1>7. CASE W!Send(i)
  <2>1. processor[i].message \in Message
    BY <1>0, <1>7 DEF W!Send, ProcessorsOK, W!Object
  <2>2. QueuesOK(processor_queues, Processors)'
    BY <1>0, <1>7, <2>1, PushType DEF W!Send
  <2>. QED  BY <1>0, <1>7, <2>2 DEF W!Send, ProcessorsOK, W!Object, LostOK
<1>8. CASE W!Retry(i)
  <2>1. processor[i].retry + 1 \in 0 .. PushTries - 1
    BY <1>0, <1>8 DEF W!Retry, W!Object
  <2>. QED  BY <1>0, <1>8, <2>1 DEF W!Retry, ProcessorsOK, W!Object, LostOK
<1>9. CASE W!GiveUp(i)
  <2>1. processor[i].message \in Message
    BY <1>0, <1>9 DEF W!GiveUp, ProcessorsOK, W!Object
  <2>2. LostOK'
    BY <1>0, <1>9, <2>1 DEF W!GiveUp, LostOK
  <2>. QED  BY <1>0, <1>9, <2>2 DEF W!GiveUp, ProcessorsOK, W!Object
<1>. QED  BY <1>1, <1>2, <1>3, <1>4, <1>5, <1>6, <1>7, <1>8, <1>9 DEF W!processor_loop

\* The steps of a strategy.
LEMMA StrategyTypes ==
  ASSUME TypeInv, NEW i \in Strategies,
         T!Start(i) \/ T!StartFails(i) \/ T!Stop(i) \/ T!strategy_loop(i)
  PROVE  StrategiesOK' /\ QueuesOK(stage2_queues, Strategies)'
<1>0. /\ StrategiesOK /\ strategy[i] \in T!Object
      /\ QueuesOK(stage2_queues, Strategies)
  BY DEF TypeInv, ObjectsOK, StrategiesOK
<1>1. CASE T!Start(i)
  BY <1>0, <1>1 DEF T!Start, StrategiesOK, T!Object
<1>2. CASE T!StartFails(i)
  BY <1>0, <1>2 DEF T!StartFails, StrategiesOK, T!Object
<1>3. CASE T!Stop(i)
  BY <1>0, <1>3 DEF T!Stop, StrategiesOK, T!Object
<1>4. CASE T!Loop(i)
  BY <1>0, <1>4 DEF T!Loop, StrategiesOK, T!Object
<1>5. CASE T!Pop(i)
  <2>1. Head(stage2_queues[i]) \in Message /\ QueuesOK(stage2_queues, Strategies)'
    BY <1>0, <1>5, PopType DEF T!Pop
  <2>2. T!process_message(strategy[i], Head(stage2_queues[i])) \in T!Object
    <3>. DEFINE m == Head(stage2_queues[i])
    <3>1. T!KeyOf(m) \in T!Key /\ m.sequence_number + 1 \in Nat /\ m \in Message
      BY <2>1, BoundFacts DEF T!KeyOf, T!Key, Message
    <3>. HIDE DEF m
    <3>2. Append(strategy[i].log, m) \in Seq(Message)
      BY <1>0, <3>1 DEF T!Object
    <3>3. /\ (IF strategy[i].expected_sequence_[T!KeyOf(m)] \notin {0, m.sequence_number}
                THEN strategy[i].ordering_violations_ + 1
                ELSE strategy[i].ordering_violations_) \in Nat
          /\ strategy[i].messages_delivered_ + 1 \in Nat
      BY <1>0 DEF T!Object
    <3>4. [strategy[i].expected_sequence_ EXCEPT ![T!KeyOf(m)] = m.sequence_number + 1]
            \in [T!Key -> Nat]
      BY <1>0, <3>1 DEF T!Object
    <3>5. T!process_message(strategy[i], m) \in T!Object
      BY <1>0, <3>2, <3>3, <3>4 DEF T!process_message, T!Object
    <3>. QED  BY <3>5 DEF m
  <2>. QED  BY <1>0, <1>5, <2>1, <2>2 DEF T!Pop, StrategiesOK
<1>6. CASE T!Empty(i)
  BY <1>0, <1>6 DEF T!Empty, StrategiesOK, T!Object
<1>. QED  BY <1>1, <1>2, <1>3, <1>4, <1>5, <1>6 DEF T!strategy_loop

-----------------------------------------------------------------------------
(* Where the threads are *)

\* What PcOf stands for, before and after a step.
LEMMA PcOfFacts ==
  /\ \A i : PcOf(<<"producer", i>>) = producer[i].pc
  /\ PcOf(<<"stage1", 0>>) = stage1.pc
  /\ \A i : PcOf(<<"processor", i>>) = processor[i].pc
  /\ PcOf(<<"stage2", 0>>) = stage2.pc
  /\ \A i : PcOf(<<"strategy", i>>) = strategy[i].pc
  /\ \A i : PcOf(<<"producer", i>>)' = producer'[i].pc
  /\ PcOf(<<"stage1", 0>>)' = stage1'.pc
  /\ \A i : PcOf(<<"processor", i>>)' = processor'[i].pc
  /\ PcOf(<<"stage2", 0>>)' = stage2'.pc
  /\ \A i : PcOf(<<"strategy", i>>)' = strategy'[i].pc
BY DEF PcOf

\* A step of one of the five components.
ComponentStep ==
  \/ \E i \in Producers : ProducerStep(i)
  \/ Stage1Step
  \/ \E i \in Processors : ProcessorStep(i)
  \/ Stage2Step
  \/ \E i \in Strategies : StrategyStep(i)

\* A thread that has not begun, or has ended, does not move by itself.
LEMMA IdleStays ==
  ASSUME TypeInv, ComponentStep, NEW t \in AllThreads, PcOf(t) \in {"new", "exit"}
  PROVE  PcOf(t)' = PcOf(t)
<1>1. ASSUME NEW i \in Producers, ProducerStep(i)
      PROVE  /\ producer[i].pc \notin {"new", "exit"}
             /\ \A j \in Producers \ {i} : producer'[j] = producer[j]
             /\ UNCHANGED <<stage1, processor, stage2, strategy>>
  BY <1>1 DEF ProducerStep, AtProducers, P!producer_loop, P!Begin, P!Generate, P!Send,
              P!Retry, P!GiveUp, P!Exit, TypeInv, ObjectsOK, ProducersOK
<1>2. ASSUME Stage1Step
      PROVE  /\ stage1.pc \notin {"new", "exit"}
             /\ UNCHANGED <<producer, processor, stage2, strategy>>
  BY <1>2 DEF Stage1Step, AtStage1, S1!routing_loop, S1!Loop, S1!Pop, S1!PopUnroutable,
              S1!NextQueue, S1!Send, S1!Retry, S1!GiveUp
<1>3. ASSUME NEW i \in Processors, ProcessorStep(i)
      PROVE  /\ processor[i].pc \notin {"new", "exit"}
             /\ \A j \in Processors \ {i} : processor'[j] = processor[j]
             /\ UNCHANGED <<producer, stage1, stage2, strategy>>
  BY <1>3 DEF ProcessorStep, AtProcessors, W!processor_loop, W!Loop, W!Pop, W!Empty, W!Send,
              W!Retry, W!GiveUp, TypeInv, ObjectsOK, ProcessorsOK
<1>4. ASSUME Stage2Step
      PROVE  /\ stage2.pc \notin {"new", "exit"}
             /\ UNCHANGED <<producer, stage1, processor, strategy>>
  BY <1>4 DEF Stage2Step, AtStage2, S2!routing_loop, S2!Loop, S2!Pop, S2!PopUnroutable,
              S2!NextQueue, S2!Send, S2!Retry, S2!GiveUp
<1>5. ASSUME NEW i \in Strategies, StrategyStep(i)
      PROVE  /\ strategy[i].pc \notin {"new", "exit"}
             /\ \A j \in Strategies \ {i} : strategy'[j] = strategy[j]
             /\ UNCHANGED <<producer, stage1, processor, stage2>>
  BY <1>5 DEF StrategyStep, AtStrategies, T!strategy_loop, T!Loop, T!Pop, T!Empty,
              TypeInv, ObjectsOK, StrategiesOK
<1>6. CASE \E i \in Producers : ProducerStep(i)
  BY <1>1, <1>6, PcOfFacts DEF AllThreads
<1>7. CASE Stage1Step
  BY <1>2, <1>7, PcOfFacts DEF AllThreads
<1>8. CASE \E i \in Processors : ProcessorStep(i)
  BY <1>3, <1>8, PcOfFacts DEF AllThreads
<1>9. CASE Stage2Step
  BY <1>4, <1>9, PcOfFacts DEF AllThreads
<1>10. CASE \E i \in Strategies : StrategyStep(i)
  BY <1>5, <1>10, PcOfFacts DEF AllThreads
<1>. QED  BY <1>6, <1>7, <1>8, <1>9, <1>10 DEF ComponentStep

\* Starting a thread moves no other.
LEMMA StartMovesOne ==
  ASSUME TypeInv, NEW u \in AllThreads, StartThread(u), NEW t \in AllThreads \ {u}
  PROVE  PcOf(t)' = PcOf(t)
<1>1. ASSUME NEW i \in Producers, u = <<"producer", i>>
      PROVE  /\ \A j \in Producers \ {i} : producer'[j] = producer[j]
             /\ UNCHANGED <<stage1, processor, stage2, strategy>>
  BY <1>1 DEF StartThread, AtProducers, P!Start, TypeInv, ObjectsOK, ProducersOK
<1>2. ASSUME u = <<"stage1", 0>>  PROVE  UNCHANGED <<producer, processor, stage2, strategy>>
  BY <1>2 DEF StartThread, AtStage1
<1>3. ASSUME NEW i \in Processors, u = <<"processor", i>>
      PROVE  /\ \A j \in Processors \ {i} : processor'[j] = processor[j]
             /\ UNCHANGED <<producer, stage1, stage2, strategy>>
  BY <1>3 DEF StartThread, AtProcessors, W!Start, TypeInv, ObjectsOK, ProcessorsOK
<1>4. ASSUME u = <<"stage2", 0>>  PROVE  UNCHANGED <<producer, stage1, processor, strategy>>
  BY <1>4 DEF StartThread, AtStage2
<1>5. ASSUME NEW i \in Strategies, u = <<"strategy", i>>
      PROVE  /\ \A j \in Strategies \ {i} : strategy'[j] = strategy[j]
             /\ UNCHANGED <<producer, stage1, processor, stage2>>
  BY <1>5 DEF StartThread, AtStrategies, T!Start, TypeInv, ObjectsOK, StrategiesOK
<1>. QED  BY <1>1, <1>2, <1>3, <1>4, <1>5, PcOfFacts DEF AllThreads

\* Neither a failed start nor the store in stop() moves a thread.
LEMMA FlagMovesNone ==
  ASSUME TypeInv, NEW u \in AllThreads, StartThreadFails(u) \/ StopThread(u),
         NEW t \in AllThreads
  PROVE  PcOf(t)' = PcOf(t)
<1>1. ASSUME NEW i \in Producers, u = <<"producer", i>>
      PROVE  /\ \A j \in Producers : producer'[j].pc = producer[j].pc
             /\ UNCHANGED <<stage1, processor, stage2, strategy>>
  BY <1>1 DEF StartThreadFails, StopThread, AtProducers, P!StartFails, P!Stop, TypeInv, ObjectsOK,
              ProducersOK, P!Object
<1>2. ASSUME u = <<"stage1", 0>>
      PROVE  stage1'.pc = stage1.pc /\ UNCHANGED <<producer, processor, stage2, strategy>>
  BY <1>2 DEF StartThreadFails, StopThread, AtStage1, S1!StartFails, S1!Stop, TypeInv, ObjectsOK,
              Stage1OK, S1!Object
<1>3. ASSUME NEW i \in Processors, u = <<"processor", i>>
      PROVE  /\ \A j \in Processors : processor'[j].pc = processor[j].pc
             /\ UNCHANGED <<producer, stage1, stage2, strategy>>
  BY <1>3 DEF StartThreadFails, StopThread, AtProcessors, W!StartFails, W!Stop, TypeInv, ObjectsOK,
              ProcessorsOK, W!Object
<1>4. ASSUME u = <<"stage2", 0>>
      PROVE  stage2'.pc = stage2.pc /\ UNCHANGED <<producer, stage1, processor, strategy>>
  BY <1>4 DEF StartThreadFails, StopThread, AtStage2, S2!StartFails, S2!Stop, TypeInv, ObjectsOK,
              Stage2OK, S2!Object
<1>5. ASSUME NEW i \in Strategies, u = <<"strategy", i>>
      PROVE  /\ \A j \in Strategies : strategy'[j].pc = strategy[j].pc
             /\ UNCHANGED <<producer, stage1, processor, stage2>>
  <2>1. PICK b \in BOOLEAN : strategy' = [strategy EXCEPT ![i].running_ = b]
    BY <1>5 DEF StartThreadFails, StopThread, T!StartFails, T!Stop
  <2>2. \A j \in Strategies : strategy[j] \in T!Object /\ strategy \in [Strategies -> T!Object]
    BY DEF TypeInv, ObjectsOK, StrategiesOK
  <2>3. \A j \in Strategies : strategy'[j].pc = strategy[j].pc
    BY <2>1, <2>2 DEF T!Object
  <2>. QED  BY <1>5, <2>3 DEF StartThreadFails, StopThread, AtStrategies
<1>. QED  BY <1>1, <1>2, <1>3, <1>4, <1>5, PcOfFacts DEF AllThreads

-----------------------------------------------------------------------------
(* The theorem *)

\* A step of a component.
LEMMA ComponentTypes ==
  ASSUME TypeInv, ComponentStep
  PROVE  TypeInv'
<1>1. MainOK' /\ FreshOK'
  <2>1. UNCHANGED <<main, g_running>>
    BY DEF ComponentStep, ProducerStep, Stage1Step, ProcessorStep, Stage2Step, StrategyStep,
           CanStep
  <2>2. ASSUME main.pc = "start", NEW k \in main.at .. Len(StartOrder)
        PROVE  PcOf(StartOrder[k])' = "new"
    <3>1. k \in 1 .. Len(StartOrder) /\ PcOf(StartOrder[k]) = "new"
      BY <2>2, StartOrderFacts DEF TypeInv, ObjectsOK, MainOK, FreshOK
    <3>. QED  BY <3>1, IdleStays, StartOnce
  <2>. QED  BY <2>1, <2>2 DEF TypeInv, ObjectsOK, MainOK, FreshOK
<1>2. CASE \E i \in Producers : ProducerStep(i)
  <2>1. PICK i \in Producers : P!producer_loop(i) /\ AtProducers
    BY <1>2 DEF ProducerStep
  <2>2. ProducersOK' /\ QueuesOK(producer_queues, Producers)' /\ LostOK'
    BY <2>1, ProducerTypes
  <2>. QED  BY <1>1, <2>1, <2>2 DEF AtProducers, TypeInv, ObjectsOK, Stage1OK, ProcessorsOK, Stage2OK,
            StrategiesOK
<1>3. CASE Stage1Step
  <2>1. S1!routing_loop /\ AtStage1
    BY <1>3 DEF Stage1Step
  <2>2. /\ Stage1OK' /\ LostOK'
        /\ QueuesOK(producer_queues, Producers)' /\ QueuesOK(stage1_queues, Processors)'
    BY <2>1, Stage1Types
  <2>. QED  BY <1>1, <2>1, <2>2 DEF AtStage1, TypeInv, ObjectsOK, ProducersOK, ProcessorsOK, Stage2OK,
            StrategiesOK
<1>4. CASE \E i \in Processors : ProcessorStep(i)
  <2>1. PICK i \in Processors : W!processor_loop(i) /\ AtProcessors
    BY <1>4 DEF ProcessorStep
  <2>2. /\ ProcessorsOK' /\ LostOK'
        /\ QueuesOK(stage1_queues, Processors)' /\ QueuesOK(processor_queues, Processors)'
    BY <2>1, ProcessorTypes
  <2>. QED  BY <1>1, <2>1, <2>2 DEF AtProcessors, TypeInv, ObjectsOK, ProducersOK, Stage1OK, Stage2OK,
            StrategiesOK
<1>5. CASE Stage2Step
  <2>1. S2!routing_loop /\ AtStage2
    BY <1>5 DEF Stage2Step
  <2>2. /\ Stage2OK' /\ LostOK'
        /\ QueuesOK(processor_queues, Processors)' /\ QueuesOK(stage2_queues, Strategies)'
    BY <2>1, Stage2Types
  <2>. QED  BY <1>1, <2>1, <2>2 DEF AtStage2, TypeInv, ObjectsOK, ProducersOK, Stage1OK, ProcessorsOK,
            StrategiesOK
<1>6. CASE \E i \in Strategies : StrategyStep(i)
  <2>1. PICK i \in Strategies : T!strategy_loop(i) /\ AtStrategies
    BY <1>6 DEF StrategyStep
  <2>2. StrategiesOK' /\ QueuesOK(stage2_queues, Strategies)'
    BY <2>1, StrategyTypes
  <2>. QED  BY <1>1, <2>1, <2>2 DEF AtStrategies, TypeInv, ObjectsOK, ProducersOK, Stage1OK, ProcessorsOK,
            Stage2OK, LostOK
<1>. QED  BY <1>2, <1>3, <1>4, <1>5, <1>6 DEF ComponentStep

\* main starts a thread that has not begun, fails to start one, or tells one
\* to stop.
LEMMA ControlTypes ==
  ASSUME TypeInv, NEW t \in AllThreads,
         \/ StartThread(t) /\ PcOf(t) = "new"
         \/ StartThreadFails(t)
         \/ StopThread(t)
  PROVE  ObjectsOK'
<1>1. ASSUME NEW i \in Producers, t = <<"producer", i>>  PROVE  ObjectsOK'
  <2>1. /\ (P!Start(i) /\ producer[i].pc = "new") \/ P!StartFails(i) \/ P!Stop(i)
        /\ AtProducers
    BY <1>1, PcOfFacts DEF StartThread, StartThreadFails, StopThread
  <2>2. ProducersOK' /\ QueuesOK(producer_queues, Producers)' /\ LostOK'
    BY <2>1, ProducerTypes
  <2>. QED  BY <2>1, <2>2 DEF AtProducers, TypeInv, ObjectsOK, Stage1OK, ProcessorsOK, Stage2OK,
            StrategiesOK
<1>2. ASSUME t = <<"stage1", 0>>  PROVE  ObjectsOK'
  <2>1. ((S1!Start /\ stage1.pc = "new") \/ S1!StartFails \/ S1!Stop) /\ AtStage1
    BY <1>2, PcOfFacts DEF StartThread, StartThreadFails, StopThread
  <2>2. /\ Stage1OK' /\ LostOK'
        /\ QueuesOK(producer_queues, Producers)' /\ QueuesOK(stage1_queues, Processors)'
    BY <2>1, Stage1Types
  <2>. QED  BY <2>1, <2>2 DEF AtStage1, TypeInv, ObjectsOK, ProducersOK, ProcessorsOK, Stage2OK,
            StrategiesOK
<1>3. ASSUME NEW i \in Processors, t = <<"processor", i>>  PROVE  ObjectsOK'
  <2>1. /\ (W!Start(i) /\ processor[i].pc = "new") \/ W!StartFails(i) \/ W!Stop(i)
        /\ AtProcessors
    BY <1>3, PcOfFacts DEF StartThread, StartThreadFails, StopThread
  <2>2. /\ ProcessorsOK' /\ LostOK'
        /\ QueuesOK(stage1_queues, Processors)' /\ QueuesOK(processor_queues, Processors)'
    BY <2>1, ProcessorTypes
  <2>. QED  BY <2>1, <2>2 DEF AtProcessors, TypeInv, ObjectsOK, ProducersOK, Stage1OK, Stage2OK,
            StrategiesOK
<1>4. ASSUME t = <<"stage2", 0>>  PROVE  ObjectsOK'
  <2>1. ((S2!Start /\ stage2.pc = "new") \/ S2!StartFails \/ S2!Stop) /\ AtStage2
    BY <1>4, PcOfFacts DEF StartThread, StartThreadFails, StopThread
  <2>2. /\ Stage2OK' /\ LostOK'
        /\ QueuesOK(processor_queues, Processors)' /\ QueuesOK(stage2_queues, Strategies)'
    BY <2>1, Stage2Types
  <2>. QED  BY <2>1, <2>2 DEF AtStage2, TypeInv, ObjectsOK, ProducersOK, Stage1OK, ProcessorsOK,
            StrategiesOK
<1>5. ASSUME NEW i \in Strategies, t = <<"strategy", i>>  PROVE  ObjectsOK'
  <2>1. (T!Start(i) \/ T!StartFails(i) \/ T!Stop(i)) /\ AtStrategies
    BY <1>5 DEF StartThread, StartThreadFails, StopThread
  <2>2. StrategiesOK' /\ QueuesOK(stage2_queues, Strategies)'
    BY <2>1, StrategyTypes
  <2>. QED  BY <2>1, <2>2 DEF AtStrategies, TypeInv, ObjectsOK, ProducersOK, Stage1OK,
            ProcessorsOK, Stage2OK, LostOK
<1>. QED  BY <1>1, <1>2, <1>3, <1>4, <1>5 DEF AllThreads

\* A step of main that touches no component.
LEMMA ObjectsStay ==
  ASSUME TypeInv, UNCHANGED <<objects, queues, lost>>
  PROVE  ObjectsOK' /\ \A t \in AllThreads : PcOf(t)' = PcOf(t)
BY DEF TypeInv, ObjectsOK, objects, queues, ProducersOK, Stage1OK, ProcessorsOK, Stage2OK,
       StrategiesOK, LostOK, PcOf

\* The inductive invariant holds before main has started anything.
LEMMA TypeInit == Init => TypeInv
<1>. SUFFICES ASSUME Init  PROVE  TypeInv
  OBVIOUS
<1>. USE BoundFacts, IdFacts
<1>1. MainOK /\ g_running \in BOOLEAN
  BY StartOrderFacts, CountFacts DEF Init, MainOK, NP, NW, NS
<1>2. ProducersOK
  BY DEF Init, P!Init, ProducersOK, P!Object
<1>3. Stage1OK /\ Stage2OK
  BY DEF Init, S1!Init, S2!Init, Stage1OK, S1!Object, Stage2OK, S2!Object
<1>4. ProcessorsOK
  BY DEF Init, W!Init, ProcessorsOK, W!Object
<1>5. StrategiesOK
  BY DEF Init, T!Init, StrategiesOK, T!Object
<1>6. /\ QueuesOK(producer_queues, Producers) /\ QueuesOK(stage1_queues, Processors)
      /\ QueuesOK(processor_queues, Processors) /\ QueuesOK(stage2_queues, Strategies)
      /\ LostOK
  BY DEF Init, QueuesOK, LostOK
<1>7. \A t \in AllThreads : PcOf(t) = "new"
  BY PcOfFacts DEF Init, P!Init, S1!Init, W!Init, S2!Init, T!Init, AllThreads
<1>8. FreshOK
  BY <1>7, <1>1, StartOnce DEF FreshOK, MainOK
<1>. QED  BY <1>1, <1>2, <1>3, <1>4, <1>5, <1>6, <1>8 DEF TypeInv, ObjectsOK

\* Every step of every thread, main's included, keeps it.
LEMMA TypeStep == TypeInv /\ [Next]_vars => TypeInv'
<1>. SUFFICES ASSUME TypeInv, [Next]_vars  PROVE  TypeInv'
  OBVIOUS
<1>0. /\ main.at \in 1 .. Len(StartOrder) /\ main.at \in 1 .. Len(StopOrder)
      /\ Len(StopOrder) = Len(StartOrder) /\ Len(StartOrder) \in Nat
      /\ StartOrder[main.at] \in AllThreads /\ StopOrder[main.at] \in AllThreads
  <2>1. main.at \in 1 .. Len(StartOrder)
    BY DEF TypeInv, MainOK
  <2>2. Len(StopOrder) = Len(StartOrder) /\ Len(StartOrder) \in Nat
    BY StartOrderFacts, StopOrderFacts, CountFacts DEF NP, NW, NS
  <2>3. StopOrder[main.at] \in AllThreads
    BY <2>1, <2>2, StopPlace DEF AllThreads
  <2>. QED  BY <2>1, <2>2, <2>3, StartOnce
<1>1. CASE MainStart
  <2>1. PcOf(StartOrder[main.at]) = "new"
    BY <1>0, <1>1 DEF MainStart, TypeInv, FreshOK
  <2>2. ObjectsOK'
    BY <1>0, <1>1, <2>1, ControlTypes DEF MainStart
  <2>3. MainOK'
    BY <1>0, <1>1 DEF MainStart, TypeInv, MainOK
  <2>4. ASSUME main'.pc = "start", NEW k \in main'.at .. Len(StartOrder)
        PROVE  PcOf(StartOrder[k])' = "new"
    <3>1. main.at < Len(StartOrder) /\ main'.at = main.at + 1
      BY <1>0, <1>1, <2>4 DEF MainStart, TypeInv, MainOK
    <3>2. /\ k \in 1 .. Len(StartOrder) /\ k # main.at
          /\ PcOf(StartOrder[k]) = "new"
      BY <1>0, <1>1, <3>1 DEF MainStart, TypeInv, FreshOK
    <3>3. StartOrder[k] \in AllThreads \ {StartOrder[main.at]}
      BY <1>0, <3>2, StartOnce
    <3>. QED  BY <1>0, <1>1, <3>2, <3>3, StartMovesOne DEF MainStart
  <2>5. FreshOK'
    BY <2>4 DEF FreshOK
  <2>. QED  BY <2>2, <2>3, <2>5 DEF TypeInv
<1>2. CASE MainStartFails
  <2>1. ObjectsOK'
    BY <1>0, <1>2, ControlTypes DEF MainStartFails
  <2>. QED  BY <1>2, <2>1 DEF MainStartFails, TypeInv, MainOK, FreshOK
<1>3. CASE MainStop
  <2>1. ObjectsOK'
    BY <1>0, <1>3, ControlTypes DEF MainStop
  <2>. QED  BY <1>3, <2>1 DEF MainStop, TypeInv, MainOK, FreshOK
<1>4. CASE MainSignalled \/ MainExpired \/ MainFailed \/ UseAfterFree
  <2>1. ObjectsOK'
    BY <1>4, ObjectsStay DEF MainSignalled, MainExpired, MainFailed, UseAfterFree
  <2>. QED  BY <1>4, <2>1 DEF MainSignalled, MainExpired, MainFailed, UseAfterFree, TypeInv,
                              MainOK, FreshOK
<1>5. CASE MainJoin
  <2>1. ObjectsOK'
    BY <1>5, ObjectsStay DEF MainJoin
  <2>. QED  BY <1>0, <1>5, <2>1 DEF MainJoin, TypeInv, MainOK, FreshOK
<1>6. CASE MainReport
  <2>1. ObjectsOK'
    BY <1>6, ObjectsStay DEF MainReport
  <2>. QED  BY <1>6, <2>1 DEF MainReport, TypeInv, MainOK, FreshOK
<1>7. CASE signal_handler \/ Terminated \/ UNCHANGED vars
  <2>1. /\ UNCHANGED <<objects, queues, lost, main>>
        /\ g_running' \in BOOLEAN
    BY <1>7 DEF signal_handler, Terminated, vars, TypeInv, MainOK
  <2>2. ObjectsOK' /\ \A t \in AllThreads : PcOf(t)' = PcOf(t)
    BY <2>1, ObjectsStay
  <2>3. FreshOK'
    BY <1>0, <2>1, <2>2, StartOnce DEF TypeInv, FreshOK
  <2>. QED  BY <2>1, <2>2, <2>3 DEF TypeInv, MainOK
<1>8. CASE ComponentStep
  BY <1>8, ComponentTypes
<1>. QED  BY <1>1, <1>2, <1>3, <1>4, <1>5, <1>6, <1>7, <1>8 DEF Next, ComponentStep

\* It holds in every reachable state.
LEMMA TypeInvHolds == Spec => []TypeInv
BY TypeInit, TypeStep, PTL DEF Spec

\* Whatever the configuration, the number of messages, the capacity of the
\* queues and the numbers of tries, every variable stays in its range: no
\* queue overflows, no router's cursor leaves its queues, and a thread has a
\* message in hand exactly while it pushes.
THEOREM TypeCorrect == Spec => []TypeOK
<1>1. TypeInv => TypeOK
  BY DEF TypeInv, ObjectsOK, TypeOK, MainOK, ProducersOK, Stage1OK, ProcessorsOK, Stage2OK,
         StrategiesOK, LostOK
<1>. QED  BY <1>1, TypeInvHolds, PTL
=============================================================================
