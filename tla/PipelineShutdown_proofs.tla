---------------------- MODULE PipelineShutdown_proofs ----------------------
(***************************************************************************)
(* How the program starts and stops, for every configuration: what main    *)
(* may rely on when it joins a thread, prints its summary, or leaves       *)
(* because a thread could not be created.                                  *)
(***************************************************************************)
EXTENDS Pipeline_proofs

-----------------------------------------------------------------------------
(* The invariants *)

AllGone == \A t \in AllThreads : PcOf(t) = "exit"

\* The threads main has joined are gone, and the summary is printed last.
StopInv ==
  /\ main.pc = "run" => main.at = 1
  /\ main.pc \in {"stop", "join"} =>
       \A k \in 1 .. main.at - 1 : PcOf(StopOrder[k]) = "exit"
  /\ main.pc = "report" => AllGone
  /\ report.printed \in BOOLEAN
  /\ report.printed => main.pc = "exit" /\ AllGone /\ report = Summary

\* Nothing has been produced: there is no message anywhere upstream of the
\* stage 2 router.
Quiet ==
  /\ \A i \in Producers : producer[i].pc = "new" /\ producer_queues[i] = <<>>
  /\ stage1.pc # "push"
  /\ \A i \in Processors :
       stage1_queues[i] = <<>> /\ processor[i].pc # "push" /\ processor_queues[i] = <<>>

\* The place of producer 0 in the order of starting.
FirstProducer == NW + NS + 3

\* As long as no producer has been started nothing has been produced, and main
\* leaves the defined behaviours only when one has been.
QuietInv ==
  /\ main.pc \in {"start", "failed"} /\ main.at <= FirstProducer => Quiet
  /\ main.pc = "undefined" => main.at > FirstProducer

-----------------------------------------------------------------------------
(* More about the order of stopping *)

\* How many threads there are of each kind, and in all.
LEMMA SizeFacts ==
  /\ NP \in Nat \ {0} /\ NW \in Nat \ {0} /\ NS \in Nat \ {0}
  /\ Producers = 0 .. NP - 1 /\ Processors = 0 .. NW - 1 /\ Strategies = 0 .. NS - 1
  /\ Len(StartOrder) = NP + NW + NS + 2 /\ Len(StopOrder) = NP + NW + NS + 2
<1>1. NP \in Nat \ {0} /\ NW \in Nat \ {0} /\ NS \in Nat \ {0}
  BY CountFacts DEF NP, NW, NS
<1>2. Producers = 0 .. NP - 1 /\ Processors = 0 .. NW - 1 /\ Strategies = 0 .. NS - 1
  BY DEF Producers, Processors, Strategies, NP, NW, NS
<1>. QED  BY <1>1, <1>2, StartOrderFacts, StopOrderFacts

\* Every thread has a place in the order of stopping; the stages come one
\* after the other.
LEMMA StopIndex ==
  /\ \A i \in Producers : StopOrder[i + 1] = <<"producer", i>> /\ i + 1 \in 1 .. Len(StopOrder)
  /\ StopOrder[NP + 1] = <<"stage1", 0>> /\ NP + 1 \in 1 .. Len(StopOrder)
  /\ \A i \in Processors : /\ StopOrder[NP + i + 2] = <<"processor", i>>
                           /\ NP + i + 2 \in 1 .. Len(StopOrder)
  /\ StopOrder[NP + NW + 2] = <<"stage2", 0>> /\ NP + NW + 2 \in 1 .. Len(StopOrder)
  /\ \A i \in Strategies : /\ StopOrder[NP + NW + i + 3] = <<"strategy", i>>
                           /\ NP + NW + i + 3 \in 1 .. Len(StopOrder)
<1>1. ASSUME NEW i \in Producers
      PROVE  StopOrder[i + 1] = <<"producer", i>> /\ i + 1 \in 1 .. Len(StopOrder)
  <2>1. i + 1 \in 1 .. Len(StopOrder)
    BY SizeFacts
  <2>. QED  BY <2>1, StopPlace, SizeFacts
<1>2. StopOrder[NP + 1] = <<"stage1", 0>> /\ NP + 1 \in 1 .. Len(StopOrder)
  BY SizeFacts, StopOrderFacts
<1>3. ASSUME NEW i \in Processors
      PROVE  StopOrder[NP + i + 2] = <<"processor", i>> /\ NP + i + 2 \in 1 .. Len(StopOrder)
  <2>1. NP + i + 2 \in 1 .. Len(StopOrder)
    BY SizeFacts
  <2>. QED  BY <2>1, StopPlace, SizeFacts
<1>4. StopOrder[NP + NW + 2] = <<"stage2", 0>> /\ NP + NW + 2 \in 1 .. Len(StopOrder)
  <2>1. NP + NW + 2 \in 1 .. Len(StopOrder)
    BY SizeFacts
  <2>. QED  BY <2>1, StopPlace, SizeFacts
<1>5. ASSUME NEW i \in Strategies
      PROVE  /\ StopOrder[NP + NW + i + 3] = <<"strategy", i>>
             /\ NP + NW + i + 3 \in 1 .. Len(StopOrder)
  <2>1. NP + NW + i + 3 \in 1 .. Len(StopOrder)
    BY SizeFacts
  <2>. QED  BY <2>1, StopPlace, SizeFacts
<1>. QED  BY <1>1, <1>2, <1>3, <1>4, <1>5

\* Every thread is stopped.
LEMMA StopOnto ==
  /\ \A t \in AllThreads : \E k \in 1 .. Len(StopOrder) : StopOrder[k] = t
  /\ \A k \in 1 .. Len(StopOrder) : StopOrder[k] \in AllThreads
<1>1. \A t \in AllThreads : \E k \in 1 .. Len(StopOrder) : StopOrder[k] = t
  BY StopIndex DEF AllThreads
<1>2. \A k \in 1 .. Len(StopOrder) : StopOrder[k] \in AllThreads
  BY StopPlace DEF AllThreads
<1>. QED  BY <1>1, <1>2

-----------------------------------------------------------------------------
(* Stopping *)

\* Before main has started anything, no thread has been joined.
LEMMA StopInit == Init => StopInv
BY DEF Init, StopInv, NoReport

\* Every step keeps the threads that have been joined at their end.
LEMMA StopStep == TypeInv /\ StopInv /\ [Next]_vars => StopInv'
<1>. SUFFICES ASSUME TypeInv, StopInv, [Next]_vars  PROVE  StopInv'
  OBVIOUS
<1>0. /\ main.at \in 1 .. Len(StopOrder) /\ Len(StopOrder) \in Nat
      /\ Len(StartOrder) = Len(StopOrder)
      /\ StartOrder[main.at] \in AllThreads /\ StopOrder[main.at] \in AllThreads
  <2>1. /\ main.at \in 1 .. Len(StopOrder) /\ Len(StopOrder) \in Nat
        /\ Len(StartOrder) = Len(StopOrder)
    BY SizeFacts DEF TypeInv, MainOK
  <2>. QED  BY <2>1, StopOnto, StartOnce
<1>1. CASE MainStart \/ MainStartFails \/ MainSignalled \/ MainExpired \/ MainFailed
             \/ UseAfterFree
  <2>1. UNCHANGED report /\ ~ report.printed
    BY <1>1 DEF MainStart, MainStartFails, MainSignalled, MainExpired, MainFailed, UseAfterFree,
                StopInv
  <2>2. main'.pc # "report" /\ main'.pc # "join"
    BY <1>1 DEF MainStart, MainStartFails, MainSignalled, MainExpired, MainFailed, UseAfterFree,
                TypeInv, MainOK
  <2>3. main'.pc \in {"run", "stop"} => main'.at = 1
    BY <1>1 DEF MainStart, MainStartFails, MainSignalled, MainExpired, MainFailed, UseAfterFree,
                TypeInv, MainOK, StopInv
  <2>. QED  BY <2>1, <2>2, <2>3 DEF StopInv
<1>2. CASE MainStop
  <2>1. \A t \in AllThreads : PcOf(t)' = PcOf(t)
    BY <1>0, <1>2, FlagMovesNone DEF MainStop
  <2>2. \A k \in 1 .. main.at - 1 : k \in 1 .. Len(StopOrder) /\ PcOf(StopOrder[k]) = "exit"
    BY <1>0, <1>2 DEF MainStop, StopInv
  <2>3. \A k \in 1 .. main.at - 1 : PcOf(StopOrder[k])' = "exit"
    BY <2>1, <2>2, StopOnto
  <2>. QED  BY <1>2, <2>3 DEF MainStop, StopInv, TypeInv, MainOK
<1>3. CASE MainJoin
  <2>1. \A t \in AllThreads : PcOf(t)' = PcOf(t)
    BY <1>3, ObjectsStay DEF MainJoin
  <2>2. \A k \in 1 .. main.at : k \in 1 .. Len(StopOrder) /\ PcOf(StopOrder[k]) = "exit"
    BY <1>0, <1>3 DEF MainJoin, StopInv
  <2>3. \A k \in 1 .. main.at : PcOf(StopOrder[k])' = "exit"
    BY <2>1, <2>2, StopOnto
  <2>4. UNCHANGED report /\ ~ report.printed
    BY <1>3 DEF MainJoin, StopInv
  <2>5. CASE main.at < Len(StopOrder)
    BY <1>0, <1>3, <2>3, <2>4, <2>5 DEF MainJoin, StopInv
  <2>6. CASE ~ main.at < Len(StopOrder)
    <3>1. main.at = Len(StopOrder)
      BY <1>0, <2>6
    <3>2. AllGone'
      BY <2>3, <3>1, StopOnto DEF AllGone
    <3>3. main'.pc = "report"
      BY <1>3, <2>6 DEF MainJoin, TypeInv, MainOK
    <3>. QED  BY <2>4, <3>2, <3>3 DEF StopInv
  <2>. QED  BY <2>5, <2>6
<1>4. CASE MainReport
  <2>1. AllGone /\ \A t \in AllThreads : PcOf(t)' = PcOf(t)
    BY <1>4, ObjectsStay DEF MainReport, StopInv
  <2>2. AllGone'
    BY <2>1 DEF AllGone
  <2>3. Summary' = Summary
    BY <1>4 DEF MainReport, objects, Summary, get_total_messages_produced,
                get_total_messages_processed, get_total_messages_delivered, routing_errors
  <2>4. main'.pc = "exit" /\ report' = Summary' /\ report'.printed = TRUE
    BY <1>4, <2>3 DEF MainReport, Summary, TypeInv, MainOK
  <2>. QED  BY <2>2, <2>4 DEF StopInv
<1>5. CASE signal_handler
  BY <1>5 DEF signal_handler, StopInv
<1>6. CASE Terminated \/ UNCHANGED vars
  <2>1. UNCHANGED <<main, report, objects, queues, lost>>
    BY <1>6 DEF Terminated, vars
  <2>2. \A t \in AllThreads : PcOf(t)' = PcOf(t)
    BY <2>1, ObjectsStay
  <2>3. Summary' = Summary /\ (AllGone' <=> AllGone)
    BY <2>1, <2>2 DEF objects, Summary, get_total_messages_produced, AllGone,
                get_total_messages_processed, get_total_messages_delivered, routing_errors
  <2>4. ASSUME main.pc \in {"stop", "join"}, NEW k \in 1 .. main.at - 1
        PROVE  PcOf(StopOrder[k])' = "exit"
    BY <1>0, <2>2, <2>4, StopOnto DEF StopInv
  <2>. QED  BY <2>1, <2>3, <2>4 DEF StopInv
<1>7. CASE ComponentStep
  <2>1. UNCHANGED <<main, report>> /\ main.pc # "exit"
    BY <1>7 DEF ComponentStep, ProducerStep, Stage1Step, ProcessorStep, Stage2Step, StrategyStep,
                CanStep
  <2>2. AllGone => AllGone'
    BY <1>7, IdleStays DEF AllGone
  <2>3. ASSUME main.pc \in {"stop", "join"}, NEW k \in 1 .. main.at - 1
        PROVE  PcOf(StopOrder[k])' = "exit"
    BY <1>0, <1>7, <2>3, StopOnto, IdleStays DEF StopInv
  <2>. QED  BY <2>1, <2>2, <2>3 DEF StopInv
<1>. QED  BY <1>1, <1>2, <1>3, <1>4, <1>5, <1>6, <1>7 DEF Next, ComponentStep

\* It holds in every reachable state.
LEMMA StopInvHolds == Spec => []StopInv
<1>1. Spec => [](TypeInv /\ StopInv)
  BY TypeInit, TypeStep, StopInit, StopStep, PTL DEF Spec
<1>. QED  BY <1>1, PTL

\* A thread is told to stop, and joined, only when every thread that feeds it
\* is gone: main stops the stages in the order of the flow and joins each
\* thread before it comes to the next.
THEOREM DrainsAreFinite == Spec => []DrainIsFinite
<1>1. ASSUME TypeInv, StopInv, main.pc = "join", NEW u \in Upstream(StopOrder[main.at])
      PROVE  PcOf(u) = "exit"
  <2>1. /\ main.at \in 1 .. Len(StopOrder)
        /\ \A k \in 1 .. main.at - 1 : PcOf(StopOrder[k]) = "exit"
    BY <1>1, SizeFacts DEF TypeInv, MainOK, StopInv
  <2>2. CASE \E i \in Producers : StopOrder[main.at] = <<"producer", i>>
    BY <1>1, <2>2 DEF Upstream
  <2>3. CASE main.at = NP + 1 /\ StopOrder[main.at] = <<"stage1", 0>>
    <3>1. PICK i \in Producers : u = <<"producer", i>>
      BY <1>1, <2>3 DEF Upstream
    <3>2. i + 1 \in 1 .. main.at - 1
      BY <2>3, SizeFacts
    <3>. QED  BY <2>1, <3>1, <3>2, StopIndex
  <2>4. CASE \E i \in Processors :
               main.at = NP + i + 2 /\ StopOrder[main.at] = <<"processor", i>>
    <3>1. u = <<"stage1", 0>>
      BY <1>1, <2>4 DEF Upstream
    <3>2. NP + 1 \in 1 .. main.at - 1
      BY <2>4, SizeFacts
    <3>. QED  BY <2>1, <3>1, <3>2, StopIndex
  <2>5. CASE main.at = NP + NW + 2 /\ StopOrder[main.at] = <<"stage2", 0>>
    <3>1. PICK i \in Processors : u = <<"processor", i>>
      BY <1>1, <2>5 DEF Upstream
    <3>2. NP + i + 2 \in 1 .. main.at - 1
      BY <2>5, SizeFacts
    <3>. QED  BY <2>1, <3>1, <3>2, StopIndex
  <2>6. CASE \E i \in Strategies :
               main.at = NP + NW + i + 3 /\ StopOrder[main.at] = <<"strategy", i>>
    <3>1. u = <<"stage2", 0>>
      BY <1>1, <2>6 DEF Upstream
    <3>2. NP + NW + 2 \in 1 .. main.at - 1
      BY <2>6, SizeFacts
    <3>. QED  BY <2>1, <3>1, <3>2, StopIndex
  <2>. QED  BY <2>1, <2>2, <2>3, <2>4, <2>5, <2>6, StopPlace
<1>2. TypeInv /\ StopInv => DrainIsFinite
  BY <1>1 DEF DrainIsFinite
<1>. QED  BY <1>2, TypeInvHolds, StopInvHolds, PTL

\* When the summary is printed every thread is gone and none has a message in
\* hand, and the figures printed remain the figures of the counters.
THEOREM ReportsAreFinal == Spec => []ReportIsFinal
<1>1. ASSUME TypeInv, StopInv, report.printed
      PROVE  /\ report = Summary
             /\ \A k \in DOMAIN StartOrder : PcOf(StartOrder[k]) = "exit"
             /\ Holding(producer) + InRouter(stage1) + Holding(processor) + InRouter(stage2) = 0
  <2>1. report = Summary /\ AllGone
    BY <1>1 DEF StopInv
  <2>2. DOMAIN StartOrder = 1 .. Len(StartOrder)
    BY StartOrderFacts
  <2>3. \A k \in DOMAIN StartOrder : PcOf(StartOrder[k]) = "exit"
    BY <2>1, <2>2, StartOnce DEF AllGone
  <2>4. /\ \A i \in Producers : producer[i].pc = "exit"
        /\ \A i \in Processors : processor[i].pc = "exit"
        /\ stage1.pc = "exit" /\ stage2.pc = "exit"
    BY <2>1, PcOfFacts DEF AllGone, AllThreads
  <2>5. DOMAIN producer = Producers /\ DOMAIN processor = Processors
    BY <1>1 DEF TypeInv, ObjectsOK, ProducersOK, ProcessorsOK
  <2>6. /\ {i \in DOMAIN producer : producer[i].pc = "push"} = {}
        /\ {i \in DOMAIN processor : processor[i].pc = "push"} = {}
    BY <2>4, <2>5
  <2>7. Holding(producer) = 0 /\ Holding(processor) = 0
    BY <2>6, FS_EmptySet DEF Holding
  <2>8. InRouter(stage1) = 0 /\ InRouter(stage2) = 0
    BY <2>4 DEF InRouter
  <2>. QED  BY <2>1, <2>3, <2>7, <2>8
<1>2. TypeInv /\ StopInv => ReportIsFinal
  BY <1>1 DEF ReportIsFinal
<1>. QED  BY <1>2, TypeInvHolds, StopInvHolds, PTL

-----------------------------------------------------------------------------
(* A thread that cannot be created *)

\* Before main has started anything, there is no message.
LEMMA QuietInit == Init => QuietInv
BY DEF Init, P!Init, S1!Init, W!Init, QuietInv, Quiet

\* Before a producer runs, no component brings a message into the system.
LEMMA QuietStays ==
  ASSUME TypeInv, Quiet, ComponentStep
  PROVE  Quiet'
<1>0. TypeInv /\ ObjectsOK
  BY DEF TypeInv
<1>1. CASE \E i \in Producers : ProducerStep(i)
  BY <1>1 DEF Quiet, ProducerStep, P!producer_loop, P!Begin, P!Generate, P!Send, P!Retry,
              P!GiveUp, P!Exit
<1>2. CASE Stage1Step
  <2>1. stage1.cursor \in Producers /\ stage1 \in S1!Object
    BY <1>0 DEF ObjectsOK, Stage1OK, S1!Object
  <2>2. S1!Loop \/ S1!NextQueue
    BY <1>2, <2>1 DEF Quiet, Stage1Step, S1!routing_loop, S1!Pop, S1!PopUnroutable, S1!Send,
                      S1!Retry, S1!GiveUp
  <2>3. stage1'.pc # "push"
    <3>1. CASE S1!Loop
      BY <2>1, <3>1 DEF S1!Loop, S1!Object
    <3>2. CASE S1!NextQueue
      BY <2>1, <3>2 DEF S1!NextQueue, S1!Object, Quiet
    <3>. QED  BY <2>2, <3>1, <3>2
  <2>. QED  BY <1>2, <2>2, <2>3 DEF Quiet, Stage1Step, AtStage1, S1!Loop, S1!NextQueue
<1>3. CASE \E i \in Processors : ProcessorStep(i)
  <2>1. PICK i \in Processors : ProcessorStep(i)
    BY <1>3
  <2>2. W!Loop(i) \/ W!Empty(i)
    BY <2>1 DEF Quiet, ProcessorStep, W!processor_loop, W!Pop, W!Send, W!Retry, W!GiveUp
  <2>3. processor \in [Processors -> W!Object]
    BY <1>0 DEF ObjectsOK, ProcessorsOK
  <2>4. \A j \in Processors : processor'[j].pc # "push"
    BY <2>2, <2>3 DEF Quiet, W!Loop, W!Empty, W!Object
  <2>. QED  BY <2>1, <2>2, <2>4 DEF Quiet, ProcessorStep, AtProcessors, W!Loop, W!Empty
<1>4. CASE Stage2Step
  <2>1. stage2.cursor \in Processors
    BY <1>0 DEF ObjectsOK, Stage2OK, S2!Object
  <2>2. ~ S2!Pop /\ ~ S2!PopUnroutable
    BY <2>1 DEF Quiet, S2!Pop, S2!PopUnroutable
  <2>3. UNCHANGED processor_queues
    BY <1>4, <2>2 DEF Stage2Step, S2!routing_loop, S2!Loop, S2!NextQueue, S2!Send, S2!Retry,
                      S2!GiveUp
  <2>. QED  BY <1>4, <2>3 DEF Quiet, Stage2Step, AtStage2
<1>5. CASE \E i \in Strategies : StrategyStep(i)
  BY <1>5 DEF Quiet, StrategyStep, AtStrategies
<1>. QED  BY <1>1, <1>2, <1>3, <1>4, <1>5 DEF ComponentStep

\* Nor does main when it starts a thread other than a producer, or fails to
\* start any.
LEMMA QuietStarts ==
  ASSUME TypeInv, Quiet, NEW t \in AllThreads,
         \/ StartThread(t) /\ \A i \in Producers : t # <<"producer", i>>
         \/ StartThreadFails(t)
  PROVE  Quiet'
<1>0. TypeInv /\ ObjectsOK
  BY DEF TypeInv
<1>1. ASSUME NEW i \in Producers, t = <<"producer", i>>  PROVE  Quiet'
  <2>1. P!StartFails(i) /\ AtProducers /\ producer \in [Producers -> P!Object]
    BY <1>0, <1>1 DEF StartThreadFails, ObjectsOK, ProducersOK
  <2>2. \A j \in Producers : producer'[j].pc = producer[j].pc
    BY <2>1 DEF P!StartFails, P!Object
  <2>. QED  BY <2>1, <2>2 DEF Quiet, AtProducers, P!StartFails
<1>2. ASSUME t = <<"stage1", 0>>  PROVE  Quiet'
  <2>1. (S1!Start \/ S1!StartFails) /\ AtStage1 /\ stage1 \in S1!Object
    BY <1>0, <1>2 DEF StartThread, StartThreadFails, ObjectsOK, Stage1OK
  <2>2. stage1'.pc # "push"
    BY <2>1 DEF Quiet, S1!Start, S1!StartFails, S1!Object
  <2>. QED  BY <2>1, <2>2 DEF Quiet, AtStage1, S1!Start, S1!StartFails
<1>3. ASSUME NEW i \in Processors, t = <<"processor", i>>  PROVE  Quiet'
  <2>1. /\ W!Start(i) \/ W!StartFails(i)
        /\ AtProcessors /\ processor \in [Processors -> W!Object]
    BY <1>0, <1>3 DEF StartThread, StartThreadFails, ObjectsOK, ProcessorsOK
  <2>2. \A j \in Processors : processor'[j].pc # "push"
    BY <2>1 DEF Quiet, W!Start, W!StartFails, W!Object
  <2>. QED  BY <2>1, <2>2 DEF Quiet, AtProcessors, W!Start, W!StartFails
<1>4. ASSUME t = <<"stage2", 0>>  PROVE  Quiet'
  BY <1>4 DEF StartThread, StartThreadFails, Quiet, AtStage2, S2!Start, S2!StartFails
<1>5. ASSUME NEW i \in Strategies, t = <<"strategy", i>>  PROVE  Quiet'
  BY <1>5 DEF StartThread, StartThreadFails, Quiet, AtStrategies
<1>. QED  BY <1>1, <1>2, <1>3, <1>4, <1>5 DEF AllThreads

\* While it is quiet no thread reads the configuration.
LEMMA QuietReads ==
  ASSUME TypeInv, Quiet, NEW t \in AllThreads
  PROVE  ~ ReadsConfig(t)
<1>1. stage1.cursor \in Producers /\ stage2.cursor \in Processors
  BY DEF TypeInv, ObjectsOK, Stage1OK, S1!Object, Stage2OK, S2!Object
<1>. QED  BY <1>1 DEF Quiet, ReadsConfig, AllThreads

\* Every step keeps it so until main has started a producer.
LEMMA QuietStep == TypeInv /\ QuietInv /\ [Next]_vars => QuietInv'
<1>. SUFFICES ASSUME TypeInv, QuietInv, [Next]_vars  PROVE  QuietInv'
  OBVIOUS
<1>0. /\ main.at \in 1 .. Len(StartOrder) /\ Len(StartOrder) \in Nat
      /\ StartOrder[main.at] \in AllThreads
      /\ FirstProducer \in Nat
  <2>1. main.at \in 1 .. Len(StartOrder) /\ Len(StartOrder) \in Nat /\ FirstProducer \in Nat
    BY SizeFacts DEF TypeInv, MainOK, FirstProducer
  <2>. QED  BY <2>1, StartOnce
<1>1. CASE MainStart
  <2>1. main'.pc = "start" => main'.at = main.at + 1
    BY <1>1 DEF MainStart, TypeInv, MainOK
  <2>2. main'.pc \notin {"failed", "undefined"}
    BY <1>1 DEF MainStart, TypeInv, MainOK
  <2>3. ASSUME main'.pc = "start", main'.at <= FirstProducer  PROVE  Quiet'
    <3>1. main.at < FirstProducer /\ Quiet
      BY <1>0, <1>1, <2>1, <2>3 DEF MainStart, QuietInv
    <3>2. \A i \in Producers : StartOrder[main.at] # <<"producer", i>>
      BY <1>0, <3>1, StartPlace, SizeFacts DEF FirstProducer
    <3>. QED  BY <1>0, <1>1, <3>1, <3>2, QuietStarts DEF MainStart
  <2>. QED  BY <2>2, <2>3 DEF QuietInv
<1>2. CASE MainStartFails
  <2>1. main.pc = "start" /\ main'.pc = "failed" /\ main'.at = main.at
    BY <1>2 DEF MainStartFails, TypeInv, MainOK
  <2>2. ASSUME main.at <= FirstProducer  PROVE  Quiet'
    BY <1>0, <1>2, <2>1, <2>2, QuietStarts DEF MainStartFails, QuietInv
  <2>. QED  BY <2>1, <2>2 DEF QuietInv
<1>3. CASE UseAfterFree
  <2>1. PICK k \in 1 .. Len(StartOrder) : ReadsConfig(StartOrder[k])
    BY <1>3, StartOrderFacts DEF UseAfterFree
  <2>2. ~ Quiet
    BY <2>1, StartOnce, QuietReads
  <2>3. main.at > FirstProducer
    BY <1>0, <1>3, <2>2 DEF UseAfterFree, QuietInv
  <2>. QED  BY <1>3, <2>3 DEF UseAfterFree, TypeInv, MainOK, QuietInv
<1>4. CASE MainFailed \/ MainSignalled \/ MainExpired \/ MainStop \/ MainReport
  BY <1>4 DEF MainFailed, MainSignalled, MainExpired, MainStop, MainReport, TypeInv, MainOK,
              QuietInv
<1>5. CASE MainJoin
  BY <1>5 DEF MainJoin, TypeInv, MainOK, QuietInv
<1>6. CASE signal_handler \/ Terminated \/ UNCHANGED vars
  BY <1>6 DEF signal_handler, Terminated, vars, objects, queues, QuietInv, Quiet
<1>7. CASE ComponentStep
  <2>1. UNCHANGED main
    BY <1>7 DEF ComponentStep, ProducerStep, Stage1Step, ProcessorStep, Stage2Step, StrategyStep,
                CanStep
  <2>. QED  BY <1>7, <2>1, QuietStays DEF QuietInv
<1>. QED  BY <1>1, <1>2, <1>3, <1>4, <1>5, <1>6, <1>7 DEF Next, ComponentStep

\* When a thread cannot be created, the freed configuration is read only if
\* that thread was the second or a later producer.
THEOREM FreedConfigIsUnread == Spec => []FreedConfigUnread
<1>1. Spec => [](TypeInv /\ QuietInv)
  BY TypeInit, TypeStep, QuietInit, QuietStep, PTL DEF Spec
<1>2. ASSUME TypeInv, QuietInv  PROVE  FreedConfigUnread
  <2>1. SUFFICES ASSUME main.pc = "undefined"
                 PROVE  StartOrder[main.at] \in {<<"producer", i>> : i \in Producers \ {0}}
    BY DEF FreedConfigUnread
  <2>2. main.at \in 1 .. Len(StartOrder) /\ main.at > FirstProducer
    BY <1>2, <2>1 DEF TypeInv, MainOK, QuietInv
  <2>3. PICK i \in Producers : main.at = NW + NS + i + 3 /\ StartOrder[main.at] = <<"producer", i>>
    BY <2>2, StartPlace, SizeFacts DEF FirstProducer
  <2>4. i # 0
    BY <2>2, <2>3, SizeFacts DEF FirstProducer
  <2>. QED  BY <2>3, <2>4
<1>. QED  BY <1>1, <1>2, PTL
=============================================================================
