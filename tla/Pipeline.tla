------------------------------ MODULE Pipeline ------------------------------
(***************************************************************************)
(* The message router (src/main.cpp):                                      *)
(*                                                                         *)
(*   producers -> stage 1 router -> processors -> stage 2 router ->        *)
(*   strategies                                                            *)
(*                                                                         *)
(* one thread per box, one LockFreeSPSCQueue per arrow, and the main       *)
(* thread, which starts everything, waits, stops everything in the order   *)
(* of the flow and prints a summary.                                       *)
(*                                                                         *)
(* A call of try_push or try_pop is one step here: SpscQueue shows that a  *)
(* queue implements BoundedFifo.  A counter is bumped in the step of the   *)
(* push it counts, because nobody reads it before the thread is joined.    *)
(***************************************************************************)
EXTENDS Config, FiniteSets

CONSTANTS
  MsgTypes,        \* the types the producers draw from (0 .. 3 in the code)
  NoMessage,
  Capacity,        \* capacity() of every queue
  ProducerTries,   \* try_push calls a producer makes for a message (100)
  PushTries,       \* the same for a router or a processor (1000)
  MaxMessages,     \* bound: messages one producer generates
  CounterRange     \* the routers' counters wrap here (2^64)

ASSUME ValidConfig == validate
ASSUME BoundsAssumption ==
  /\ MsgTypes \subseteq 0 .. 3 /\ MsgTypes # {}
  /\ {Capacity, ProducerTries, PushTries} \subseteq Nat \ {0}
  /\ MaxMessages \in Nat
  /\ CounterRange \in Nat /\ CounterRange > MaxMessages * config.producers_count

VARIABLES
  main,        \* the main thread: pc, and at, its place in the order
  g_running,   \* cleared by the signal handler
  producer, stage1, processor, stage2, strategy,
  producer_queues, stage1_queues, processor_queues, stage2_queues,
  lost,        \* history: the messages some thread gave up on, and where
  report       \* the printed summary

objects == <<producer, stage1, processor, stage2, strategy>>
queues  == <<producer_queues, stage1_queues, processor_queues, stage2_queues>>
vars    == <<main, g_running, objects, queues, lost, report>>

Message == [msg_type : MsgTypes, producer_id : Producers,
            sequence_number : 1 .. MaxMessages, processor_id : Processors]

ASSUME NoMessageAssumption == NoMessage \notin Message

P == INSTANCE Producer WITH
       PushTries <- ProducerTries, output_queues <- producer_queues
S1 == INSTANCE Router WITH
       router <- stage1, Stage <- "stage1", Route <- get_processor_for_message,
       Inputs <- Producers, input_queues <- producer_queues,
       Outputs <- Processors, output_queues <- stage1_queues
W == INSTANCE Processor WITH
       input_queues <- stage1_queues, output_queues <- processor_queues
S2 == INSTANCE Router WITH
       router <- stage2, Stage <- "stage2", Route <- get_strategy_for_message,
       Inputs <- Processors, input_queues <- processor_queues,
       Outputs <- Strategies, output_queues <- stage2_queues
T == INSTANCE Strategy WITH input_queues <- stage2_queues

NoReport == [printed |-> FALSE]

-----------------------------------------------------------------------------
(* The threads, by name *)

Threads(kind, ids) == [k \in 1 .. Cardinality(ids) |-> <<kind, k - 1>>]

\* A mistake: the producers are started first.
StartProducersFirst ==
  Threads("producer", Producers) \o << <<"stage1", 0>> >>
    \o Threads("processor", Processors) \o << <<"stage2", 0>> >>
    \o Threads("strategy", Strategies)

\* The order of the calls of start and start_all in main().
StartOrder ==
  << <<"stage1", 0>> >> \o Threads("processor", Processors)
    \o << <<"stage2", 0>> >> \o Threads("strategy", Strategies)
    \o Threads("producer", Producers)

\* A mistake: the routers are stopped before the threads that feed them.
StopRoutersFirst ==
  << <<"stage1", 0>>, <<"stage2", 0>> >> \o Threads("producer", Producers)
    \o Threads("processor", Processors) \o Threads("strategy", Strategies)

\* The order of the calls of stop and stop_all in main().
StopOrder ==
  Threads("producer", Producers) \o << <<"stage1", 0>> >>
    \o Threads("processor", Processors) \o << <<"stage2", 0>> >>
    \o Threads("strategy", Strategies)

PcOf(t) ==
  CASE t[1] = "producer"  -> producer[t[2]].pc
    [] t[1] = "stage1"    -> stage1.pc
    [] t[1] = "processor" -> processor[t[2]].pc
    [] t[1] = "stage2"    -> stage2.pc
    [] t[1] = "strategy"  -> strategy[t[2]].pc

Init ==
  /\ main = [pc |-> "start", at |-> 1]
  /\ g_running = TRUE
  /\ P!Init /\ S1!Init /\ W!Init /\ S2!Init /\ T!Init
  /\ producer_queues  = [i \in Producers  |-> <<>>]
  /\ stage1_queues    = [i \in Processors |-> <<>>]
  /\ processor_queues = [i \in Processors |-> <<>>]
  /\ stage2_queues    = [i \in Strategies |-> <<>>]
  /\ lost = {}
  /\ report = NoReport

-----------------------------------------------------------------------------
(* One step of a component leaves the others alone *)

AtProducers  == UNCHANGED <<stage1, processor, stage2, strategy,
                            stage1_queues, processor_queues, stage2_queues>>
AtStage1     == UNCHANGED <<producer, processor, stage2, strategy,
                            processor_queues, stage2_queues>>
AtProcessors == UNCHANGED <<producer, stage1, stage2, strategy,
                            producer_queues, stage2_queues>>
AtStage2     == UNCHANGED <<producer, stage1, processor, strategy,
                            producer_queues, stage1_queues>>
AtStrategies == UNCHANGED <<producer, stage1, processor, stage2, lost,
                            producer_queues, stage1_queues, processor_queues>>

\* t is about to read the configuration object.
ReadsConfig(t) ==
  \/ t[1] = "producer" /\ producer[t[2]].pc = "begin"
  \/ t[1] = "stage1"   /\ stage1.pc = "scan" /\ producer_queues[stage1.cursor] # <<>>
  \/ t[1] = "stage2"   /\ stage2.pc = "scan" /\ processor_queues[stage2.cursor] # <<>>

\* The process is there and so, if t needs it, is the configuration.
CanStep(t) ==
  /\ main.pc \notin {"exit", "undefined"}
  /\ main.pc = "failed" => ~ ReadsConfig(t)
  /\ UNCHANGED <<main, g_running, report>>

ProducerStep(i)  == CanStep(<<"producer", i>>)  /\ P!producer_loop(i)  /\ AtProducers
Stage1Step       == CanStep(<<"stage1", 0>>)    /\ S1!routing_loop     /\ AtStage1
ProcessorStep(i) == CanStep(<<"processor", i>>) /\ W!processor_loop(i) /\ AtProcessors
Stage2Step       == CanStep(<<"stage2", 0>>)    /\ S2!routing_loop     /\ AtStage2
StrategyStep(i)  == CanStep(<<"strategy", i>>)  /\ T!strategy_loop(i)  /\ AtStrategies

StartThread(t) ==
  \/ t[1] = "producer"  /\ P!Start(t[2]) /\ AtProducers
  \/ t[1] = "stage1"    /\ S1!Start      /\ AtStage1
  \/ t[1] = "processor" /\ W!Start(t[2]) /\ AtProcessors
  \/ t[1] = "stage2"    /\ S2!Start      /\ AtStage2
  \/ t[1] = "strategy"  /\ T!Start(t[2]) /\ AtStrategies

StartThreadFails(t) ==
  \/ t[1] = "producer"  /\ P!StartFails(t[2]) /\ AtProducers
  \/ t[1] = "stage1"    /\ S1!StartFails      /\ AtStage1
  \/ t[1] = "processor" /\ W!StartFails(t[2]) /\ AtProcessors
  \/ t[1] = "stage2"    /\ S2!StartFails      /\ AtStage2
  \/ t[1] = "strategy"  /\ T!StartFails(t[2]) /\ AtStrategies

StopThread(t) ==
  \/ t[1] = "producer"  /\ P!Stop(t[2]) /\ AtProducers
  \/ t[1] = "stage1"    /\ S1!Stop      /\ AtStage1
  \/ t[1] = "processor" /\ W!Stop(t[2]) /\ AtProcessors
  \/ t[1] = "stage2"    /\ S2!Stop      /\ AtStage2
  \/ t[1] = "strategy"  /\ T!Stop(t[2]) /\ AtStrategies

-----------------------------------------------------------------------------
(* main() *)

Total(f) == MapThenSumSet(LAMBDA i : f[i], DOMAIN f)

get_total_messages_produced  == Total([i \in Producers  |-> producer[i].messages_produced_])
get_total_messages_processed == Total([i \in Processors |-> processor[i].messages_processed_])
get_total_messages_delivered == Total([i \in Strategies |-> strategy[i].messages_delivered_])

\* A mistake: the second router's errors are forgotten.
Stage1Errors == stage1.routing_errors_

routing_errors == stage1.routing_errors_ + stage2.routing_errors_

\* The figures of the summary, from the counters as they are now.
Summary ==
  [ printed   |-> TRUE,
    produced  |-> get_total_messages_produced,
    processed |-> get_total_messages_processed,
    delivered |-> get_total_messages_delivered,
    lost      |-> routing_errors,
    producers |-> [i \in 0 .. 3 |-> get_total_messages_produced \div 4],
    passed    |-> routing_errors = 0 ]

\* SIGINT or SIGTERM.  Once main has left its loop the flag is not read again.
signal_handler ==
  /\ g_running
  /\ main.pc \in {"start", "run"}
  /\ g_running' = FALSE
  /\ UNCHANGED <<main, objects, queues, lost, report>>

\* Start the next thread; after the last one wait in the loop.
MainStart ==
  /\ main.pc = "start"
  /\ StartThread(StartOrder[main.at])
  /\ main' = IF main.at < Len(StartOrder) THEN [main EXCEPT !.at = @ + 1]
                                          ELSE [pc |-> "run", at |-> 1]
  /\ UNCHANGED <<g_running, report>>

\* The next thread cannot be created.  The exception ends in main's catch
\* block, and on its way there frees the configuration, but stops no thread.
MainStartFails ==
  /\ main.pc = "start"
  /\ StartThreadFails(StartOrder[main.at])
  /\ main' = [main EXCEPT !.pc = "failed"]
  /\ UNCHANGED <<g_running, report>>

\* main returns 1, and with it every thread is gone.
MainFailed ==
  /\ main.pc = "failed"
  /\ main' = [main EXCEPT !.pc = "exit"]
  /\ UNCHANGED <<g_running, objects, queues, lost, report>>

\* Until then a thread may read the freed configuration.  Nothing is said of
\* what comes after that.
UseAfterFree ==
  /\ main.pc = "failed"
  /\ \E k \in DOMAIN StartOrder : ReadsConfig(StartOrder[k])
  /\ main' = [main EXCEPT !.pc = "undefined"]
  /\ UNCHANGED <<g_running, objects, queues, lost, report>>

\* The loop finds g_running false.
MainSignalled ==
  /\ main.pc = "run"
  /\ ~ g_running
  /\ main' = [main EXCEPT !.pc = "stop"]
  /\ UNCHANGED <<g_running, objects, queues, lost, report>>

\* The loop finds that duration_secs have passed.
MainExpired ==
  /\ main.pc = "run"
  /\ g_running
  /\ main' = [main EXCEPT !.pc = "stop"]
  /\ UNCHANGED <<g_running, objects, queues, lost, report>>

\* stop() of the next thread clears its running_ ...
MainStop ==
  /\ main.pc = "stop"
  /\ StopThread(StopOrder[main.at])
  /\ main' = [main EXCEPT !.pc = "join"]
  /\ UNCHANGED <<g_running, report>>

\* A mistake: stop() does not wait for the thread.
StopWithoutJoin ==
  /\ main.pc = "join"
  /\ main' = IF main.at < Len(StopOrder) THEN [pc |-> "stop", at |-> main.at + 1]
                                         ELSE [main EXCEPT !.pc = "report"]
  /\ UNCHANGED <<g_running, objects, queues, lost, report>>

\* ... and joins it.
MainJoin ==
  /\ main.pc = "join"
  /\ PcOf(StopOrder[main.at]) = "exit"
  /\ main' = IF main.at < Len(StopOrder) THEN [pc |-> "stop", at |-> main.at + 1]
                                         ELSE [main EXCEPT !.pc = "report"]
  /\ UNCHANGED <<g_running, objects, queues, lost, report>>

\* Print the summary, delete the components and return.
MainReport ==
  /\ main.pc = "report"
  /\ report' = Summary
  /\ main' = [main EXCEPT !.pc = "exit"]
  /\ UNCHANGED <<g_running, objects, queues, lost>>

\* The process is gone, or may do anything.
Ended == main.pc \in {"exit", "undefined"}
Terminated == Ended /\ UNCHANGED vars

-----------------------------------------------------------------------------
Next ==
  \/ MainStart \/ MainSignalled \/ MainExpired \/ MainStop \/ MainJoin \/ MainReport
  \/ MainStartFails \/ MainFailed \/ UseAfterFree
  \/ signal_handler
  \/ \E i \in Producers : ProducerStep(i)
  \/ Stage1Step
  \/ \E i \in Processors : ProcessorStep(i)
  \/ Stage2Step
  \/ \E i \in Strategies : StrategyStep(i)
  \/ Terminated

Spec == Init /\ [][Next]_vars

(***************************************************************************)
(* Every thread is scheduled again and again and no step of one blocks, so *)
(* a thread that can step does.  Nothing is assumed about when, or         *)
(* whether, the running time expires, a signal arrives or a thread cannot  *)
(* be created.                                                             *)
(***************************************************************************)
Fairness ==
  /\ WF_vars(MainStart) /\ WF_vars(MainSignalled)
  /\ WF_vars(MainStop) /\ WF_vars(MainJoin) /\ WF_vars(MainReport)
  /\ WF_vars(MainFailed)
  /\ \A i \in Producers : WF_vars(ProducerStep(i))
  /\ WF_vars(Stage1Step)
  /\ \A i \in Processors : WF_vars(ProcessorStep(i))
  /\ WF_vars(Stage2Step)
  /\ \A i \in Strategies : WF_vars(StrategyStep(i))

FairSpec == Spec /\ Fairness
-----------------------------------------------------------------------------
(* Properties *)

\* The queues of one stage: one for each of ids, none above its capacity.
QueuesOK(f, ids) == f \in [ids -> Seq(Message)] /\ \A i \in ids : Len(f[i]) <= Capacity

\* Every variable stays in its range; in particular no queue ever holds more
\* than its capacity, no router's cursor leaves its input queues, and a
\* message is in hand exactly during a push.
TypeOK ==
  /\ main \in [pc : {"start", "run", "stop", "join", "report", "failed", "exit", "undefined"},
               at : 1 .. Len(StartOrder)]
  /\ g_running \in BOOLEAN
  /\ producer  \in [Producers -> P!Object]
  /\ stage1    \in S1!Object
  /\ processor \in [Processors -> W!Object]
  /\ stage2    \in S2!Object
  /\ strategy  \in [Strategies -> T!Object]
  /\ \A i \in Producers  : producer[i].pc = "push" <=> producer[i].message # NoMessage
  /\ \A r \in {stage1, stage2} : r.pc = "push" <=> r.message # NoMessage
  /\ \A i \in Processors : processor[i].pc = "push" <=> processor[i].message # NoMessage
  /\ QueuesOK(producer_queues, Producers) /\ QueuesOK(stage1_queues, Processors)
  /\ QueuesOK(processor_queues, Processors) /\ QueuesOK(stage2_queues, Strategies)
  /\ lost \subseteq [message : Message, at : {"producer", "stage1", "processor", "stage2"}]

\* What identifies a message on its way.
IdOf(m) == <<m.producer_id, m.sequence_number>>

\* The places where the message with this identity is: in a thread's hand, in
\* a queue, in a strategy's log, or given up.
InHand(id) ==
  {t \in {StartOrder[k] : k \in DOMAIN StartOrder} :
     LET m == CASE t[1] = "producer"  -> producer[t[2]].message
                [] t[1] = "stage1"    -> stage1.message
                [] t[1] = "processor" -> processor[t[2]].message
                [] t[1] = "stage2"    -> stage2.message
                [] OTHER              -> NoMessage
     IN  m # NoMessage /\ IdOf(m) = id}
InSeq(name, f, id) ==
  UNION {{<<name, i, k>> : k \in {n \in DOMAIN f[i] : IdOf(f[i][n]) = id}} : i \in DOMAIN f}
Logs == [i \in Strategies |-> strategy[i].log]
Places(id) ==
  UNION { InHand(id),
          InSeq("producer_queues", producer_queues, id),
          InSeq("stage1_queues", stage1_queues, id),
          InSeq("processor_queues", processor_queues, id),
          InSeq("stage2_queues", stage2_queues, id),
          InSeq("log", Logs, id),
          {<<"lost", l.at>> : l \in {x \in lost : IdOf(x.message) = id}} }

\* A message a producer has numbered is always in exactly one place, whatever
\* the threads do and whenever they are stopped: it is never duplicated, and
\* it never disappears other than by a thread giving up on it.
Conserved ==
  \A i \in Producers, n \in 1 .. MaxMessages :
    Cardinality(Places(<<i, n>>)) = IF n < producer[i].next_sequence_ THEN 1 ELSE 0

\* The messages of one producer and one type reach one strategy only, in the
\* order they were produced, although they share every queue with others.
OrderedDelivery ==
  \A i, j \in Strategies : \A k \in DOMAIN Logs[i], n \in DOMAIN Logs[j] :
    T!KeyOf(Logs[i][k]) = T!KeyOf(Logs[j][n]) =>
      /\ i = j
      /\ k < n => Logs[i][k].sequence_number < Logs[i][n].sequence_number

\* What a strategy is given was marked by the processor its type's first
\* usable stage 1 rule names, and stage 2 rules name that strategy: no message
\* takes another's way through the shared routers.
RoutedByRules ==
  \A s \in Strategies : \A k \in DOMAIN Logs[s] :
    /\ Logs[s][k].processor_id = get_processor_for_message(Logs[s][k].msg_type)
    /\ s = get_strategy_for_message(Logs[s][k].msg_type)

\* All the messages of one producer that go one way, by one processor to one
\* strategy, arrive in the order they were produced, whatever their types: the
\* rules may part types, but nothing else lets one overtake another.
RoutesInOrder ==
  \A s \in Strategies : \A k, n \in DOMAIN Logs[s] :
    /\ k < n
    /\ Logs[s][k].producer_id = Logs[s][n].producer_id
    /\ Logs[s][k].processor_id = Logs[s][n].processor_id
    => Logs[s][k].sequence_number < Logs[s][n].sequence_number

\* The places in a log where a message's number is not the next one after the
\* entry before it of its producer and type, but a later one.
Gaps(log) ==
  {k \in DOMAIN log :
     \E n \in 1 .. k - 1 :
       /\ T!KeyOf(log[n]) = T!KeyOf(log[k])
       /\ \A j \in n + 1 .. k - 1 : T!KeyOf(log[j]) # T!KeyOf(log[k])
       /\ log[k].sequence_number > log[n].sequence_number + 1}

\* Every ordering violation a strategy counts is a gap, and every gap is
\* counted: no violation ever stands for a message that came too late or twice.
ViolationsAreGaps ==
  \A s \in Strategies : strategy[s].ordering_violations_ = Cardinality(Gaps(Logs[s]))

\* The messages there are, wherever they are.
HandsOf(f) == {f[i].message : i \in DOMAIN f} \ {NoMessage}
HeldIn(f) == UNION {{f[i][k] : k \in DOMAIN f[i]} : i \in DOMAIN f}
AllMessages ==
  UNION { HandsOf(producer), {stage1.message} \ {NoMessage}, HandsOf(processor),
          {stage2.message} \ {NoMessage}, HeldIn(producer_queues), HeldIn(stage1_queues),
          HeldIn(processor_queues), HeldIn(stage2_queues), HeldIn(Logs),
          {l.message : l \in lost} }

\* A message as its producer made it.
ItemOf(m) == [producer_id |-> m.producer_id, msg_type |-> m.msg_type,
              sequence_number |-> m.sequence_number]

Streams == INSTANCE OrderedStreams WITH
  Consumers <- Strategies,
  sent <- {ItemOf(m) : m \in AllMessages},
  got <- [s \in Strategies |-> [k \in DOMAIN Logs[s] |-> ItemOf(Logs[s][k])]]

\* With all its threads, queues and rules the pipeline is nothing but a set of
\* ordered streams with losses: a message comes from its producer or not at
\* all, is unchanged but for the processor's mark, and its stream is ordered.
ImplementsStreams == Streams!StreamsSpec

Held(f) == Total([i \in DOMAIN f |-> Len(f[i])])
Holding(f) == Cardinality({i \in DOMAIN f : f[i].pc = "push"})
InRouter(r) == IF r.pc = "push" THEN 1 ELSE 0
LostAt(stage) == Cardinality({l \in lost : l.at = stage})

\* Each stage's counters account for what the stage before it counted, up to
\* what is queued or in hand between them, and up to the messages processors
\* give up on, which no counter counts.
CountersBalance ==
  /\ get_total_messages_produced
       = Held(producer_queues) + InRouter(stage1)
         + stage1.messages_routed_ + stage1.routing_errors_
  /\ stage1.messages_routed_
       = Held(stage1_queues) + Holding(processor)
         + get_total_messages_processed + LostAt("processor")
  /\ get_total_messages_processed
       = Held(processor_queues) + InRouter(stage2)
         + stage2.messages_routed_ + stage2.routing_errors_
  /\ stage2.messages_routed_ = Held(stage2_queues) + get_total_messages_delivered

\* The counters count what happened: the routers' errors are the messages they
\* gave up on, and nothing else; a producer has counted what it numbered, did
\* not give up on and does not have in hand; a strategy what it was given.
CountersAreTrue ==
  /\ stage1.routing_errors_ = LostAt("stage1")
  /\ stage2.routing_errors_ = LostAt("stage2")
  /\ get_total_messages_produced + Holding(producer) + LostAt("producer")
       = Total([i \in Producers |-> producer[i].next_sequence_ - 1])
  /\ \A s \in Strategies : strategy[s].messages_delivered_ = Len(Logs[s])

\* The threads that push into a queue that t pops from.
Upstream(t) ==
  CASE t[1] = "producer"  -> {}
    [] t[1] = "stage1"    -> {<<"producer", i>> : i \in Producers}
    [] t[1] = "processor" -> {<<"stage1", 0>>}
    [] t[1] = "stage2"    -> {<<"processor", i>> : i \in Processors}
    [] t[1] = "strategy"  -> {<<"stage2", 0>>}

\* A thread is told to stop only when everyone who feeds it has gone.  The
\* loops that empty a queue look at running_ only when it is empty, so this
\* is what bounds how long a join can take.
DrainIsFinite ==
  main.pc = "join" => \A u \in Upstream(StopOrder[main.at]) : PcOf(u) = "exit"

\* The work a thread has left if nothing more is given to it: a bound on the
\* steps it can take before it exits, once its running_ is false.
LoopLeft(o) == IF o.pc \in {"new", "exit"} THEN 0 ELSE IF o.pc = "loop" THEN 1 ELSE 2
TriesLeft(o, tries) == IF o.pc = "push" THEN tries - o.retry ELSE 0
ScanLeft(r, ids) == IF r.pc \in {"scan", "push"} THEN Cardinality(ids) - r.cursor ELSE 0
RouterWork(r, f, ids) ==
  LoopLeft(r) + ScanLeft(r, ids) + TriesLeft(r, PushTries) + Held(f) * (PushTries + 1)

WorkLeft(t) ==
  CASE t[1] = "producer"  -> LoopLeft(producer[t[2]]) + TriesLeft(producer[t[2]], ProducerTries)
    [] t[1] = "stage1"    -> RouterWork(stage1, producer_queues, Producers)
    [] t[1] = "processor" -> LoopLeft(processor[t[2]]) + TriesLeft(processor[t[2]], PushTries)
                               + Len(stage1_queues[t[2]]) * (PushTries + 1)
    [] t[1] = "stage2"    -> RouterWork(stage2, processor_queues, Processors)
    [] t[1] = "strategy"  -> LoopLeft(strategy[t[2]]) + Len(stage2_queues[t[2]])

StepOf(t) ==
  \/ t[1] = "producer"  /\ ProducerStep(t[2])
  \/ t[1] = "stage1"    /\ Stage1Step
  \/ t[1] = "processor" /\ ProcessorStep(t[2])
  \/ t[1] = "stage2"    /\ Stage2Step
  \/ t[1] = "strategy"  /\ StrategyStep(t[2])

\* While main waits in a join, every step of the thread it waits for brings
\* that thread closer to its end, and no step of another thread sets it back:
\* full queues, failing pushes and the threads that still run can hold up a
\* join for a bounded number of steps only.
JoinAdvances ==
  [][\A k \in DOMAIN StopOrder :
       main.pc = "join" /\ main.at = k =>
         LET t == StopOrder[k]
         IN  /\ WorkLeft(t)' <= WorkLeft(t)
             /\ StepOf(t) => WorkLeft(t)' < WorkLeft(t)]_vars

\* The order of starting keeps the exception path safe for as long as it can:
\* the freed configuration is read only when it is the second or a later
\* producer that could not be started, never when a router, a processor, a
\* strategy or the first producer could not.
FreedConfigUnread ==
  main.pc = "undefined" => StartOrder[main.at] \in {<<"producer", i>> : i \in Producers \ {0}}

\* The summary is printed when no thread runs any more, so its figures are
\* the final ones and no message is left in a thread's hand.
ReportIsFinal ==
  report.printed =>
    /\ report = Summary
    /\ \A k \in DOMAIN StartOrder : PcOf(StartOrder[k]) = "exit"
    /\ Holding(producer) + InRouter(stage1) + Holding(processor) + InRouter(stage2) = 0

\* The printed figures explain what was produced: it was delivered, is among
\* the messages printed as lost, was dropped by a processor, which is not
\* printed, or was left in a queue whose reader had already gone.
ReportAddsUp ==
  report.printed =>
    report.produced
      = report.delivered + report.lost + LostAt("processor")
        + Held(producer_queues) + Held(stage1_queues)
        + Held(processor_queues) + Held(stage2_queues)

Delivered(id) == InSeq("log", Logs, id) # {}
GivenUp(id) == \E l \in lost : IdOf(l.message) = id

\* From some moment on no producer generates a message.
TrafficEnds ==
  <>[][\A i \in Producers : producer'[i].next_sequence_ = producer[i].next_sequence_]_vars

\* Once no producer generates any more, every message there is gets delivered
\* or given up, without main having to stop anything: no scan passes over a
\* queue that holds the last message.  While traffic goes on this is not so: a
\* router stays with a queue that is refilled in time (see
\* OnlyAFloodStarves of RouterLoad), and what is in the others waits.
SettledWhenTrafficEnds ==
  TrafficEnds =>
    \A i \in Producers, n \in 1 .. MaxMessages :
      (n < producer[i].next_sequence_)
        ~> (Delivered(<<i, n>>) \/ GivenUp(<<i, n>>) \/ main.pc \notin {"start", "run"})

\* A signal, whenever it arrives, and the end of the running time both end the
\* program: every join returns, although a thread empties its queues before
\* it looks at running_ again.  So does a thread that cannot be created.
ProgramEnds == (~ g_running \/ main.pc \in {"stop", "failed"}) ~> Ended

-----------------------------------------------------------------------------
(* What the repository says of the program *)

\* README.md: "ensuring zero message loss", "100% (all messages delivered)":
\* a summary that says PASSED, with nothing lost, stands for a run in which
\* everything the producers counted was delivered.
PassedMeansDelivered ==
  report.printed /\ report.passed => report.delivered = report.produced

\* main.cpp prints the routing errors as "Messages Lost": a message that was
\* counted as produced and that some thread gave up on is one of them.
LossIsCounted ==
  report.printed => report.lost = Cardinality({l \in lost : l.at # "producer"})

\* strategy.cpp calls what ordering_violations_ counts an "Ordering
\* violation": as long as a strategy got its messages in order there is none.
ViolationMeansDisorder ==
  \A s \in Strategies :
    strategy[s].ordering_violations_ > 0 =>
      \E k, n \in DOMAIN Logs[s] :
        /\ k < n
        /\ T!KeyOf(Logs[s][k]) = T!KeyOf(Logs[s][n])
        /\ Logs[s][k].sequence_number >= Logs[s][n].sequence_number
=============================================================================
