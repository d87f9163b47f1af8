# A TLA+ model of Message Router

Message Router moves messages through a pipeline of threads:

    producers -> stage 1 router -> processors -> stage 2 router -> strategies

Every arrow is a set of single-producer single-consumer ring buffers and there is
no lock anywhere. This directory holds TLA+ modules that model the queue, the
pipeline and the two classes beside it that no target builds, TLC configurations
that check them on small instances, and proofs, checked by TLAPS, that their
safety properties hold for every configuration and every size.

Paths below are relative to the repository's root.

## 1. Inventory

| Part | State it keeps | Operations | Talks to |
|---|---|---|---|
| `LockFreeSPSCQueue` (`include/lockfree_queue.h`) | `buffer_[i].data`, `buffer_[i].ready`, `head_`, `tail_` | `try_push`, `try_pop`, `size`, `empty`, `capacity` | shared by exactly two threads |
| `Producer`, `ProducerManager` (`src/producer.cpp`) | `running_`, `next_sequence_`, `messages_produced_` | `start`, `stop`, `producer_loop` | pushes into its own queue |
| `Stage1Router`, `Stage2Router` (`src/stage1_router.cpp`, `src/stage2_router.cpp`) | `running_`, `messages_routed_`, `routing_errors_` | `start`, `stop`, `routing_loop` | pops from all queues of the stage before, pushes into the queue the rules name |
| `Processor`, `ProcessorManager` (`src/processor.cpp`) | `running_`, `messages_processed_` | `start`, `stop`, `processor_loop`, `simulate_processing` | one queue in, one queue out |
| `Strategy`, `StrategyManager` (`src/strategy.cpp`) | `running_`, `expected_sequence_`, `ordering_violations_`, `messages_delivered_` | `start`, `stop`, `strategy_loop`, `process_message` | one queue in |
| `SystemConfig` (`src/config.cpp`) | counts, duration, distribution, rules | `load_from_file`, `validate`, `get_processor_for_message`, `get_strategy_for_message` | read by all, written before the first thread starts |
| `main` (`src/main.cpp`) | `g_running` | start all, wait, stop and join all, print the summary; `signal_handler` | everything |
| `OrderingBuffer` (`src/ordering_buffer.cpp`) | `buffers_`, `expected_sequence_`, two counters | `add_message`, `flush_all`, `try_send_next` | nobody: not in `CMakeLists.txt` |
| `Monitor` (`src/monitor.cpp`) | `running_`, its thread, `stats_`: a copy of all counters and queue depths | `start`, `stop`, `wait_for_completion`, `monitor_loop`, `update_stats`, `reset_stats`, `print_final_report` | nobody: not in `CMakeLists.txt`, calls members that do not exist |

What is hard in this code, and where a test would hardly reach it:

* the queue: two threads on one slot, each acting on an old value of the other's
  index; two publications (flag and index) of one fact; wrap-around;
* the pipeline: messages of one producer and type share routers and queues with
  all others, any push may fail for good on a full queue, and what arrives has to
  arrive in order;
* shutdown: a thread looks at `running_` only after it found its queues empty,
  and what is pushed between those two steps is left behind; a join returns only
  because the feeders were stopped first;
* start-up: when a thread cannot be created, `main` leaves by its catch block and
  frees the configuration under the threads it has already started;
* load: a router empties one input queue before it looks at the next, so a queue
  that is refilled in time holds it;
* accounting: the verdict `PASSED` is computed from two of the counters;
* the monitor: a third thread reads both indices of a queue, and counters that
  move, without any synchronisation; its owner may reset, restart or destroy it
  at any time.

`PROJECT.json` lists these hazards at their lines, with the properties that
watch them.

What makes each part correct: the queue is a bounded FIFO, without a data race;
the pipeline keeps every message in one place and every stream in order, by the
route its rules name; shutdown terminates, whatever moment it begins at; the
summary says what happened; the monitor's figures are old but never invented, and
its thread does not outlive it.

## 2. Modules

| Module | Models |
|---|---|
| `BoundedFifo` | what a queue promises: a FIFO of bounded length, which a `try_push` enters once or, refused, not at all |
| `RingIndices` | what is left of the queue for one who sees only `head_` and `tail_` |
| `SpscQueue` | `try_push` and `try_pop`, one action per access to shared memory; implements `BoundedFifo` and `RingIndices` |
| `QueueObserver` | `size` and `empty`, called by a third thread; built on `RingIndices` |
| `Config` | `SystemConfig`: loading of the rules, `validate`, the two look-ups |
| `Producer`, `Processor`, `Strategy` | the threads of one kind, as functions from their number to the object's fields |
| `Router` | the code `Stage1Router` and `Stage2Router` share |
| `OrderedStreams` | what the whole program promises: streams that arrive in order, with gaps |
| `Pipeline` | `main.cpp`: composes two instances of `Router` and one of each other component with the main thread; implements `OrderedStreams` |
| `RouterLoad` | `Router` alone between producers that never stop |
| `OrderingBuffer` | the class of that name, which no target uses |
| `Monitor` | the class of that name, which no target uses either |
| `SpscQueue_proofs`, `QueueObserver_proofs`, `OrderingBuffer_proofs`, `Monitor_proofs` | the theorems about the module of that name |
| `Pipeline_proofs` | types of `Pipeline`, the orders of starting and stopping |
| `PipelineShutdown_proofs`, `PipelineOrder_proofs` | start-up and shutdown; order, routes, violations and the refinement; both extend `Pipeline_proofs` |
| `PipelineConserved_proofs` | conservation, the counters and the summary, the joins; extends the two before it |
| `MCSpscQueue`, `MCPipeline`, `MCRouterLoad`, `MCOrderingBuffer` | the instances TLC checks |

Operators whose comment begins "A mistake:" are variants of the definition that
follows them. No specification uses them: they are there to show that each
property notices a plausible slip (`PROJECT.json`, "mutants").

### The queue

`SpscQueue` has one pusher and one popper; `pushPc` and `popPc` say which access
of `try_push` or `try_pop` comes next. `data[i]` and `ready[i]` are the fields of
`buffer_[i]`. An acquire load may return an older value of the other thread's
index: `headSeen` is what the pusher will read of `head_`, `tailSeen` what the
popper will read of `tail_`, and the actions `HeadVisible` and `TailVisible`
bring them up to date at any later time. Because each index is stored with
release and loaded with acquire, a thread that has seen an index has seen the
slot accesses before that store; so `data` and `ready` need no such delay. An
index skipped while the other thread did not look is the ordinary case: one step
of `HeadVisible` may jump over several stores.

`Masked(n)` is `n % Size`. The code writes `n & (Size - 1)` and asserts that
`Size` is a power of two; `MCSpscQueue` checks that the two agree.

`QueueObserver` puts a third thread beside the two. It calls `size()` and
`empty()` again and again; each is two actions, one per load. `headView` and
`tailView` are what its relaxed loads return; each follows its index on its own,
so the two may show the queue at different times. The queue itself is
`RingIndices`, where a push or a pop is one step; that is sound because
`SpscQueue` implements it (`ImplementsIndices`, also proved).

### The pipeline

A thread's record holds its object's fields and its position `pc`: `new`, `loop`
(about to test `running_`), for a producer `begin` (about to read its rate from
the configuration), `scan` or `drain` (about to call `try_pop`), `push`
(about to call `try_push` with `message`) and `exit`. `message` and `retry` are
the loop's local variables. A message is `[msg_type, producer_id,
sequence_number, processor_id]`; timestamps are left out, nothing depends on
them.

A call of `try_push` or `try_pop` is a single step. That is what the refinement
from `SpscQueue` to `BoundedFifo` allows: a call that returns true takes effect
at one moment, and one that returns false changes nothing. In the model a push
fails exactly on a full queue and a pop on an empty one. A real call may also
fail because it read an old index; to the caller that is the same as the other
thread being a little later with its own call, and it is ordered before a join by
the same synchronisation as everything else. The counter that follows a push is
bumped in the same step, since counters are only read after the join.

A router's `routing_loop` is the actions `Loop` (test `running_`, begin a scan),
`Pop` / `PopUnroutable`, `NextQueue`, `Send`, `Retry` and `GiveUp`. `cursor` is
the input queue the range-based `for` is at. A producer decides to generate at
any time: the clock is abstracted. The type is any of `MsgTypes`, as the code
draws it uniformly from 0..3.

`Pipeline` adds `main` with its position and, while starting or stopping, its
place in `StartOrder` or `StopOrder`. `MainStop` is the store in `stop()`,
`MainJoin` the join that follows. `MainSignalled` and `MainExpired` are the two
ways out of the waiting loop. The later `wait_for_completion` calls and the
destructors find nothing left to join and change nothing. `Terminated` is the
ended process.

`MainStartFails` is a `std::thread` that cannot be created. `running_` of that
object is already true; the exception leaves `main`'s try block, which frees the
configuration (a `unique_ptr`) but neither the components (bare pointers) nor the
threads. `main` is then `failed`: the threads go on until it returns
(`MainFailed`), and one that reads the configuration in between
(`ReadsConfig`: a producer when it begins, a router for every message it popped)
makes the behaviour `undefined` (`UseAfterFree`). Nothing is said about what
follows.

Counters are 64 bits wide in the code. `CounterRange` is the model's width: a
counter wraps there. It is larger than any count `Pipeline` reaches, and small in
`RouterLoad`, where counters go round for ever.

`OrderedStreams` has two variables, what has been sent and what each consumer got.
The refinement maps `sent` to all messages the pipeline still holds, lost or
delivered, and `got` to the strategies' logs. So it also says that a message in
the pipeline is one that was sent, that a stream has one consumer, and that no
message vanishes from the record.

`RouterLoad` composes `Router` with producers that push whenever there is room and
processors that pop. `Pipeline` bounds what a producer sends; here a queue can be
refilled as fast as the router empties it.

Two variables are history and not in the code: `lost`, the messages some thread
gave up on and where, and each strategy's `log` of what it was given.

### The ordering buffer

`OrderingBuffer` has one action per branch of `add_message`, one for `flush_all`
and one for the consumer of the output queue. The class has no caller in the
repository; the model adds any message at any time, again after a failure too.
`pushed` and `failed` are history. A message kept back is a member of
`buffers_[k]`: the linked list is searched by number and sorted when flushed, so
its order is immaterial. `max_buffer_size_` is never read.

### The monitor

`Monitor` has the monitor's thread (`loop`: test `running_`, then for each counter
one action to load it and one to store the copy) and an owner that calls the
public functions in any order. `thread` says whether `monitor_thread_` holds a
thread nobody has joined; assigning to it or destroying it then ends the process
(`terminated`). `reset_stats` is a step for `stats_` and one per manager. The
class does not compile: `get_total_messages_lost`, `reset_all_stats` and the type
`PerformanceStats` exist nowhere, and are modelled from their use. Queue depths
are stored the same way as counters and only printed; `QueueObserver` says what
they are worth. `disturbed` and
`raced` are history: whether a reset has overlapped the update under way, and
whether one has overlapped an update and none has been made undisturbed since.
`StartFails` is a thread that cannot be created: `running_` stays true, and a
thread of an earlier start that has not seen the `stop()` between goes on.
`print_report`, which only prints, is left out.

## 3. Runs

| Run | Shows |
|---|---|
| `spsc_ring` | `TypeOK`, `NoDataRace`, `ReadyIffPublished`, the inductive invariant `IInv`, `ImplementsFifo`, `ImplementsIndices`, and `EventuallyPopped` (a polling popper gets past every published slot), on a ring of four slots and three messages |
| `pipeline` | `TypeOK`, `Conserved`, `CountersBalance`, `DrainIsFinite`, `ReportIsFinal`, from start to exit; `FreedConfigUnread`: the freed configuration can be read only when it was a producer other than the first that could not be started; `ReportAddsUp`: what the summary shows as produced is what it shows as delivered and lost, plus what processors dropped and what was left in queues |
| `pipeline_order` | `OrderedDelivery`, `RoutedByRules`, `ImplementsStreams`; `CountersAreTrue`: each counter is the number of messages it is said to count; `ViolationsAreGaps`: an ordering violation is counted where a number of a producer and type is skipped, and nowhere else |
| `pipeline_odd_rules` | `OddRoutes`: edge cases of the rules against routes worked out by hand; `RoutesInOrder`: two types that the rules send the same way do not overtake each other |
| `pipeline_live` | `SettledWhenTrafficEnds`: once no producer generates any more, every message is delivered or given up, without a stop; `ProgramEnds`; `JoinAdvances`: in a join, each step of the thread main waits for leaves it less to do, and no other step leaves it more |
| `ordering_buffer` | `OutputInOrder`, and what the code does instead of buffering: `NothingBuffered`, `NoSecondChance`, `SentCountsAttempts` |
| `router_load` | `OnlyAFloodStarves`: a queue is left unserved for ever only if one other queue is refilled in time for ever and holds the router |
| `queue_observer` | `TypeOK` (`size()` is never above `capacity()`), `AnswersWithinCall`: an answer is true of some moment of the call unless a load was old or there was both a push and a pop between the loads; `AnswersSettle`: once the queue is at rest the answers become true |
| `monitor` | `TypeOK`, `StatsLagBehind`, `FiguresOnlyGrow`, `LoopWithinLifetime`, `FailedIsFounded`, `WaitReturns` |

Three runs end in a violation, each a disagreement between the program and what
the repository says of it:

| Run | Disagreement |
|---|---|
| `passed_means_delivered` | README: zero loss, "all messages delivered". A router (and likewise a processor or a strategy) may exit between its last scan and a push; the message stays queued, nothing counts it, and the summary says PASSED. |
| `loss_is_counted` | The summary's "Messages Lost" leaves out what a processor drops on a full queue. |
| `violation_means_disorder` | `ordering_violations_` counts every change of type: numbers run per producer, the check per producer and type. (`ViolationsAreGaps` says what it does count.) |

Some properties are stated with a condition because without it they fail. These
conditions are where the code is weak:

* `SettledWhenTrafficEnds`: while producers go on, a message may wait for ever: a
  queue that is refilled as fast as it is emptied is never found empty, and then
  the router never gets to the others (`src/stage1_router.cpp:51`).
  `OnlyAFloodStarves` says that nothing less than that has this effect.
* `AnswersWithinCall`: on an empty queue a push and a pop between the two loads of
  `size()` make it return `capacity()`.
* `StatsLagBehind`, `FiguresOnlyGrow`, `FailedIsFounded`: a reset that overlaps an
  update brings old figures back, until the next update that none overlaps. And
  PASSED (unlike FAILED) may be wrong, since nothing updates `stats_` after
  `stop()`.
* `LoopWithinLifetime`: destroying or restarting a Monitor whose thread nobody has
  joined ends the process (`std::terminate`), which the property lets happen.
* `FreedConfigUnread`: with a producer running, a failed start can end in a read of
  freed memory.

Visible in the definitions, and not worth a run: the configured distribution is
loaded and never read (`Generate` takes any type); the example in the README puts
its rules under `routing`, where `LoadRules` does not look; the summary's figures
for producers 0 to 3 are the total divided by four (`Summary`).

### Bounds

* `spsc_ring`: four slots hold three messages, so the ring gets full, empties and
  wraps, and every pair of positions of the two threads occurs; three messages
  tell apart neighbours in the queue. Behaviours are not bounded in length. The
  theorems lift all of it to every size.
* `pipeline`: two producers that may send the same type to one processor, queues
  of one message and one try per push: full queues, drops by both routers and by
  processors and both routers' scans over two queues occur, with a stop at every moment. One try
  instead of 100 or 1000 makes every drop reachable; `pipeline_live` has two, so
  that retries occur. `MaxMessages` bounds what one producer generates.
  With one message each, a producer never finds its own queue full: its drop occurs
  in `pipeline_order`, and `MessagesAreConserved` (section 4) covers all of them.
  A thread may fail to start at every place of the start order.
* `pipeline_order`: three messages of one producer, two per queue, two types.
  Order is a matter of one producer's messages, and queues of two are the smallest
  in which order inside a queue matters.
  There is one strategy, so that a stream stays at one strategy says nothing in
  this run; it is said by the proofs of `OrderedDelivery` and `RoutedByRules`, for
  any number.
* `pipeline_live`: two producers of one message each before one processor, and two
  tries per push. With `MaxMessages` the traffic ends in every behaviour of the
  run, which is the condition of `SettledWhenTrafficEnds`; traffic that goes on is
  the matter of `router_load`.
* `pipeline_odd_rules`: all four types, two of which share a route, and room in
  every queue, so that only rules lose messages. Order on a shared route while
  messages are dropped is left to the proof, which has no bounds.
* `ordering_buffer`: three numbers for each of two keys, a queue of two: every
  branch with a successful and with a failed push.
* `router_load`: three producers, so that a queue waits behind two others;
  a queue of one message, two tries
  per push, types with and without a queue to go to. Behaviours are not bounded in
  length.
* `queue_observer`: four slots, as for the ring; nothing else is bounded.
* `monitor`: each of the five counters is 0 or 1 (`MaxCount`) and may be reset and
  count again without end. Properties compare a copy with its counter, for which
  two values are enough.
* the violation runs use the smallest instance that shows the disagreement.

Deadlock is checked in every run.

### Fairness

The threads are free-running operating system threads and none ever blocks: each
loop spins. So each thread's steps are weakly fair, and so are main's, with one
exception: nothing is assumed about whether the running time ends
(`MainExpired`) or a signal arrives. In the queue, the popper is weakly fair
because each consumer polls for ever, the pusher is fair only inside a call, and
a stored index becomes visible in finite time. Under this fairness a producer
generates up to `MaxMessages` messages, so that traffic ends, as
`SettledWhenTrafficEnds` presumes; producers that generate for ever are in
`RouterLoad`, where the router and the processors are fair and nothing is assumed
about the producers. In `QueueObserver` the stores reach the observer in finite
time, a call that has begun ends, and both functions are called again and again
(strong fairness: while one is being called the other cannot begin); nothing is
assumed about pushes and pops. In `Monitor` the thread is scheduled, a second
always passes, a join returns when the thread has ended and a reset once begun is
finished; the owner need not call anything. Nothing is assumed about the failure
to create a thread.

## 4. Proofs

TLC checks small instances; TLAPS proves the following for every value of the
constants. Each theorem has the form `Spec => []P` unless it says otherwise, and
`P` is what a run of section 3 checks.

| Module | Theorem | Property |
|---|---|---|
| `SpscQueue_proofs` | `TypeCorrect`, `InductiveInvariant`, `DataRaceFreedom`, `ReadyFlagsAgree` | `TypeOK`, `IInv`, `NoDataRace`, `ReadyIffPublished` |
| | `RingImplementsFifo`, `RingImplementsIndices` | `Spec => ImplementsFifo`, `Spec => ImplementsIndices` |
| `QueueObserver_proofs` | `ObserverTypeCorrect` | `TypeOK` |
| | `AnswersAreWitnessed` | `Spec => AnswersWithinCall`, an action property |
| `Pipeline_proofs` | `TypeCorrect` | `TypeOK` |
| `PipelineShutdown_proofs` | `DrainsAreFinite`, `ReportsAreFinal`, `FreedConfigIsUnread` | `DrainIsFinite`, `ReportIsFinal`, `FreedConfigUnread` |
| `PipelineOrder_proofs` | `DeliveryIsOrdered`, `DeliveryFollowsRules`, `RoutesKeepOrder`, `ViolationsCountGaps` | `OrderedDelivery`, `RoutedByRules`, `RoutesInOrder`, `ViolationsAreGaps` |
| | `PipelineImplementsStreams` | `Spec => ImplementsStreams` |
| `PipelineConserved_proofs` | `MessagesAreConserved`, `CountersAlwaysBalance`, `CountersTellTheTruth`, `ReportsAddUp` | `Conserved`, `CountersBalance`, `CountersAreTrue`, `ReportAddsUp` |
| | `JoinsAdvance` | `Spec => JoinAdvances`, an action property |
| `OrderingBuffer_proofs` | `BufferTypeCorrect`, `GapsAreSkipped`, `OutputIsOrdered`, `FailureIsFinal`, `SentIsAttempts` | `TypeOK`, `NothingBuffered`, `OutputInOrder`, `NoSecondChance`, `SentCountsAttempts` |
| `Monitor_proofs` | `MonitorTypeCorrect`, `FiguresLagBehind`, `LoopEndsInTime`, `FailureIsFounded` | `TypeOK`, `StatsLagBehind`, `LoopWithinLifetime`, `FailedIsFounded` |
| | `FiguresGrow` | `Spec => FiguresOnlyGrow`, an action property |

### The queue

The assumptions are `SizeAssumption` (`Size` is a positive number) and
`NoMsgAssumption`. `Size` need not be a power of two in the proof: that is only
used to identify mask and remainder.

`NoDataRace` is not inductive. That the pusher writes to a slot is justified by a
check it made against an index that has moved since; one has to know that the
index can only have moved in the harmless direction. `IInv` says so: `Window`
(from the head the pusher knows, one meets head, the tail the popper knows, and
tail, in this order and within one lap), `PushInProgress` (past the check there
is room by the head the pusher knows), `PopInProgress` (past the check there is a
message by the tail the popper knows), and `ReadyIffPublished`. Each action
preserves it by arithmetic on distances round the ring. The refinement maps the
ring to the sequence `Contents`; `TryPushPublish` is the abstract push,
`TryPopAdvance` the abstract pop, `TryPushCheck` the abstract call or its refusal
(`calling` is `pushPc # "idle"`, so a call pushes once), and every
other action leaves `Contents` alone, because the slot it writes is outside the
occupied range (`SlotFacts`, `ContentsFrame`).

For `RingImplementsIndices`, which justifies modelling the queue by its indices in
`QueueObserver`, the two moving actions, `TryPushPublish` and `TryPopAdvance`,
need `PushInProgress` and `PopInProgress` once more: the room or the message that
the thread found by an old index is there by the real one.

For the observer (`ObserverAssumption`), `ObserverInv` says what a call between
its two loads may rely on: the number of messages now is one of those of the
call, the index it loaded stands still unless the matching operation has been
done, and that index together with the other one, as it is now, gives a number
of messages there was during the call.

### The pipeline

The assumptions are `ConfigAssumption` (the file was read into a configuration),
`ValidConfig` (`main` goes on only if `validate` holds), `NoMessageAssumption` and
`BoundsAssumption`: capacity and tries are positive, and `CounterRange` exceeds
the number of messages all producers may generate. Nothing is assumed about the
rules, which `validate` does not look at: they may be missing, overlap or name
threads that do not exist.

*Types.* `TypeInv` adds to `TypeOK` what makes it inductive. A router that is
pushing has a target its configuration knows, so that the queue it pushes into
exists; a producer has numbered more messages than it has counted; a thread main
has not come to yet is new (`FreshOK`), so that no start is refused. The last
needs the orders of starting and stopping as sequences of unknown length: lemmas
say which thread is at which place, and that every thread is at exactly one.

*Shutdown.* `StopInv` says how far main has come: every thread before its place in
`StopOrder` is gone, and when the summary is printed all are. That gives
`DrainIsFinite`, since whoever feeds a thread comes before it in `StopOrder`, and
`ReportIsFinal`. `QuietInv` says that up to the start of the first producer there
is no message anywhere before the second router, so nobody can read the freed
configuration.

*Order.* A message passes nine levels, from its producer's hand to a strategy's
log. A route is what the messages of one producer have in common whose types the
rules send to the same processor and the same strategy; all messages of one type
are on one. `OrderInv` has four parts: a route uses one queue at each level
(`Routed`), every queue holds the messages of each route in order (`AllSorted`),
of two messages of a route the one further on its way is the older (`InOrder`),
and no message has a number its producer has not given (`Numbered`).
`OrderedDelivery` and `RoutesInOrder` are the part of it that concerns the logs,
but need all of it: that a pop appends to the log in order is known only from the
order between the queue and the log. A step moves at most one message, from a
level to the next; what it moves is the oldest of its route at its level.
`RoutedByRules` is in `Routed`. For the refinement, each step is a step of
`OrderedStreams` (a producer's `Generate` a send, a strategy's `Pop` a delivery)
or leaves both of its variables alone.

*Violations.* `GapsInv` says what a strategy expects: for each key the number after
that of the key's last entry in the log, and nothing without an entry. A number
other than the expected one could be a gap or a step back; only
`OrderedDelivery`, which is assumed of the state after the step, excludes the
second. So the alarm is about losses and, as types share their producer's
numbers, about changes of type, never about order.

*Conservation.* `PlaceInv` has the places of a message on ten shelves, one per
level and one for what is lost: a message its producer has numbered is on one
shelf in one place, every other message nowhere. Each step carries at most one
message from one shelf to another (`Carries`), or makes one. `Conserved` counts
the same places.

*Counters.* `CountersAreTrue` is inductive together with `TypeInv` and `PlaceInv`:
that a message is given up once is known because the one at hand, or at the head
of the queue, is not yet among the lost; that the error counters, which wrap, do
not, comes from the balance. `CountersBalance` is inductive together with `TypeInv`, `PlaceInv` and
the finiteness of `lost`. `PlaceInv` is needed for the one figure that is not a
counter of the code, the messages processors gave up on: a message in a hand is
not yet among the lost. That the routers' counters, which wrap, do not, comes from
the balance itself: whatever a router is about to count is still queued or in its
hand, so its counters together are below the number of messages produced. The
sums over threads are folds; `TotalCounts` shows, by a least counterexample among
the subsets of the threads, that such a sum is the size of a set of pairs, and
from there on sums are cardinalities. `ReportAddsUp` follows with `ReportIsFinal`:
the two terms that the summary does not show are exactly what the first two
violation runs exhibit.

*Joins.* `WorkLeft(t)` is a bound on the steps thread t can still take once it has
been told to stop: a weight for every message before it, for every try it has
left, for every queue it has yet to look at and for its position. That it falls
with each step of t needs `ToldToStop` (the thread main waits for finds its
`running_` false, so it cannot begin another round), that nothing raises it needs
`DrainIsFinite` (no one is left who feeds t). This is the part of
`ProgramEnds` that the prover can state; that a thread which can step does step is
fairness, and stays with TLC.

### The ordering buffer and the monitor

`BufferInv` (`OrderingBufferAssumption`): whatever has been tried, with or without
success, is behind the number expected next for its key, and nothing is both
pushed and failed. From the first it follows that a message is tried once.

`MonitorInv` (`MonitorAssumption`): in an update that no reset has overlapped, what
has been stored so far and what is held for the next store are not ahead of the
counters (`UpdateIsSound`), which is why such an update ends with all figures
right, whatever they were before; a reset that overlaps an update is noted; while
counters are being cleared `stats_` is clear, unless a race has been noted; a
Monitor whose thread has been joined, or that is gone, has no thread that runs. For
`FiguresOnlyGrow` one more part, `HeldIsNewer`: what is about to be stored was
loaded when the copy lagged behind the counter, and no one has changed the copy
since.

### Only model-checked

* Liveness under fairness, and ENABLED, which are outside the prover's reach:
  `EventuallyPopped`, `SettledWhenTrafficEnds`, `ProgramEnds`, `OnlyAFloodStarves`,
  `AnswersSettle`, `WaitReturns`.
* `OddRoutes`, which is about one configuration.
* That a mask is a remainder for powers of two (`MCSpscQueue`).

## 5. Not modelled

* JSON parsing and its exceptions, a bad command line and a failed validation:
  the program ends before it has any state; `is_ordering_required`, which nothing
  calls;
* clocks, rates and processing times: a step may come at any time. This covers
  `messages_per_sec` 0 and the unsynchronised `last_report_time_` of the monitor;
* printing and formatting, the literals printed as latencies, the monitor's
  `calculate_percentiles`, which nothing calls, and what a signal
  handler that writes to `std::cout` may interrupt;
* `src/lockfree_queue.cpp`, which contains no code, the benchmarks, which time the
  queue and keep no state of the system's own, and the build files and scripts.
