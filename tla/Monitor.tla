------------------------------- MODULE Monitor -------------------------------
(***************************************************************************)
(* Monitor (include/monitor.h, src/monitor.cpp): a thread that copies the  *)
(* managers' counters into stats_ every second and prints them, and the    *)
(* functions its owner calls.  The class is in no target and has no        *)
(* caller; the model's owner, one thread, calls the functions in every     *)
(* order.                                                                  *)
(*                                                                         *)
(* The counters belong to other threads and move at any time.  Queue       *)
(* depths (see QueueObserver) are stored next to them and only printed;    *)
(* they are left out, and so is the clock: a second may pass at any time.  *)
(***************************************************************************)
EXTENDS Integers, Sequences

CONSTANT MaxCount   \* bound: how far a counter goes

\* The counters in the order update_stats reads them.
UpdateOrder == <<"produced", "lost", "processed", "delivered", "violations">>
Counted == {UpdateOrder[k] : k \in DOMAIN UpdateOrder}

\* The managers in the order reset_stats goes through them, with what their
\* reset_all_stats sets to zero.
ResetOrder == <<{"produced", "lost"}, {"processed"}, {"delivered", "violations"}>>

ASSUME MonitorAssumption == MaxCount \in Nat

VARIABLES
  counters,   \* the managers' counters
  stats_,     \* the monitor's copy
  running_,
  thread,     \* monitor_thread_: "none" or "joinable"
  loop,       \* the monitor's thread: pc, at, and the value it has loaded
  owner,      \* the owner's thread: pc, and at in ResetOrder
  verdict,    \* the latest "Test Result"; history: whether the counters were
              \* clean and whether raced held when it was printed
  disturbed,  \* history: a reset_stats has overlapped the update under way
  raced       \* history: one has overlapped an update, and no update has been
              \* made without one since

history == <<disturbed, raced>>
vars == <<counters, stats_, running_, thread, loop, owner, verdict, history>>

Zero == [f \in Counted |-> 0]
Ready == [pc |-> "ready", at |-> 1]
NoLoop == [pc |-> "none", at |-> 1, loaded |-> 0]

Init ==
  /\ counters = Zero
  /\ stats_ = Zero
  /\ running_ = FALSE /\ thread = "none"
  /\ loop = NoLoop
  /\ owner = Ready
  /\ verdict = [passed |-> TRUE, clean |-> TRUE, raced |-> FALSE]
  /\ disturbed = FALSE /\ raced = FALSE

Alive == owner.pc # "terminated"

\* A thread of the pipeline counts something.
Count(f) ==
  /\ Alive
  /\ counters[f] < MaxCount
  /\ counters' = [counters EXCEPT ![f] = @ + 1]
  /\ UNCHANGED <<stats_, running_, thread, loop, owner, verdict, history>>

-----------------------------------------------------------------------------
(* The monitor's thread *)

\* A mistake: once started, the loop does not look at running_.
LoopGoesOn ==
  /\ Alive
  /\ loop.pc = "loop"
  /\ ~ running_
  /\ loop' = [loop EXCEPT !.pc = "load", !.at = 1]
  /\ UNCHANGED <<counters, stats_, running_, thread, owner, verdict, history>>

\* monitor_loop: leave when running_ is false ...
LoopExits ==
  /\ Alive
  /\ loop.pc = "loop"
  /\ ~ running_
  /\ loop' = [loop EXCEPT !.pc = "exit"]
  /\ UNCHANGED <<counters, stats_, running_, thread, owner, verdict, history>>

\* A mistake: an update clears all figures before it brings the new ones.
LoopClearsFirst ==
  /\ Alive
  /\ loop.pc = "loop"
  /\ running_
  /\ stats_' = Zero
  /\ loop' = [pc |-> "load", at |-> 1, loaded |-> 0]
  /\ disturbed' = (owner.pc = "reset")
  /\ raced' = (raced \/ disturbed')
  /\ UNCHANGED <<counters, running_, thread, owner, verdict>>

\* ... and otherwise, when a second has passed, call update_stats.
LoopUpdates ==
  /\ Alive
  /\ loop.pc = "loop"
  /\ running_
  /\ loop' = [pc |-> "load", at |-> 1, loaded |-> 0]
  /\ disturbed' = (owner.pc = "reset")
  /\ raced' = (raced \/ disturbed')
  /\ UNCHANGED <<counters, stats_, running_, thread, owner, verdict>>

\* update_stats asks a manager for a counter ...
UpdateLoad ==
  /\ Alive
  /\ loop.pc = "load"
  /\ loop' = [loop EXCEPT !.pc = "store", !.loaded = counters[UpdateOrder[loop.at]]]
  /\ UNCHANGED <<counters, stats_, running_, thread, owner, verdict, history>>

\* A mistake: the last counter is not noticed.
UpdateStorePastEnd ==
  /\ Alive
  /\ loop.pc = "store"
  /\ stats_' = [stats_ EXCEPT ![UpdateOrder[loop.at]] = loop.loaded]
  /\ loop' = [pc |-> "load", at |-> loop.at + 1, loaded |-> 0]
  /\ UNCHANGED <<counters, running_, thread, owner, verdict, history>>

\* ... and stores it.
UpdateStore ==
  /\ Alive
  /\ loop.pc = "store"
  /\ stats_' = [stats_ EXCEPT ![UpdateOrder[loop.at]] = loop.loaded]
  /\ IF loop.at < Len(UpdateOrder)
       THEN /\ loop' = [pc |-> "load", at |-> loop.at + 1, loaded |-> 0]
            /\ UNCHANGED raced
       ELSE /\ loop' = [pc |-> "loop", at |-> 1, loaded |-> 0]
            /\ raced' = (raced /\ disturbed)
  /\ UNCHANGED <<counters, running_, thread, owner, verdict, disturbed>>

monitor_loop == LoopExits \/ LoopUpdates \/ UpdateLoad \/ UpdateStore

-----------------------------------------------------------------------------
(* The owner *)

\* start(), unless running.  The new thread runs before the old one is let
\* go of; if nobody has joined that one, std::terminate ends the process.
start ==
  /\ owner.pc = "ready"
  /\ ~ running_
  /\ running_' = TRUE
  /\ IF thread = "joinable"
       THEN owner' = [owner EXCEPT !.pc = "terminated"] /\ UNCHANGED <<thread, loop>>
       ELSE thread' = "joinable" /\ loop' = [NoLoop EXCEPT !.pc = "loop"] /\ UNCHANGED owner
  /\ UNCHANGED <<counters, stats_, verdict, history>>

\* start() when the thread cannot be created: running_ is already set, the
\* exception goes to the caller, and monitor_thread_ is what it was.  If that
\* is a thread that has not yet seen the last stop(), it goes on.
StartFails ==
  /\ owner.pc = "ready"
  /\ ~ running_
  /\ running_' = TRUE
  /\ UNCHANGED <<counters, stats_, thread, loop, owner, verdict, history>>

\* stop(): does not wait.
stop ==
  /\ owner.pc = "ready"
  /\ running_
  /\ running_' = FALSE
  /\ UNCHANGED <<counters, stats_, thread, loop, owner, verdict, history>>

\* wait_for_completion(), if there is a thread to join: the call ...
WaitBegins ==
  /\ owner.pc = "ready"
  /\ thread = "joinable"
  /\ owner' = [owner EXCEPT !.pc = "wait"]
  /\ UNCHANGED <<counters, stats_, running_, thread, loop, verdict, history>>

\* A mistake: the thread is let go of instead of joined.
WaitDetaches ==
  /\ owner.pc = "wait"
  /\ thread' = "none"
  /\ owner' = Ready
  /\ UNCHANGED <<counters, stats_, running_, loop, verdict, history>>

\* ... and its return.
WaitEnds ==
  /\ owner.pc = "wait"
  /\ loop.pc = "exit"
  /\ thread' = "none"
  /\ owner' = Ready
  /\ UNCHANGED <<counters, stats_, running_, loop, verdict, history>>

\* A mistake: reset_stats leaves stats_ as it is.
ResetKeepsStats ==
  /\ owner.pc = "ready"
  /\ owner' = [pc |-> "reset", at |-> 1]
  /\ raced' = (loop.pc \in {"load", "store"})
  /\ disturbed' = raced'
  /\ UNCHANGED <<counters, stats_, running_, thread, loop, verdict>>

\* reset_stats() first clears stats_ ...
ResetStats ==
  /\ owner.pc = "ready"
  /\ stats_' = Zero
  /\ owner' = [pc |-> "reset", at |-> 1]
  /\ raced' = (loop.pc \in {"load", "store"})
  /\ disturbed' = raced'
  /\ UNCHANGED <<counters, running_, thread, loop, verdict>>

\* ... and then has the managers clear their counters, one by one.
ResetManager ==
  /\ owner.pc = "reset"
  /\ counters' = [f \in Counted |-> IF f \in ResetOrder[owner.at] THEN 0 ELSE counters[f]]
  /\ owner' = IF owner.at < Len(ResetOrder) THEN [owner EXCEPT !.at = @ + 1] ELSE Ready
  /\ UNCHANGED <<stats_, running_, thread, loop, verdict, history>>

\* A mistake: the result asks for everything produced to be delivered.
ReportComparesTotals ==
  /\ owner.pc = "ready"
  /\ verdict' = [passed |-> stats_["delivered"] = stats_["produced"],
                 clean  |-> counters["lost"] = 0 /\ counters["violations"] = 0,
                 raced  |-> raced]
  /\ UNCHANGED <<counters, stats_, running_, thread, loop, owner, history>>

\* print_final_report(): all figures and the result come from stats_.  Its loads
\* are one step: no property depends on what is stored between them.
print_final_report ==
  /\ owner.pc = "ready"
  /\ verdict' = [passed |-> stats_["lost"] = 0 /\ stats_["violations"] = 0,
                 clean  |-> counters["lost"] = 0 /\ counters["violations"] = 0,
                 raced  |-> raced]
  /\ UNCHANGED <<counters, stats_, running_, thread, loop, owner, history>>

\* ~Monitor() calls stop(), and then destroys monitor_thread_, which is fatal
\* unless it has been joined.
Destroy ==
  /\ owner.pc = "ready"
  /\ running_' = FALSE
  /\ owner' = [owner EXCEPT !.pc = IF thread = "joinable" THEN "terminated" ELSE "gone"]
  /\ UNCHANGED <<counters, stats_, thread, loop, verdict, history>>

OwnerCalls ==
  \/ start \/ StartFails \/ stop \/ WaitBegins \/ WaitEnds
  \/ ResetStats \/ ResetManager \/ print_final_report \/ Destroy

Over == owner.pc \in {"gone", "terminated"} /\ UNCHANGED vars

Next == (\E f \in Counted : Count(f)) \/ monitor_loop \/ OwnerCalls \/ Over

Spec == Init /\ [][Next]_vars

\* The monitor's thread is scheduled, a second always passes, and join
\* returns when the thread has ended.  The owner need not call anything.
FairSpec == Spec /\ WF_vars(monitor_loop) /\ WF_vars(WaitEnds) /\ WF_vars(ResetManager)

-----------------------------------------------------------------------------
(* Properties *)

\* Every variable stays in its range.
TypeOK ==
  /\ counters \in [Counted -> 0 .. MaxCount] /\ stats_ \in [Counted -> 0 .. MaxCount]
  /\ running_ \in BOOLEAN /\ thread \in {"none", "joinable"}
  /\ loop \in [pc : {"none", "loop", "load", "store", "exit"},
               at : 1 .. Len(UpdateOrder), loaded : 0 .. MaxCount]
  /\ owner \in [pc : {"ready", "wait", "reset", "gone", "terminated"}, at : 1 .. Len(ResetOrder)]
  /\ verdict \in [passed : BOOLEAN, clean : BOOLEAN, raced : BOOLEAN]
  /\ disturbed \in BOOLEAN /\ raced \in BOOLEAN

\* The printed figures lag behind the counters and are never ahead of them,
\* unless reset_stats has overlapped an update, which can bring figures from
\* before the reset back after it.  The harm does not last: the first update
\* that no reset overlaps puts every figure right, and so does a reset
\* between two updates.
StatsLagBehind == ~ raced => \A f \in Counted : stats_[f] <= counters[f]

\* The thread never runs on a Monitor that has been destroyed: a destructor
\* that is not fatal finds the loop ended or never begun.
LoopWithinLifetime == owner.pc = "gone" => loop.pc \in {"none", "exit"}

\* From one report to the next no figure falls, unless reset_stats was called
\* or has overlapped an update: what an update stores is not older than what
\* is there, although the counter moves between its load and its store.
FiguresOnlyGrow ==
  [][~ raced /\ ~ ResetStats => \A f \in Counted : stats_[f] <= stats_'[f]]_vars

\* wait_for_completion() returns once stop() has been called, in whatever
\* update the thread is.
WaitReturns == (owner.pc = "wait" /\ ~ running_) ~> owner.pc = "ready"

\* print_final_report() says FAILED only when a loss or a violation has been
\* counted, although it reads copies that nothing brings up to date.  (The
\* other way round it may err: what was counted since the last update is not
\* in the copies, and the result is PASSED.)
FailedIsFounded == ~ verdict.raced /\ ~ verdict.passed => ~ verdict.clean
=============================================================================
