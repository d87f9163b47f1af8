--------------------------- MODULE Monitor_proofs ---------------------------
(***************************************************************************)
(* The safety properties of Monitor, for every bound on the counters.      *)
(***************************************************************************)
EXTENDS Monitor, TLAPS

\* In an update that no reset has overlapped, what has been stored so far and
\* what is held for the next store are not ahead of the counters: these only
\* grow meanwhile.  Such an update ends with every figure right.
UpdateIsSound ==
  loop.pc \in {"load", "store"} /\ ~ disturbed =>
    /\ owner.pc # "reset"
    /\ \A k \in 1 .. loop.at - 1 : stats_[UpdateOrder[k]] <= counters[UpdateOrder[k]]
    /\ loop.pc = "store" => loop.loaded <= counters[UpdateOrder[loop.at]]

\* A reset that overlaps the update under way is remembered, and while the
\* counters are being cleared there is nothing left to compare.
OverlapIsNoted == ~ raced /\ loop.pc \in {"load", "store"} => ~ disturbed
ResetIsAlone == ~ raced /\ owner.pc = "reset" => stats_ = Zero

\* A Monitor that is gone, or whose thread has been joined, has no thread that
\* runs.
ThreadIsJoined ==
  /\ thread = "none" => loop.pc \in {"none", "exit"}
  /\ owner.pc = "gone" => thread = "none"

MonitorInv ==
  /\ TypeOK /\ StatsLagBehind /\ UpdateIsSound /\ OverlapIsNoted /\ ResetIsAlone
  /\ ThreadIsJoined /\ FailedIsFounded

-----------------------------------------------------------------------------
\* The counters, in the order update_stats reads them.
LEMMA OrderFacts ==
  /\ Len(UpdateOrder) = 5 /\ Counted = {UpdateOrder[k] : k \in 1 .. 5}
  /\ \A k \in 1 .. 5 : UpdateOrder[k] \in Counted
  /\ Len(ResetOrder) = 3
  /\ {"lost", "violations"} \subseteq Counted
  /\ Zero \in [Counted -> 0 .. MaxCount] /\ \A f \in Counted : Zero[f] = 0
<1>1. Len(UpdateOrder) = 5 /\ DOMAIN UpdateOrder = 1 .. 5 /\ Len(ResetOrder) = 3
  BY DEF UpdateOrder, ResetOrder
<1>2. \A k \in 1 .. 5 : UpdateOrder[k] \in Counted
  BY <1>1 DEF Counted
<1>3. UpdateOrder[2] = "lost" /\ UpdateOrder[5] = "violations"
  BY DEF UpdateOrder
<1>4. {"lost", "violations"} \subseteq Counted
  BY <1>2, <1>3
<1>5. Counted = {UpdateOrder[k] : k \in 1 .. 5}
  BY <1>1 DEF Counted
<1>. QED  BY <1>1, <1>2, <1>4, <1>5, MonitorAssumption DEF Zero

\* It holds of a new Monitor.
LEMMA MonitorInit == Init => MonitorInv
<1>. SUFFICES ASSUME Init  PROVE  MonitorInv
  OBVIOUS
<1>1. TypeOK
  <2>1. /\ counters \in [Counted -> 0 .. MaxCount] /\ stats_ \in [Counted -> 0 .. MaxCount]
        /\ running_ \in BOOLEAN /\ thread \in {"none", "joinable"}
        /\ disturbed \in BOOLEAN /\ raced \in BOOLEAN
    BY OrderFacts DEF Init
  <2>2. /\ 0 \in 0 .. MaxCount /\ 1 \in 1 .. Len(UpdateOrder) /\ 1 \in 1 .. Len(ResetOrder)
    BY OrderFacts, MonitorAssumption
  <2>3. loop \in [pc : {"none", "loop", "load", "store", "exit"},
                  at : 1 .. Len(UpdateOrder), loaded : 0 .. MaxCount]
    BY <2>2 DEF Init, NoLoop
  <2>4. owner \in [pc : {"ready", "wait", "reset", "gone", "terminated"},
                   at : 1 .. Len(ResetOrder)]
    BY <2>2 DEF Init, Ready
  <2>5. verdict \in [passed : BOOLEAN, clean : BOOLEAN, raced : BOOLEAN]
    BY DEF Init
  <2>. QED  BY ONLY <2>1, <2>3, <2>4, <2>5 DEF TypeOK
<1>2. StatsLagBehind
  BY OrderFacts DEF Init, StatsLagBehind
<1>3. UpdateIsSound /\ OverlapIsNoted /\ ResetIsAlone /\ ThreadIsJoined /\ FailedIsFounded
  BY DEF Init, NoLoop, Ready, UpdateIsSound, OverlapIsNoted, ResetIsAlone, ThreadIsJoined,
         FailedIsFounded
<1>. QED  BY <1>1, <1>2, <1>3 DEF MonitorInv

\* The steps of the threads that count.
LEMMA CountKeeps ==
  ASSUME MonitorInv, NEW f \in Counted, Count(f)
  PROVE  MonitorInv'
<1>0. counters \in [Counted -> 0 .. MaxCount] /\ counters[f] + 1 \in 0 .. MaxCount
  BY MonitorAssumption DEF MonitorInv, TypeOK, Count
<1>1. TypeOK'
  <2>1. counters' \in [Counted -> 0 .. MaxCount]
    BY <1>0 DEF Count
  <2>. QED  BY <2>1 DEF MonitorInv, TypeOK, Count, history
<1>2. \A g \in Counted : counters[g] <= counters'[g]
  BY MonitorAssumption DEF MonitorInv, TypeOK, Count
<1>3. \A g \in Counted : stats_[g] \in Nat /\ counters[g] \in Nat /\ counters'[g] \in Nat
  BY <1>1 DEF MonitorInv, TypeOK
<1>4. StatsLagBehind'
  BY <1>2, <1>3 DEF MonitorInv, StatsLagBehind, Count, history
<1>5. UpdateIsSound'
  <2>1. loop.at \in 1 .. 5
    BY OrderFacts DEF MonitorInv, TypeOK
  <2>2. \A k \in 1 .. loop.at - 1 : UpdateOrder[k] \in Counted
    BY <2>1, OrderFacts
  <2>3. UpdateOrder[loop.at] \in Counted /\ loop.loaded \in Nat
    BY <2>1, OrderFacts DEF MonitorInv, TypeOK
  <2>4. UNCHANGED <<stats_, loop, owner, history>>
    BY DEF Count
  <2>. QED  BY <1>2, <1>3, <2>2, <2>3, <2>4 DEF MonitorInv, UpdateIsSound, history
<1>. QED
  BY <1>1, <1>4, <1>5 DEF MonitorInv, OverlapIsNoted, ResetIsAlone, ThreadIsJoined,
                          FailedIsFounded, Count, history

\* The steps of the monitor's thread.
LEMMA LoopKeeps ==
  ASSUME MonitorInv, monitor_loop
  PROVE  MonitorInv'
<1>. USE DEF MonitorInv
<1>1. CASE LoopExits
  BY <1>1 DEF LoopExits, history, TypeOK, StatsLagBehind, UpdateIsSound, OverlapIsNoted,
              ResetIsAlone, ThreadIsJoined, FailedIsFounded
<1>2. CASE LoopUpdates
  <2>1. loop' = [pc |-> "load", at |-> 1, loaded |-> 0]
    BY <1>2 DEF LoopUpdates
  <2>2. /\ disturbed' = (owner.pc = "reset") /\ raced' = (raced \/ disturbed')
        /\ UNCHANGED <<counters, stats_, running_, thread, owner, verdict>>
    BY <1>2 DEF LoopUpdates
  <2>3. TypeOK'
    <3>1. loop' \in [pc : {"none", "loop", "load", "store", "exit"},
                     at : 1 .. Len(UpdateOrder), loaded : 0 .. MaxCount]
      BY <2>1, OrderFacts, MonitorAssumption
    <3>2. disturbed' \in BOOLEAN /\ raced' \in BOOLEAN
      BY <2>2
    <3>. QED  BY ONLY TypeOK, <3>1, <3>2, <2>2 DEF TypeOK
  <2>4. StatsLagBehind' /\ FailedIsFounded'
    BY <2>2 DEF StatsLagBehind, FailedIsFounded
  <2>5. UpdateIsSound'
    <3>1. ~ disturbed' => owner'.pc # "reset"
      BY ONLY <2>2
    <3>2. loop'.pc = "load" /\ loop'.at = 1
      BY ONLY <2>1
    <3>3. 1 .. loop'.at - 1 = {}
      BY ONLY <3>2
    <3>. QED  BY ONLY <3>1, <3>2, <3>3 DEF UpdateIsSound
  <2>6. OverlapIsNoted' /\ ResetIsAlone'
    <3>1. disturbed' => raced'
      BY ONLY <2>2
    <3>2. owner'.pc = "reset" => disturbed'
      BY ONLY <2>2
    <3>. QED  BY ONLY <3>1, <3>2 DEF OverlapIsNoted, ResetIsAlone
  <2>7. ThreadIsJoined'
    BY <1>2, <2>2 DEF LoopUpdates, TypeOK, ThreadIsJoined
  <2>. QED  BY <2>3, <2>4, <2>5, <2>6, <2>7
<1>3. CASE UpdateLoad
  <2>1. loop.at \in 1 .. 5 /\ counters[UpdateOrder[loop.at]] \in 0 .. MaxCount
    BY OrderFacts DEF TypeOK
  <2>2. TypeOK'
    BY <1>3, <2>1, OrderFacts DEF UpdateLoad, history, TypeOK
  <2>3. /\ loop.pc = "load" /\ loop'.pc = "store" /\ loop'.at = loop.at
        /\ loop'.loaded = counters[UpdateOrder[loop.at]]
        /\ UNCHANGED <<counters, stats_, running_, thread, owner, verdict, history>>
    BY <1>3 DEF UpdateLoad, TypeOK
  <2>4. UpdateIsSound'
    BY <2>1, <2>3 DEF history, UpdateIsSound
  <2>. QED  BY <2>2, <2>3, <2>4 DEF history, StatsLagBehind, OverlapIsNoted, ResetIsAlone,
              ThreadIsJoined, FailedIsFounded
<1>4. CASE UpdateStore
  <2>1. UpdateOrder[loop.at] \in Counted /\ loop.at \in 1 .. 5
    BY OrderFacts DEF TypeOK
  <2>2. /\ loop.pc = "store" /\ stats_' = [stats_ EXCEPT ![UpdateOrder[loop.at]] = loop.loaded]
        /\ UNCHANGED <<counters, running_, thread, owner, verdict, disturbed>>
    BY <1>4 DEF UpdateStore
  <2>3. \/ /\ loop.at < 5 /\ loop' = [pc |-> "load", at |-> loop.at + 1, loaded |-> 0]
           /\ UNCHANGED raced
        \/ /\ loop.at = 5 /\ loop' = [pc |-> "loop", at |-> 1, loaded |-> 0]
           /\ raced' = (raced /\ disturbed)
    BY <1>4, <2>1, OrderFacts DEF UpdateStore
  <2>4. TypeOK'
    <3>1. stats_' \in [Counted -> 0 .. MaxCount]
      BY <2>1, <2>2 DEF TypeOK
    <3>2. loop' \in [pc : {"none", "loop", "load", "store", "exit"},
                     at : 1 .. Len(UpdateOrder), loaded : 0 .. MaxCount]
      BY <2>1, <2>3, OrderFacts, MonitorAssumption
    <3>3. raced' \in BOOLEAN
      BY <2>3 DEF TypeOK
    <3>. QED  BY ONLY TypeOK, <2>2, <3>1, <3>2, <3>3 DEF TypeOK
  <2>5. ASSUME ~ disturbed
        PROVE  /\ owner.pc # "reset" /\ loop.loaded <= counters[UpdateOrder[loop.at]]
               /\ \A k \in 1 .. loop.at : stats_'[UpdateOrder[k]] <= counters[UpdateOrder[k]]
    <3>1. /\ owner.pc # "reset" /\ loop.loaded <= counters[UpdateOrder[loop.at]]
          /\ \A k \in 1 .. loop.at - 1 : stats_[UpdateOrder[k]] <= counters[UpdateOrder[k]]
      BY <2>2, <2>5 DEF UpdateIsSound
    <3>2. ASSUME NEW k \in 1 .. loop.at
          PROVE  stats_'[UpdateOrder[k]] <= counters[UpdateOrder[k]]
      <4>1. UpdateOrder[k] \in Counted
        BY <2>1, OrderFacts
      <4>2. CASE UpdateOrder[k] = UpdateOrder[loop.at]
        BY <2>1, <2>2, <3>1, <4>2 DEF TypeOK
      <4>3. CASE UpdateOrder[k] # UpdateOrder[loop.at]
        <5>1. k \in 1 .. loop.at - 1
          BY <2>1, <4>3
        <5>. QED  BY <2>1, <2>2, <3>1, <4>1, <4>3, <5>1 DEF TypeOK
      <4>. QED  BY <4>2, <4>3
    <3>. QED  BY <3>1, <3>2
  <2>6. StatsLagBehind'
    <3>1. CASE ~ disturbed /\ loop.at = 5
      BY <2>2, <2>5, <3>1, OrderFacts DEF StatsLagBehind
    <3>2. CASE ~ raced
      <4>1. ~ disturbed
        BY <2>2, <3>2 DEF OverlapIsNoted
      <4>2. loop.loaded <= counters[UpdateOrder[loop.at]]
        BY <2>5, <4>1
      <4>. QED  BY <2>1, <2>2, <3>2, <4>2 DEF TypeOK, StatsLagBehind
    <3>3. CASE raced'
      BY <3>3 DEF StatsLagBehind
    <3>4. raced' \/ ~ raced \/ (~ disturbed /\ loop.at = 5)
      BY <2>3 DEF TypeOK
    <3>. QED  BY <3>1, <3>2, <3>3, <3>4
  <2>7. UpdateIsSound'
    BY <2>1, <2>2, <2>3, <2>5 DEF UpdateIsSound
  <2>8. OverlapIsNoted'
    BY <2>2, <2>3 DEF OverlapIsNoted
  <2>9. ResetIsAlone'
    <3>1. owner.pc = "reset" => disturbed
      BY <2>5
    <3>2. disturbed => raced
      BY <2>2 DEF OverlapIsNoted
    <3>3. raced /\ disturbed => raced'
      BY <2>3
    <3>4. owner' = owner
      BY <2>2
    <3>. QED  BY <3>1, <3>2, <3>3, <3>4 DEF ResetIsAlone
  <2>10. ThreadIsJoined' /\ FailedIsFounded'
    BY <2>2, <2>3 DEF ThreadIsJoined, FailedIsFounded
  <2>. QED  BY <2>4, <2>6, <2>7, <2>8, <2>9, <2>10
<1>. QED  BY <1>1, <1>2, <1>3, <1>4 DEF monitor_loop

\* The owner's steps.
LEMMA OwnerKeeps ==
  ASSUME MonitorInv, OwnerCalls
  PROVE  MonitorInv'
<1>. USE DEF MonitorInv
<1>1. CASE start
  <2>1. TypeOK'
    BY <1>1, OrderFacts, MonitorAssumption DEF start, history, NoLoop, TypeOK
  <2>2. /\ UNCHANGED <<counters, stats_, verdict, disturbed, raced>>
        /\ owner' = owner \/ owner'.pc = "terminated"
        /\ loop' = loop \/ loop'.pc = "loop"
    BY <1>1 DEF start, history, NoLoop, TypeOK
  <2>3. UpdateIsSound'
    BY <2>2 DEF UpdateIsSound
  <2>4. ThreadIsJoined'
    BY <1>1, <2>2 DEF start, TypeOK, ThreadIsJoined
  <2>. QED  BY <2>1, <2>2, <2>3, <2>4 DEF StatsLagBehind, OverlapIsNoted, ResetIsAlone,
              FailedIsFounded
<1>2. CASE StartFails \/ stop
  <2>1. /\ UNCHANGED <<counters, stats_, thread, loop, owner, verdict, disturbed, raced>>
        /\ running_' \in BOOLEAN
    BY <1>2 DEF StartFails, stop, history
  <2>2. TypeOK'
    BY ONLY TypeOK, <2>1 DEF TypeOK
  <2>. QED  BY <2>1, <2>2 DEF StatsLagBehind, UpdateIsSound, OverlapIsNoted, ResetIsAlone,
              ThreadIsJoined, FailedIsFounded
<1>3. CASE WaitBegins
  BY <1>3 DEF WaitBegins, history, TypeOK, StatsLagBehind, UpdateIsSound, OverlapIsNoted,
              ResetIsAlone, ThreadIsJoined, FailedIsFounded
<1>4. CASE WaitEnds
  BY <1>4, OrderFacts DEF WaitEnds, Ready, history, TypeOK, StatsLagBehind, UpdateIsSound,
              OverlapIsNoted, ResetIsAlone, ThreadIsJoined, FailedIsFounded
<1>5. CASE ResetStats
  <2>1. /\ stats_' = Zero /\ raced' = (loop.pc \in {"load", "store"}) /\ disturbed' = raced'
        /\ owner' = [pc |-> "reset", at |-> 1] /\ owner.pc = "ready"
        /\ UNCHANGED <<counters, running_, thread, loop, verdict>>
    BY <1>5 DEF ResetStats
  <2>2. TypeOK'
    BY <2>1, OrderFacts DEF TypeOK
  <2>3. StatsLagBehind'
    BY <2>1, OrderFacts DEF TypeOK, StatsLagBehind
  <2>. QED  BY <2>1, <2>2, <2>3 DEF UpdateIsSound, OverlapIsNoted, ResetIsAlone,
              ThreadIsJoined, FailedIsFounded
<1>6. CASE ResetManager
  <2>1. TypeOK'
    BY <1>6, OrderFacts, MonitorAssumption DEF ResetManager, Ready, history, TypeOK
  <2>2. StatsLagBehind'
    BY <1>6, <2>1, OrderFacts DEF ResetManager, history, TypeOK, StatsLagBehind, ResetIsAlone
  <2>3. UpdateIsSound' /\ OverlapIsNoted'
    BY <1>6 DEF ResetManager, history, UpdateIsSound, OverlapIsNoted
  <2>4. ResetIsAlone' /\ ThreadIsJoined' /\ FailedIsFounded'
    BY <1>6 DEF ResetManager, Ready, history, TypeOK, ResetIsAlone, ThreadIsJoined, FailedIsFounded
  <2>. QED  BY <2>1, <2>2, <2>3, <2>4
<1>7. CASE print_final_report
  <2>1. TypeOK'
    BY <1>7 DEF print_final_report, history, TypeOK
  <2>2. FailedIsFounded'
    <3>1. "lost" \in Counted /\ "violations" \in Counted
      BY OrderFacts
    <3>. QED  BY <1>7, <3>1 DEF print_final_report, TypeOK, StatsLagBehind, FailedIsFounded
  <2>. QED  BY <1>7, <2>1, <2>2 DEF print_final_report, history, StatsLagBehind, UpdateIsSound,
              OverlapIsNoted, ResetIsAlone, ThreadIsJoined
<1>8. CASE Destroy
  BY <1>8 DEF Destroy, history, TypeOK, StatsLagBehind, UpdateIsSound, OverlapIsNoted,
              ResetIsAlone, ThreadIsJoined, FailedIsFounded
<1>. QED  BY <1>1, <1>2, <1>3, <1>4, <1>5, <1>6, <1>7, <1>8 DEF OwnerCalls

\* The invariant is inductive.
LEMMA MonitorStep == MonitorInv /\ [Next]_vars => MonitorInv'
<1>. SUFFICES ASSUME MonitorInv, [Next]_vars  PROVE  MonitorInv'
  OBVIOUS
<1>1. CASE UNCHANGED vars
  BY <1>1 DEF vars, history, MonitorInv, TypeOK, StatsLagBehind, UpdateIsSound,
              OverlapIsNoted, ResetIsAlone, ThreadIsJoined, FailedIsFounded
<1>. QED  BY <1>1, CountKeeps, LoopKeeps, OwnerKeeps DEF Next, Over

\* The invariant holds in every reachable state.
LEMMA MonitorInvHolds == Spec => []MonitorInv
BY MonitorInit, MonitorStep, PTL DEF Spec

-----------------------------------------------------------------------------
\* However far the counters go and whatever the owner calls when, every
\* variable of the monitor stays in its range.
THEOREM MonitorTypeCorrect == Spec => []TypeOK
BY MonitorInvHolds, PTL DEF MonitorInv

\* No figure of the monitor is ahead of the counter it was copied from, unless
\* reset_stats has overlapped an update, and then only until the next update
\* that no reset overlaps.
THEOREM FiguresLagBehind == Spec => []StatsLagBehind
BY MonitorInvHolds, PTL DEF MonitorInv

\* monitor_loop never runs on a Monitor that has been destroyed.
THEOREM LoopEndsInTime == Spec => []LoopWithinLifetime
<1>1. MonitorInv => LoopWithinLifetime
  BY DEF MonitorInv, ThreadIsJoined, LoopWithinLifetime
<1>. QED  BY <1>1, MonitorInvHolds, PTL

\* When print_final_report() says FAILED, and the harm of a reset that overlapped
\* an update does not last, a loss or a violation had been counted.
THEOREM FailureIsFounded == Spec => []FailedIsFounded
BY MonitorInvHolds, PTL DEF MonitorInv

-----------------------------------------------------------------------------
(* Figures only grow *)

\* What the monitor's thread is about to store is not older than the copy.
HeldIsNewer ==
  ~ raced /\ loop.pc = "store" => stats_[UpdateOrder[loop.at]] <= loop.loaded

\* Every step keeps it: the value was loaded when the copy lagged behind.
LEMMA HeldStep == MonitorInv /\ MonitorInv' /\ HeldIsNewer /\ [Next]_vars => HeldIsNewer'
<1>. SUFFICES ASSUME MonitorInv, MonitorInv', HeldIsNewer, [Next]_vars  PROVE  HeldIsNewer'
  OBVIOUS
<1>0. UpdateOrder[loop.at] \in Counted
  BY OrderFacts DEF MonitorInv, TypeOK
<1>1. CASE UNCHANGED <<stats_, loop, raced>>
  BY <1>1 DEF HeldIsNewer
<1>2. CASE start
  <2>1. UNCHANGED <<stats_, raced>> /\ (loop' = loop \/ loop'.pc # "store")
    BY <1>2 DEF start, history, NoLoop
  <2>. QED  BY <2>1 DEF HeldIsNewer
<1>3. CASE LoopExits \/ LoopUpdates \/ UpdateStore
  <2>1. loop'.pc # "store"
    BY <1>3 DEF LoopExits, LoopUpdates, UpdateStore, MonitorInv, TypeOK
  <2>. QED  BY <2>1 DEF HeldIsNewer
<1>4. CASE UpdateLoad
  <2>1. /\ loop'.at = loop.at /\ loop'.loaded = counters[UpdateOrder[loop.at]]
        /\ UNCHANGED <<stats_, raced>>
    BY <1>4 DEF UpdateLoad, history, MonitorInv, TypeOK
  <2>. QED  BY <1>0, <2>1 DEF HeldIsNewer, MonitorInv, StatsLagBehind
<1>5. CASE ResetStats
  <2>1. raced' \/ loop'.pc # "store"
    BY <1>5 DEF ResetStats
  <2>. QED  BY <2>1 DEF HeldIsNewer
<1>6. \/ UNCHANGED <<stats_, loop, raced>>
      \/ start \/ LoopExits \/ LoopUpdates \/ UpdateStore \/ UpdateLoad \/ ResetStats
  BY DEF Next, Count, monitor_loop, OwnerCalls, StartFails, stop, WaitBegins, WaitEnds,
         ResetManager, print_final_report, Destroy, Over, vars, history
<1>. QED  BY <1>1, <1>2, <1>3, <1>4, <1>5, <1>6

\* However far the counters go, no figure of the reports falls but by a call of
\* reset_stats, unless one has overlapped an update and none has been made
\* without one since.
THEOREM FiguresGrow == Spec => FiguresOnlyGrow
<1>1. Init => HeldIsNewer
  BY DEF Init, NoLoop, HeldIsNewer
<1>2. ASSUME MonitorInv, MonitorInv', HeldIsNewer, [Next]_vars, ~ raced, ~ ResetStats
      PROVE  \A f \in Counted : stats_[f] <= stats_'[f]
  <2>0. stats_ \in [Counted -> 0 .. MaxCount]
    BY <1>2 DEF MonitorInv, TypeOK
  <2>1. CASE UpdateStore
    <3>1. /\ stats_' = [stats_ EXCEPT ![UpdateOrder[loop.at]] = loop.loaded]
          /\ loop.pc = "store"
      BY <1>2, <2>1 DEF UpdateStore
    <3>2. stats_[UpdateOrder[loop.at]] <= loop.loaded
      BY <1>2, <3>1 DEF HeldIsNewer
    <3>. QED  BY <2>0, <3>1, <3>2
  <2>2. CASE UNCHANGED stats_
    BY <2>0, <2>2
  <2>3. UpdateStore \/ UNCHANGED stats_
    BY <1>2 DEF Next, Count, monitor_loop, LoopExits, LoopUpdates, UpdateLoad, OwnerCalls,
           start, StartFails, stop, WaitBegins, WaitEnds, ResetManager, print_final_report, Destroy, Over, vars
  <2>. QED  BY <2>1, <2>2, <2>3
<1>3. MonitorInv /\ MonitorInv' /\ HeldIsNewer /\ [Next]_vars =>
        [~ raced /\ ~ ResetStats => \A f \in Counted : stats_[f] <= stats_'[f]]_vars
  BY <1>2
<1>. QED  BY <1>1, <1>3, HeldStep, MonitorInvHolds, PTL DEF Spec, FiguresOnlyGrow
=============================================================================
