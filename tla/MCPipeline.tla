----------------------------- MODULE MCPipeline -----------------------------
(***************************************************************************)
(* Small configurations of the pipeline.                                   *)
(***************************************************************************)
EXTENDS Pipeline, TLC

Rule1(type, processors) == [msg_type |-> type, processors |-> processors]
Rule2(type, strat) == [msg_type |-> type, strategy |-> strat]

\* Two producers; types 0 and 1 part at stage 1 and meet again at stage 2.
TwoWays ==
  [ duration_secs |-> 1,
    distribution |-> (0 :> 25 @@ 1 :> 25 @@ 2 :> 25 @@ 3 :> 25),
    producers_count |-> 2, processors_count |-> 2, strategies_count |-> 1,
    stage1_rules |-> <<Rule1(0, <<0>>), Rule1(1, <<1>>)>>,
    stage2_rules |-> <<Rule2(0, 0), Rule2(1, 0)>> ]

\* One producer whose types part and meet again.
OneProducer == [TwoWays EXCEPT !.producers_count = 1]

\* One processor behind two producers.
OneProcessor == [TwoWays EXCEPT !.processors_count = 1,
                                !.stage1_rules = <<Rule1(0, <<0>>)>>]

\* One thread per stage.
Single == [OneProcessor EXCEPT !.producers_count = 1]

\* Rules that no shipped configuration has: a rule without processors before
\* one with, a type that does not fit in eight bits, two rules for one type,
\* a type without rule, and queues that do not exist.
OddRules ==
  [ OneProducer EXCEPT
    !.strategies_count = 2,
    !.stage1_rules = <<Rule1(0, <<>>), Rule1(0, <<1, 0>>), Rule1(257, <<1>>),
                       Rule1(1, <<0>>), Rule1(3, <<2>>)>>,
    !.stage2_rules = <<Rule2(0, 1), Rule2(257, 1), Rule2(1, 0), Rule2(2, 2)>> ]

\* With OddRules and room in every queue: types 0 and 1 go by processor 1 to
\* strategy 1; type 2 gets as far as stage 2 and type 3 as far as stage 1,
\* where they are counted as errors.
OddRoutes ==
  /\ \A s \in Strategies : \A k \in DOMAIN Logs[s] :
       LET m == Logs[s][k]
       IN  <<m.msg_type, m.processor_id, s>> \in {<<0, 1, 1>>, <<1, 1, 1>>}
  /\ \A l \in lost : <<l.message.msg_type, l.at>> \in {<<2, "stage2">>, <<3, "stage1">>}
  /\ routing_errors = Cardinality(lost)
=============================================================================
