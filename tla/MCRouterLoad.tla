---------------------------- MODULE MCRouterLoad ----------------------------
(***************************************************************************)
(* Three producers and one processor.                                      *)
(***************************************************************************)
EXTENDS RouterLoad, TLC

ThreeProducers ==
  [ duration_secs |-> 1,
    distribution |-> (0 :> 25 @@ 1 :> 25 @@ 2 :> 25 @@ 3 :> 25),
    producers_count |-> 3, processors_count |-> 1, strategies_count |-> 1,
    stage1_rules |-> <<[msg_type |-> 1, processors |-> <<7>>]>>,
    stage2_rules |-> <<>> ]
=============================================================================
