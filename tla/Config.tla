------------------------------- MODULE Config -------------------------------
(***************************************************************************)
(* SystemConfig (include/config.h, src/config.cpp): the part of the JSON   *)
(* configuration the threads depend on.  It is read once, before the first *)
(* thread starts, and never changes.                                       *)
(***************************************************************************)
EXTENDS Integers, Sequences, FiniteSetsExt

CONSTANT
  root   \* the parsed JSON document: a record of the fields read below

\* The rules and the configuration as the program holds them.  Whether a rule
\* requires ordering, the rate and the processing times are left out: no
\* thread's behaviour depends on them but in its timing.
Stage1Rule == [msg_type : 0 .. 255, processors : Seq(Nat)]
Stage2Rule == [msg_type : 0 .. 255, strategy : Nat]
SystemConfig ==
  [ duration_secs    : Int,
    producers_count  : Int,
    distribution     : [0 .. 3 -> Nat],
    processors_count : Int,
    strategies_count : Int,
    stage1_rules     : Seq(Stage1Rule),
    stage2_rules     : Seq(Stage2Rule) ]

\* A rule's type is stored in a uint8_t, so it is taken modulo 256; processor
\* and strategy numbers keep their width.  A list that is not there reads as
\* an empty one.
LoadRules(member) ==
  IF member \in DOMAIN root
    THEN [i \in DOMAIN root[member] |-> [root[member][i] EXCEPT !.msg_type = @ % 256]]
    ELSE <<>>

\* load_from_file()
config ==
  [ duration_secs    |-> root.duration_secs,
    producers_count  |-> root.producers_count,
    distribution     |-> root.distribution,
    processors_count |-> root.processors_count,
    strategies_count |-> root.strategies_count,
    stage1_rules     |-> LoadRules("stage1_rules"),
    stage2_rules     |-> LoadRules("stage2_rules") ]

ASSUME ConfigAssumption == config \in SystemConfig

\* main() returns 1 unless this holds.  The rules are not looked at.
validate ==
  /\ config.producers_count > 0
  /\ config.processors_count > 0
  /\ config.strategies_count > 0
  /\ config.duration_secs > 0

Producers  == 0 .. config.producers_count - 1
Processors == 0 .. config.processors_count - 1
Strategies == 0 .. config.strategies_count - 1

\* A mistake: the last rule for the type wins.
processor_of_last_rule(msg_type) ==
  LET rules == config.stage1_rules
      found == {i \in DOMAIN rules : /\ rules[i].msg_type = msg_type
                                     /\ rules[i].processors # <<>>}
  IN  IF found = {} THEN 0 ELSE Head(rules[Max(found)].processors)

\* The first processor of the first rule for the type that names one; 0 when
\* there is none.
get_processor_for_message(msg_type) ==
  LET rules == config.stage1_rules
      found == {i \in DOMAIN rules : /\ rules[i].msg_type = msg_type
                                     /\ rules[i].processors # <<>>}
  IN  IF found = {} THEN 0 ELSE Head(rules[Min(found)].processors)

\* The strategy of the first rule for the type; 0 when there is none.
get_strategy_for_message(msg_type) ==
  LET rules == config.stage2_rules
      found == {i \in DOMAIN rules : rules[i].msg_type = msg_type}
  IN  IF found = {} THEN 0 ELSE rules[Min(found)].strategy
=============================================================================
