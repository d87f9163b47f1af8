--------------------------- MODULE OrderedStreams ---------------------------
(***************************************************************************)
(* What the pipeline promises to its users, without threads, queues or     *)
(* rules: the messages of one producer and one type form a stream; each    *)
(* stream reaches at most one consumer; messages may be lost on the way,   *)
(* but those that arrive were sent, and arrive in order and once.          *)
(***************************************************************************)
EXTENDS Integers, Sequences

CONSTANTS
  Producers, MsgTypes, Consumers,
  MaxMessages   \* bound: the largest number a producer gives

VARIABLES
  sent,   \* the messages sent so far
  got     \* got[c]: what consumer c has been given, in order
streamVars == <<sent, got>>

Item == [producer_id : Producers, msg_type : MsgTypes, sequence_number : 1 .. MaxMessages]

SameStream(a, b) == a.producer_id = b.producer_id /\ a.msg_type = b.msg_type

StreamsInit ==
  /\ sent = {}
  /\ got = [c \in Consumers |-> <<>>]

\* A producer numbers its messages upwards, whatever their type.
Send(m) ==
  /\ \A x \in sent : x.producer_id = m.producer_id => x.sequence_number < m.sequence_number
  /\ sent' = sent \union {m}
  /\ UNCHANGED got

Deliver(c, m) ==
  /\ \A d \in Consumers : \A k \in DOMAIN got[d] :
       SameStream(got[d][k], m) => d = c /\ got[d][k].sequence_number < m.sequence_number
  /\ got' = [got EXCEPT ![c] = Append(@, m)]
  /\ UNCHANGED sent

StreamsNext ==
  \/ \E m \in Item : Send(m)
  \/ \E c \in Consumers : \E m \in sent : Deliver(c, m)

StreamsSpec == StreamsInit /\ [][StreamsNext]_streamVars
=============================================================================
