-------------------------- MODULE MCOrderingBuffer --------------------------
(***************************************************************************)
(* OrderingBuffer with one producer's messages of two types.               *)
(***************************************************************************)
EXTENDS OrderingBuffer

TwoKeys == {0} \X {0, 1}
=============================================================================
