---------------------------- MODULE MCSpscQueue ----------------------------
(***************************************************************************)
(* SpscQueue on a small ring.  The assumption checks, for the ring sizes   *)
(* in use, that the code's bit mask is the remainder Masked takes.         *)
(***************************************************************************)
EXTENDS SpscQueue

LOCAL INSTANCE Bitwise

ASSUME MaskIsRemainder ==
  /\ \E k \in 0 .. 10 : Size = 2 ^ k
  /\ \A n \in 0 .. 2 * Size : (n & (Size - 1)) = Masked(n)
=============================================================================
