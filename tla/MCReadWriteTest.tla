-------------------------- MODULE MCReadWriteTest --------------------------
(* ReadWriteTest with two items on two rows, the larger one first, 3 slots   *)
(* and 3 thread ids: enough for a stale id to name a slot's own old thread,  *)
(* a thread of another slot of the same round, or none, and for a round to   *)
(* leave slots of the round before it alone.                                 *)
EXTENDS ReadWriteTest

MCslice_num == [row \in 0..1 |-> IF row = 0 THEN 3 ELSE 1]

CONSTANTS t1, t2, t3
MCTid == {t1, t2, t3}
=============================================================================
