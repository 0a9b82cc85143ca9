------------------------- MODULE MCTupleWriteSerial -------------------------
(* TupleWriteSerial for TLC: two calls, two keys, one condition payload.   *)
EXTENDS TupleWriteSerial

CONSTANTS c1, c2, p

MCCalls == {c1, c2}
MCConds == {p}
MCKeys == 1..2
=============================================================================
