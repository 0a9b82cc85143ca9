---------------------------- MODULE MCTupleWrite ----------------------------
(* TupleWrite instantiated for TLC: two concurrent Write calls over two    *)
(* tuple keys and two condition payloads.                                  *)
EXTENDS TupleWrite

CONSTANTS c1, c2, p, q

MCCalls == {c1, c2}
MCConds == {p, q}
MCOneCond == {p}
MCKeys == 1..2

\* Calls and condition payloads are only compared for equality.
Symmetry == Permutations(MCCalls) \cup Permutations(MCConds)
=============================================================================
