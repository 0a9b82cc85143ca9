------------------------- MODULE MCChangelogReader -------------------------
(* A consumer polling ReadChanges one change at a time while two Write    *)
(* calls of one operation commit over two keys and the clock ticks once.   *)
EXTENDS ChangelogReader

CONSTANTS c1, c2, p

MCCalls == {c1, c2}
MCConds == {p}
MCKeys == 1..2

\* Key 1 is a tuple of a doc, key 2 of a folder.
MCObjectTypeOf == <<"doc", "folder">>
MCObjectTypeFilters == {"", "doc"}

Symmetry == Permutations(MCCalls)
=============================================================================
