---------------------------- MODULE MCStoreCatalog ----------------------------
(* Two callers creating and deleting stores between two ids, and one      *)
(* ListStores listing one store per page.                                  *)
EXTENDS StoreCatalog, TLC

CONSTANTS a1, a2, n1, n2

MCClients == {a1, a2}
MCIds == 1..2
MCNames == {n1, n2}

\* Callers and names are only compared for equality.
Symmetry == Permutations(MCClients) \cup Permutations(MCNames)
=============================================================================
