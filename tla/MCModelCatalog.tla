--------------------------- MODULE MCModelCatalog ---------------------------
EXTENDS ModelCatalog, TLC

CONSTANTS a1, a2, v1, v2

MCClients == {a1, a2}
MCModelIds == 1..2
MCValues == {v1, v2}

Symmetry == Permutations(MCClients) \cup Permutations(MCValues)
=============================================================================
