---------------------------- MODULE MCTuplePager ----------------------------
(* A scan of three tuples, one row per page, by a caller racing two Write  *)
(* calls of one operation each.  Key order is the composite key order:     *)
(* doc:1 < doc:2, and "g" < "u" < "x" < "_"-free names.                    *)
EXTENDS TuplePager, TLC

CONSTANTS c1, c2, p

MCCalls == {c1, c2}
MCConds == {p}
MCKeys == 1..3

\* A user type:id#rel, or type:id when rel is empty.
U(t, i, r) == [type |-> t, id |-> i, rel |-> r, wild |-> FALSE]
Tup(ot, oi, u) == [objectType |-> ot, objectID |-> oi, relation |-> "viewer", user |-> u]

\* doc:1#viewer@g:1#m, doc:1#viewer@u:1, doc:2#viewer@u:1
MCTupleOf == <<Tup("doc", "1", U(<<"g">>, <<"1">>, <<"m">>)),
               Tup("doc", "1", U(<<"u">>, <<"1">>, <<>>)),
               Tup("doc", "2", U(<<"u">>, <<"1">>, <<>>))>>

\* Type and relation names with "_": doc:1#viewer@g_:1#m, doc:1#viewer@gx:1#m,
\* doc:2#viewer@u:1 ("_" sorts before "x").
MCTupleOfUnderscore ==
    <<Tup("doc", "1", U(<<"g", "_">>, <<"1">>, <<"m">>)),
      Tup("doc", "1", U(<<"g", "x">>, <<"1">>, <<"m">>)),
      Tup("doc", "2", U(<<"u">>, <<"1">>, <<>>))>>

\* ReadPage filters: object type "doc", and user "u:1".
MCFilters ==
    {[objectType |-> "doc", objectID |-> "", relation |-> "", user |-> <<>>],
     [objectType |-> "", objectID |-> "", relation |-> "", user |-> <<"u", ":", "1">>]}

Restriction(t, k, r) == [type |-> t, kind |-> k, rel |-> r]
UsersetFilter(allowed) ==
    [objectType |-> "doc", objectID |-> "1", relation |-> "viewer", allowed |-> allowed]

MCUsersetFilters ==
    {UsersetFilter({}),
     UsersetFilter({Restriction(<<"g">>, "relation", <<"m">>)}),
     UsersetFilter({Restriction(<<"u">>, "wildcard", <<>>),
                    Restriction(<<"g">>, "direct", <<>>)})}

MCUsersetFiltersUnderscore ==
    {UsersetFilter({Restriction(<<"g", "_">>, "relation", <<"m">>)})}

MCStartingWithFilters ==
    {[objectType |-> "doc", relation |-> "viewer",
      users |-> {U(<<"g">>, <<"1">>, <<"m">>)}, objectIDs |-> {}],
     [objectType |-> "doc", relation |-> "viewer",
      users |-> {U(<<"u">>, <<"1">>, <<>>)}, objectIDs |-> {"2"}]}

Symmetry == Permutations(MCCalls)
=============================================================================
