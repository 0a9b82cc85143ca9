-------------------------- MODULE TupleWriteSerial --------------------------
(***************************************************************************)
(* TupleWrite with two history variables, to compare what the concurrent  *)
(* calls did with the atomic semantics of TupleStore: the table at the    *)
(* start, and the calls whose commit took effect.  A commit whose          *)
(* acknowledgement was lost returns an error but is as committed as one   *)
(* that returned nil; it is told apart from a failed commit by the         *)
(* changelog rows it appended (every change has one).                      *)
(***************************************************************************)
EXTENDS TupleWrite

VARIABLES
    tab0,       \* the tuple table in the initial state
    okCalls     \* <<call, request>> of every call that committed

Store == INSTANCE TupleStore

\* The table without ULIDs: key -> condition or NoRow.
Strip(tab) == [k \in Keys |-> IF tab[k] = NoRow THEN NoRow ELSE tab[k].cond]

HInit == Init /\ tab0 = Strip(tuples) /\ okCalls = {}

HNext ==
    /\ Next
    /\ tab0' = tab0
    /\ okCalls' = okCalls \cup {<<t, req[t]>> : t \in {u \in Calls :
                                  /\ pc[u] = "commit" /\ pc'[u] = "done"
                                  /\ result'[u] = "ok" \/ changelog' # changelog}}

HSpec == HInit /\ [][HNext]_<<vars, tab0, okCalls>>

\* Writers whose key sets overlap are serialized (spec section 5): whenever
\* no call is in flight, the committed table is what running the
\* committed calls one at a time, in some order, would give.
SerializableWrites ==
    (\A t \in Calls : pc[t] \in {"idle", "done"})
      => Store!Serializable(tab0, okCalls, Strip(tuples))

=============================================================================
