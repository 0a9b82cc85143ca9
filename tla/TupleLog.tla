------------------------------ MODULE TupleLog ------------------------------
(***************************************************************************)
(* What the tuple write path promises the two tables it shares with the   *)
(* readers (spec 4.4, 4.5, 6): the tuple table and the append-only        *)
(* changelog change only together, when a call commits.  A commit          *)
(*   - removes rows that exist and adds rows for keys that have none,      *)
(*   - appends one DELETE row per removed tuple and one WRITE row per      *)
(*     added tuple, the WRITE row carrying the tuple's condition and ULID, *)
(*   - gives every added tuple a ULID no earlier WRITE row carries.        *)
(* Failed calls change nothing (they are stuttering steps here).          *)
(*                                                                         *)
(* A changelog row is [key, op, row]: `row` is the written tuple for a     *)
(* WRITE and NoRow for a DELETE (its condition is redacted).               *)
(***************************************************************************)
EXTENDS Integers, Sequences, FiniteSets, SequencesExt

CONSTANTS Keys, Conds, Ulids, NoRow

VARIABLES tuples, changelog

Row == [cond : Conds, ulid : Ulids]

Present == {k \in Keys : tuples[k] # NoRow}

WriteEntry(k, row) == [key |-> k, op |-> "WRITE", row |-> row]
DeleteEntry(k) == [key |-> k, op |-> "DELETE", row |-> NoRow]

\* The ways to list the elements of a finite set S once each.
Orderings(S) == {s \in [1..Cardinality(S) -> S] : IsInjective(s)}

\* ULIDs of tuples ever written.
WrittenUlids ==
    {changelog[i].row.ulid : i \in {j \in DOMAIN changelog : changelog[j].op = "WRITE"}}

Init ==
    /\ tuples \in [Keys -> Row \cup {NoRow}]
    /\ \E s \in Orderings(Present) :
         changelog = [i \in DOMAIN s |-> WriteEntry(s[i], tuples[s[i]])]

\* A call commits: it deletes the keys D, which have rows, and writes the
\* rows W to keys that have none.
CommitTxn(D, W) ==
    /\ D \subseteq Present
    /\ DOMAIN W \cap Present = {}
    /\ \A k \in DOMAIN W : W[k] \in Row /\ W[k].ulid \notin WrittenUlids
    /\ \A j, k \in DOMAIN W : j # k => W[j].ulid # W[k].ulid
    /\ tuples' = [k \in Keys |-> IF k \in DOMAIN W THEN W[k]
                                 ELSE IF k \in D THEN NoRow ELSE tuples[k]]
    /\ \E ds \in Orderings(D), ws \in Orderings(DOMAIN W) :
         changelog' = changelog \o [i \in DOMAIN ds |-> DeleteEntry(ds[i])]
                                \o [i \in DOMAIN ws |-> WriteEntry(ws[i], W[ws[i]])]

\* The rows written are the ones the table holds afterwards.
Next == \E D, S \in SUBSET Keys : CommitTxn(D, [k \in S |-> tuples'[k]])

Spec == Init /\ [][Next]_<<tuples, changelog>>

=============================================================================
