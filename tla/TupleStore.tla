----------------------------- MODULE TupleStore -----------------------------
(***************************************************************************)
(* What a Write call promises (storage.RelationshipTupleWriter, spec 4.3): *)
(* applied atomically to the tuple table, a call either fails and changes *)
(* nothing, or removes each of its deletes and adds each of its writes,    *)
(* under its OnMissingDelete / OnDuplicateInsert policies.                 *)
(*                                                                         *)
(* A table maps each key to the condition of its tuple or to NoRow; the   *)
(* request shape is the one of TupleWrite.                                 *)
(***************************************************************************)
EXTENDS Integers, Sequences, FiniteSets, SequencesExt

CONSTANTS Keys, Conds, NoRow

Table == [Keys -> Conds \cup {NoRow}]

\* The error the call must report on table tab, or "none".
WriteError(tab, r) ==
    LET missing == {i \in DOMAIN r.deletes : tab[r.deletes[i]] = NoRow}
        dups    == {i \in DOMAIN r.writes : tab[r.writes[i].key] # NoRow}
    IN  IF missing # {} /\ r.onMissingDelete = "error"
          THEN "InvalidWriteInputDelete"
        ELSE IF dups # {} /\ r.onDuplicateInsert = "error"
          THEN "InvalidWriteInputWrite"
        ELSE IF \E i \in dups : tab[r.writes[i].key] # r.writes[i].cond
          THEN "ConditionConflict"
        ELSE "none"

\* The table after a successful call.
Apply(tab, r) ==
    [k \in Keys |->
        IF \E i \in DOMAIN r.writes : r.writes[i].key = k
          THEN (CHOOSE w \in ToSet(r.writes) : w.key = k).cond
        ELSE IF k \in ToSet(r.deletes) THEN NoRow
        ELSE tab[k]]

\* Running the calls of s one after another from tab: whether all of them
\* succeed, and the table they leave.
RECURSIVE SerialRun(_, _)
SerialRun(tab, s) ==
    IF s = <<>> THEN [ok |-> TRUE, tab |-> tab]
    ELSE IF WriteError(tab, Head(s)) # "none"
           THEN [ok |-> FALSE, tab |-> tab]
         ELSE SerialRun(Apply(tab, Head(s)), Tail(s))

\* Some order of the successful calls H (a set of <<call, request>>), run
\* one at a time from tab0, lets all of them succeed and ends in tab.
Serializable(tab0, H, tab) ==
    \E s \in {s \in [1..Cardinality(H) -> H] : IsInjective(s)} :
        SerialRun(tab0, [i \in DOMAIN s |-> s[i][2]]) = [ok |-> TRUE, tab |-> tab]

=============================================================================
