----------------------------- MODULE ModelCatalog -----------------------------
(***************************************************************************)
(* Authorization models and assertions (sqlserver.go 394-513, 680-741).   *)
(*                                                                         *)
(* WriteAuthorizationModel is one autocommitted INSERT, skipped for a     *)
(* model with no type definitions; models are never changed or removed.  *)
(* ReadAuthorizationModels pages model ids newest first: id <= From, ORDER *)
(* BY id DESC, TOP PageSize+1, token = the id last scanned; it then reads  *)
(* each model of the page.  WriteAssertions is one MERGE WITH (HOLDLOCK):  *)
(* the match on (store, model) and the INSERT or UPDATE it chooses are one *)
(* statement, but run as two steps; HOLDLOCK keeps a key-range lock on the *)
(* key from the match to the end of the statement, also when no row       *)
(* matched.  ReadAssertions is one SELECT of the row, an empty list when   *)
(* there is none.                                                          *)
(***************************************************************************)
EXTENDS Integers, Sequences, FiniteSets, SequencesExt

CONSTANTS
    Clients,    \* concurrent callers
    ModelIds,   \* authorization model ids (ULIDs), ordered
    Values,     \* marshalled assertion lists
    PageSize,   \* ReadAuthorizationModelsOptions.Pagination.PageSize
    NoValue,    \* no assertion row for a model
    NoClient,   \* no statement holds the key lock
    NoToken     \* the empty continuation token ""

ASSUME ModelIds \subseteq Nat /\ PageSize \in Nat \ {0}

VARIABLES
    models,     \* ids of the stored models
    assertion,  \* committed assertion row of each model, or NoValue
    keyLock,    \* lock a MERGE holds on an assertion key
    merge,      \* each client's WriteAssertions in flight
    result,     \* what each client's last WriteAuthorizationModel returned
    aresult,    \* what each client's last WriteAssertions returned
    mlist,      \* the ReadAuthorizationModels caller: "idle", "paging", "done"
    mtoken,     \* its Pagination.From
    mgot,       \* model ids it was given
    mdup,       \* some model was given twice
    mstart,     \* history: the models stored when the listing began
    aread       \* what the last ReadAssertions returned: assertions, "empty"

vars == <<models, assertion, keyLock, merge, result, aresult, mlist, mtoken, mgot, mdup,
          mstart, aread>>

NoMerge == [pc |-> "idle", model |-> NoValue, value |-> NoValue, matched |-> FALSE]

-----------------------------------------------------------------------------

\* The SELECT of ReadAuthorizationModels: ids <= From, newest first,
\* TOP PageSize+1.
ModelsQuery(ms, from) ==
    LET ids == {i \in ms : from = NoToken \/ i <= from}
        seq == SetToSortSeq(ids, >)
    IN  SubSeq(seq, 1, Min({Len(seq), PageSize + 1}))

\* Mutant: the token is the last id returned.
ModelsPageLastReturned(rows) ==
    IF Len(rows) > PageSize
      THEN [page |-> SubSeq(rows, 1, PageSize), token |-> rows[PageSize]]
      ELSE [page |-> rows, token |-> NoToken]

\* numModelIDs and token: PageSize ids and the id last scanned, when the
\* extra row came back.
ModelsPage(rows) ==
    IF Len(rows) > PageSize
      THEN [page |-> SubSeq(rows, 1, PageSize), token |-> rows[Len(rows)]]
      ELSE [page |-> rows, token |-> NoToken]

Init ==
    /\ models \in SUBSET ModelIds
    /\ assertion \in [ModelIds -> Values \cup {NoValue}]
    /\ keyLock = [m \in ModelIds |-> NoClient]
    /\ merge = [c \in Clients |-> NoMerge]
    /\ result = [c \in Clients |-> "none"]
    /\ aresult = [c \in Clients |-> "none"]
    /\ mlist = "idle"
    /\ mtoken = NoToken
    /\ mgot = {}
    /\ mdup = FALSE
    /\ mstart = {}
    /\ aread = "empty"

\* WriteAuthorizationModel: nil at once without type definitions, else the
\* INSERT, whose duplicate id HandleSQLError turns into ErrCollision.
WriteAuthorizationModel(c, id, hasTypes) ==
    /\ CASE ~hasTypes      -> result' = [result EXCEPT ![c] = "ok"] /\ UNCHANGED models
         [] id \in models  -> result' = [result EXCEPT ![c] = "Collision"] /\ UNCHANGED models
         [] OTHER          -> result' = [result EXCEPT ![c] = "ok"] /\ models' = models \cup {id}
    /\ UNCHANGED <<assertion, keyLock, merge, aresult, mlist, mtoken, mgot, mdup, mstart,
                   aread>>

\* Mutant: MERGE without HOLDLOCK; only a matched row is locked.
MergeMatchNoHoldlock(c, m, v) ==
    /\ merge[c].pc = "idle"
    /\ keyLock[m] = NoClient
    /\ keyLock' = IF assertion[m] # NoValue THEN [keyLock EXCEPT ![m] = c] ELSE keyLock
    /\ merge' = [merge EXCEPT ![c] = [pc |-> "apply", model |-> m, value |-> v,
                                      matched |-> assertion[m] # NoValue]]
    /\ UNCHANGED <<models, assertion, result, aresult, mlist, mtoken, mgot, mdup, mstart,
                   aread>>

\* WriteAssertions, the MERGE's join of source and target: it waits for
\* another MERGE's lock on the key, then holds the key (HOLDLOCK).
MergeMatch(c, m, v) ==
    /\ merge[c].pc = "idle"
    /\ keyLock[m] = NoClient
    /\ keyLock' = [keyLock EXCEPT ![m] = c]
    /\ merge' = [merge EXCEPT ![c] = [pc |-> "apply", model |-> m, value |-> v,
                                      matched |-> assertion[m] # NoValue]]
    /\ UNCHANGED <<models, assertion, result, aresult, mlist, mtoken, mgot, mdup, mstart,
                   aread>>

\* Mutant: the statement ends without releasing the key lock.
MergeApplyKeepLock(c) ==
    LET m == merge[c].model IN
    /\ merge[c].pc = "apply"
    /\ IF ~merge[c].matched /\ assertion[m] # NoValue
         THEN /\ aresult' = [aresult EXCEPT ![c] = "Collision"]
              /\ UNCHANGED assertion
         ELSE /\ assertion' = [assertion EXCEPT ![m] = merge[c].value]
              /\ aresult' = [aresult EXCEPT ![c] = "ok"]
    /\ merge' = [merge EXCEPT ![c] = NoMerge]
    /\ UNCHANGED <<models, keyLock, result, mlist, mtoken, mgot, mdup, mstart, aread>>

\* WHEN MATCHED UPDATE / WHEN NOT MATCHED INSERT; an INSERT of a key that
\* has a row is a primary-key violation (2627), returned as ErrCollision.
MergeApply(c) ==
    LET m == merge[c].model IN
    /\ merge[c].pc = "apply"
    /\ IF ~merge[c].matched /\ assertion[m] # NoValue
         THEN /\ aresult' = [aresult EXCEPT ![c] = "Collision"]
              /\ UNCHANGED assertion
         ELSE /\ assertion' = [assertion EXCEPT ![m] = merge[c].value]
              /\ aresult' = [aresult EXCEPT ![c] = "ok"]
    /\ keyLock' = [k \in ModelIds |-> IF keyLock[k] = c THEN NoClient ELSE keyLock[k]]
    /\ merge' = [merge EXCEPT ![c] = NoMerge]
    /\ UNCHANGED <<models, result, mlist, mtoken, mgot, mdup, mstart, aread>>

\* ReadAssertions: the row of the model, or an empty list on ErrNoRows.
ReadAssertions(m) ==
    /\ aread' = IF assertion[m] = NoValue THEN "empty" ELSE assertion[m]
    /\ UNCHANGED <<models, assertion, keyLock, merge, result, aresult, mlist, mtoken, mgot,
                   mdup, mstart>>

StartModelList ==
    /\ mlist = "idle"
    /\ mlist' = "paging"
    /\ mstart' = models
    /\ UNCHANGED <<models, assertion, keyLock, merge, result, aresult, mtoken, mgot, mdup,
                   aread>>

\* ReadAuthorizationModels with the previous token; ReadAuthorizationModel
\* of each id of the page finds it, as models are never removed.
ReadAuthorizationModels ==
    LET res == ModelsPage(ModelsQuery(models, mtoken)) IN
    /\ mlist = "paging"
    /\ mgot' = mgot \cup ToSet(res.page)
    /\ mdup' = (mdup \/ mgot \cap ToSet(res.page) # {})
    /\ mtoken' = res.token
    /\ mlist' = IF res.token = NoToken THEN "done" ELSE "paging"
    /\ UNCHANGED <<models, assertion, keyLock, merge, result, aresult, mstart,
                   aread>>

Next ==
    \/ \E c \in Clients, id \in ModelIds, t \in BOOLEAN :
         WriteAuthorizationModel(c, id, t)
    \/ \E c \in Clients, m \in ModelIds, v \in Values : MergeMatch(c, m, v)
    \/ \E c \in Clients : MergeApply(c)
    \/ \E m \in ModelIds : ReadAssertions(m)
    \/ StartModelList \/ ReadAuthorizationModels

-----------------------------------------------------------------------------
(* Properties *)

ModelTypeOK ==
    /\ models \subseteq ModelIds
    /\ assertion \in [ModelIds -> Values \cup {NoValue}]
    /\ keyLock \in [ModelIds -> Clients \cup {NoClient}]
    /\ result \in [Clients -> {"none", "ok", "Collision"}]
    /\ aresult \in [Clients -> {"none", "ok", "Collision"}]
    /\ mtoken \in ModelIds \cup {NoToken}
    /\ aread \in Values \cup {"empty"}
    \* a key lock belongs to a MERGE in flight on that key
    /\ \A m \in ModelIds : keyLock[m] # NoClient =>
           merge[keyLock[m]].pc = "apply" /\ merge[keyLock[m]].model = m

\* Concurrent WriteAssertions for one model never fail: HOLDLOCK keeps the
\* key locked between the MERGE's match and its INSERT, so a second MERGE
\* matches the first one's row and updates it.
AssertionsNeverCollide == \A c \in Clients : aresult[c] # "Collision"

\* ReadAuthorizationModels never gives a model twice to a caller that passes
\* its tokens back, and a finished listing gave every model stored when it
\* began, while new models were written between its pages.
ModelListComplete == ~mdup /\ (mlist = "done" => mstart \subseteq mgot)

=============================================================================
