----------------------------- MODULE StoreCatalog -----------------------------
(***************************************************************************)
(* The store table (sqlserver.go 515-678): CreateStore, GetStore,         *)
(* ListStores and DeleteStore, called concurrently.                        *)
(*                                                                         *)
(* CreateStore INSERTs the row in a txn, SELECTs it back and commits; the  *)
(* uncommitted row holds an X lock on its id, so another INSERT, UPDATE or *)
(* locking SELECT of that id waits, and an INSERT of an id that has a row  *)
(* (deleted or not) is a primary-key violation, ErrCollision.  DeleteStore *)
(* is one autocommitted UPDATE setting deleted_at.  ListStores pages the   *)
(* live stores by id: id >= From, TOP PageSize+1, token = id of the last   *)
(* row scanned.                                                            *)
(***************************************************************************)
EXTENDS Integers, Sequences, FiniteSets, SequencesExt

CONSTANTS
    Clients,    \* concurrent callers of CreateStore / DeleteStore
    Ids,        \* store ids, ordered as SQL Server orders the id column
    Names,      \* store names
    PageSize,   \* ListStoresOptions.Pagination.PageSize
    NoStore,    \* no row for an id
    NoClient,   \* no txn holds the row lock
    NoToken     \* the empty continuation token ""

ASSUME Ids \subseteq Nat /\ PageSize \in Nat \ {0}

VARIABLES
    store,      \* committed store table: id -> [name, deleted] or NoStore
    lock,       \* X lock of an uncommitted INSERT on an id
    op,         \* each client's call: its phase, id and name
    result,     \* what each client's call returned
    created,    \* history: <<client, id, name>> of each CreateStore that returned ok
    list,       \* the ListStores caller: "idle", "paging" or "done"
    ltoken,     \* its Pagination.From
    lgot,       \* ids it was given
    ldup,       \* some id was given twice
    lstable     \* history: ids live since the listing began

vars == <<store, lock, op, result, created, list, ltoken, lgot, ldup, lstable>>

Stores == [name : Names, deleted : BOOLEAN]
Idle == [pc |-> "idle", id |-> NoStore, name |-> NoStore]

Live(tab) == {i \in Ids : tab[i] # NoStore /\ ~tab[i].deleted}

-----------------------------------------------------------------------------

\* GetStore: the row WHERE id AND deleted_at IS NULL, or ErrNotFound (NoStore).
GetStore(tab, id) == IF id \in Live(tab) THEN tab[id] ELSE NoStore

\* The SELECT of ListStores: live ids >= From, ORDER BY id, TOP PageSize+1.
ListQuery(tab, from) ==
    LET ids == {i \in Live(tab) : from = NoToken \/ i >= from}
        seq == SetToSortSeq(ids, <)
    IN  SubSeq(seq, 1, Min({Len(seq), PageSize + 1}))

\* Mutant: the token is the id of the last store returned.
ListStoresLastReturned(rows) ==
    IF Len(rows) > PageSize
      THEN [page |-> SubSeq(rows, 1, PageSize), token |-> rows[PageSize]]
      ELSE [page |-> rows, token |-> NoToken]

\* ListStores after the scan: PageSize stores and the id last scanned.
ListStoresPage(rows) ==
    IF Len(rows) > PageSize
      THEN [page |-> SubSeq(rows, 1, PageSize), token |-> rows[Len(rows)]]
      ELSE [page |-> rows, token |-> NoToken]

Init ==
    /\ store \in [Ids -> Stores \cup {NoStore}]
    /\ lock = [i \in Ids |-> NoClient]
    /\ op = [c \in Clients |-> Idle]
    /\ result = [c \in Clients |-> "none"]
    /\ created = {}
    /\ list = "idle"
    /\ ltoken = NoToken
    /\ lgot = {}
    /\ ldup = FALSE
    /\ lstable = {}

\* Ids live before and after a step stay in the listing's stable set.
KeepStable == lstable' = lstable \cap Live(store')

\* CreateStore is called: BeginTx.
CreateStore(c, id, name) ==
    /\ op[c].pc = "idle"
    /\ op' = [op EXCEPT ![c] = [pc |-> "insert", id |-> id, name |-> name]]
    /\ UNCHANGED <<store, lock, result, created, list, ltoken, lgot, ldup, lstable>>

\* Mutant: the INSERT's error is dropped and the SELECT reads the row that
\* is there.
CreateStoreInsertErrorDropped(c) ==
    LET id == op[c].id IN
    /\ op[c].pc = "insert"
    /\ lock[id] = NoClient
    /\ IF store[id] # NoStore
         THEN /\ op' = [op EXCEPT ![c].pc = "select"]
              /\ UNCHANGED lock
         ELSE /\ lock' = [lock EXCEPT ![id] = c]
              /\ op' = [op EXCEPT ![c].pc = "select"]
    /\ UNCHANGED <<store, result, created, list, ltoken, lgot, ldup, lstable>>

\* INSERT INTO store: waits for another txn's uncommitted row with the same
\* id; a committed row with that id is ErrCollision and the txn rolls back.
CreateStoreInsert(c) ==
    LET id == op[c].id IN
    /\ op[c].pc = "insert"
    /\ lock[id] = NoClient
    /\ IF store[id] # NoStore
         THEN /\ op' = [op EXCEPT ![c] = Idle]
              /\ result' = [result EXCEPT ![c] = "Collision"]
              /\ UNCHANGED lock
         ELSE /\ lock' = [lock EXCEPT ![id] = c]
              /\ op' = [op EXCEPT ![c].pc = "select"]
              /\ UNCHANGED result
    /\ UNCHANGED <<store, created, list, ltoken, lgot, ldup, lstable>>

\* SELECT the row back in the txn, then txn.Commit; the caller is given
\* the row it read.
CreateStoreCommit(c) ==
    LET id  == op[c].id
        row == IF lock[id] = c THEN [name |-> op[c].name, deleted |-> FALSE]
                               ELSE store[id]
    IN
    /\ op[c].pc = "select"
    /\ store' = [store EXCEPT ![id] = row]
    /\ lock' = [i \in Ids |-> IF lock[i] = c THEN NoClient ELSE lock[i]]
    /\ op' = [op EXCEPT ![c] = Idle]
    /\ result' = [result EXCEPT ![c] = "ok"]
    /\ created' = created \cup {<<c, id, row.name>>}
    /\ KeepStable
    /\ UNCHANGED <<list, ltoken, lgot, ldup>>

\* Mutant: the error return skips the deferred Rollback; the txn stays
\* open with its row lock.
CreateStoreFailsNoRollback(c) ==
    /\ op[c].pc \in {"insert", "select"}
    /\ op' = [op EXCEPT ![c] = Idle]
    /\ result' = [result EXCEPT ![c] = "SqlError"]
    /\ UNCHANGED <<store, lock, created, list, ltoken, lgot, ldup, lstable>>

\* A statement or the commit of CreateStore fails: Rollback.
CreateStoreFails(c) ==
    /\ op[c].pc \in {"insert", "select"}
    /\ lock' = [i \in Ids |-> IF lock[i] = c THEN NoClient ELSE lock[i]]
    /\ op' = [op EXCEPT ![c] = Idle]
    /\ result' = [result EXCEPT ![c] = "SqlError"]
    /\ UNCHANGED <<store, created, list, ltoken, lgot, ldup, lstable>>

\* DeleteStore: UPDATE store SET deleted_at WHERE id, autocommitted; it
\* waits for an uncommitted INSERT of the id and succeeds with no row.
DeleteStore(c, id) ==
    /\ op[c].pc = "idle"
    /\ lock[id] = NoClient
    /\ store' = [store EXCEPT ![id] = IF @ = NoStore THEN @ ELSE [@ EXCEPT !.deleted = TRUE]]
    /\ result' = [result EXCEPT ![c] = "ok"]
    /\ KeepStable
    /\ UNCHANGED <<lock, op, created, list, ltoken, lgot, ldup>>

StartList ==
    /\ list = "idle"
    /\ list' = "paging"
    /\ lstable' = Live(store)
    /\ UNCHANGED <<store, lock, op, result, created, ltoken, lgot, ldup>>

\* One ListStores call with the token of the previous one.
ListStores ==
    LET res == ListStoresPage(ListQuery(store, ltoken)) IN
    /\ list = "paging"
    /\ lgot' = lgot \cup ToSet(res.page)
    /\ ldup' = (ldup \/ lgot \cap ToSet(res.page) # {})
    /\ ltoken' = res.token
    /\ list' = IF res.token = NoToken THEN "done" ELSE "paging"
    /\ UNCHANGED <<store, lock, op, result, created, lstable>>

Next ==
    \/ \E c \in Clients, id \in Ids, n \in Names : CreateStore(c, id, n)
    \/ \E c \in Clients : CreateStoreInsert(c) \/ CreateStoreCommit(c)
                          \/ CreateStoreFails(c)
    \/ \E c \in Clients, id \in Ids : DeleteStore(c, id)
    \/ StartList \/ ListStores

-----------------------------------------------------------------------------
(* Properties *)

StoreTypeOK ==
    /\ store \in [Ids -> Stores \cup {NoStore}]
    /\ lock \in [Ids -> Clients \cup {NoClient}]
    /\ result \in [Clients -> {"none", "ok", "Collision", "SqlError"}]
    /\ ltoken \in Ids \cup {NoToken}
    \* a row lock belongs to an open CreateStore txn for that id
    /\ \A i \in Ids : lock[i] # NoClient =>
           op[lock[i]].pc = "select" /\ op[lock[i]].id = i

\* CreateStore hands an id to one caller only: of two concurrent calls for
\* one id, the second INSERT waits for the first txn and then collides;
\* and GetStore of a created id returns the name its creator gave, until
\* DeleteStore hides it.
StoreCreatedOnce ==
    /\ \A x, y \in created : x[2] = y[2] => x = y
    /\ \A x \in created :
         GetStore(store, x[2]) \in {NoStore, [name |-> x[3], deleted |-> FALSE]}

\* A finished ListStores listing gave no store twice and gave every store
\* that stayed live for the whole listing, however creates and deletes
\* fell between its pages.
ListStoresComplete ==
    list = "done" => ~ldup /\ lstable \subseteq lgot

=============================================================================
