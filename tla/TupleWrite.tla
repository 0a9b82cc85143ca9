----------------------------- MODULE TupleWrite -----------------------------
(***************************************************************************)
(* The transactional write path of the SQL Server tuple store             *)
(* (src/openfga-fork/pkg/storage/sqlserver/write.go, Datastore.write).    *)
(*                                                                         *)
(* Several Write calls run concurrently, each in its own READ COMMITTED   *)
(* transaction.  A call                                                    *)
(*   1. takes the clock (time.Now() in Datastore.Write) and opens a txn,   *)
(*   2. SELECTs the touched keys WITH (UPDLOCK, ROWLOCK) in the sorted     *)
(*      order of makeTupleLockKeys: a row that exists is locked until the  *)
(*      end of the txn, a key with no row is not locked at all,            *)
(*   3. resolves deletes and writes against that snapshot, generating one  *)
(*      ULID per emitted row,                                              *)
(*   4. DELETEs batch by batch, checking rows-affected,                    *)
(*   5. INSERTs the new tuples row by row (a row blocks on the key lock of *)
(*      another txn and collides with a committed row),                    *)
(*   6. INSERTs the changelog rows batch by batch,                         *)
(*   7. commits.                                                           *)
(* Any statement may fail (SQL error, cancelled context, deadlock victim); *)
(* the deferred Rollback then undoes everything.                           *)
(*                                                                         *)
(* Uncommitted changes of a call are kept in its own variables; the rows  *)
(* they touch are locked by the call, so what other calls can see of them  *)
(* is the committed table.                                                 *)
(***************************************************************************)
EXTENDS Integers, Sequences, FiniteSets, SequencesExt, Relation

CONSTANTS
    Calls,      \* concurrent Write calls
    Keys,       \* tuple identities 1..N; < on them is the lexicographic
                \* (object_type, object_id, relation, user, user_type) order
    Conds,      \* condition payloads a tuple may carry
    NoRow,      \* no row stored for a key
    NoCond,     \* the redacted condition of a DELETE changelog row
    NoCall,     \* no transaction holds a key lock
    BatchSize,  \* storage.DefaultMaxTuplesPerWrite
    MaxOps,     \* bound on |deletes| + |writes| of one call
    MaxTime     \* bound on the clock (in ULID timestamp units)

ASSUME Keys \subseteq Nat /\ BatchSize \in Nat \ {0} /\ MaxOps \in Nat
ASSUME MaxTime \in Nat

VARIABLES
    tuples,     \* committed tuple table: key -> [cond, ulid] or NoRow
    changelog,  \* committed changelog rows, in commit order
    owner,      \* row lock (U or X) held on a key, until commit or rollback
    clock,      \* wall clock read by time.Now()
    entropy,    \* ulid.DefaultEntropy(): process-wide monotonic counter
    pc,         \* where each call is in Datastore.write
    req,        \* the call's (deletes, writes, opts)
    now,        \* the call's `now` argument
    lockKeys,   \* the call's lockKeys: sorted, deduplicated keys
    lockDone,   \* number of lockKeys already SELECTed
    existing,   \* the call's `existing` map: key -> locked row or NoRow
    delPlan,    \* deleteConditions: keys to delete
    insPlan,    \* writeItems: rows to insert
    logPlan,    \* changeLogItems: changelog rows to insert
    delDone,    \* number of deleteConditions already executed
    inserted,   \* indices of writeItems already inserted
    logged,     \* changelog rows inserted (uncommitted), with inserted_at
    result      \* what the call returned

vars == <<tuples, changelog, owner, clock, entropy, pc, req, now, lockKeys,
          lockDone, existing, delPlan, insPlan, logPlan, delDone, inserted, logged,
          result>>

-----------------------------------------------------------------------------
(* Data *)

Ulid(ts, n) == <<ts, n>>            \* 48-bit timestamp, then entropy
UlidLess(a, b) == a[1] < b[1] \/ (a[1] = b[1] /\ a[2] < b[2])

Row == [cond : Conds, ulid : (0..MaxTime) \X Nat]
WriteOp == [key : Keys, cond : Conds]

\* Sequences of pairwise distinct elements of S, at most n long.
DistinctSeqs(S, n) == {s \in BoundedSeq(S, n) : IsInjective(s)}

\* The requests a caller can pass: the server rejects a key that appears
\* twice among deletes and writes, so keys are pairwise distinct.
Requests ==
    {r \in [deletes : DistinctSeqs(Keys, MaxOps),
            writes  : {w \in BoundedSeq(WriteOp, MaxOps) :
                          IsInjective([i \in DOMAIN w |-> w[i].key])},
            onMissingDelete   : {"ignore", "error"},
            onDuplicateInsert : {"ignore", "error"}] :
        /\ Len(r.deletes) + Len(r.writes) <= MaxOps
        /\ ToSet(r.deletes) \cap {w.key : w \in ToSet(r.writes)} = {}}

Results == {"none", "ok", "InvalidWriteInputDelete", "InvalidWriteInputWrite",
            "ConditionConflict", "WriteConflictOnDelete",
            "WriteConflictOnInsert", "SqlError"}

Phases == {"idle", "lock", "resolve", "delete", "insert", "changelog",
           "commit", "done"}

\* Phases in which the call is inside the transaction and talking to SQL.
InTxn == {"lock", "delete", "insert", "changelog", "commit"}

-----------------------------------------------------------------------------
(* Lock-Key Orderer *)

\* makeTupleLockKeys: deletes and writes flattened, deduplicated by the
\* composite key and sorted by it.
makeTupleLockKeys(r) ==
    SetToSortSeq(ToSet(r.deletes) \cup {w.key : w \in ToSet(r.writes)}, <)

\* makeTupleLockKeys of every request, computed once.
LockKeysOf == [r \in Requests |-> makeTupleLockKeys(r)]


-----------------------------------------------------------------------------
(* What a call sees inside its own transaction *)

\* Keys whose DELETE the call has executed.
Deleted(t) == ToSet(SubSeq(delPlan[t], 1, delDone[t]))

\* Keys whose INSERT the call has executed.
Inserted(t) == {insPlan[t][i].key : i \in inserted[t]}

\* A row for k is visible to t: committed and not deleted by t, or
\* inserted by t.
Visible(t, k) == (tuples[k] # NoRow /\ k \notin Deleted(t)) \/ k \in Inserted(t)

\* The lock on k does not stop t.
Free(t, k) == owner[k] \in {NoCall, t}

\* The batch [start+1, min(start+BatchSize, total)] of s.
Batch(s, start) == SubSeq(s, start + 1, IF start + BatchSize > Len(s)
                                        THEN Len(s) ELSE start + BatchSize)

\* Index of the first writeItem whose INSERT has not run.
NextInsert(t) == Min({i \in DOMAIN insPlan[t] : i \notin inserted[t]})

\* The key t waits for, if the statement t runs next is blocked on it.
WaitsOn(t, k) ==
    \/ pc[t] = "lock" /\ k = lockKeys[t][lockDone[t] + 1]
    \/ pc[t] = "delete" /\ k \in ToSet(Batch(delPlan[t], delDone[t]))
    \/ pc[t] = "insert" /\ k = insPlan[t][NextInsert(t)].key

WaitsFor(t, u) == \E k \in Keys : WaitsOn(t, k) /\ owner[k] = u /\ u # t

\* t waits for u, directly or through other waiting calls.
WaitsForPlus(t, u) ==
    TransitiveClosure([x, y \in Calls |-> WaitsFor(x, y)], Calls)[t, u]

-----------------------------------------------------------------------------
(* Ending a call: the deferred txn.Rollback releases the locks and drops  *)
(* every uncommitted change; per-call state returns to its idle value.    *)

NoRequest == [deletes |-> <<>>, writes |-> <<>>,
              onMissingDelete |-> "error", onDuplicateInsert |-> "error"]

Reset(t) ==
    /\ req' = [req EXCEPT ![t] = NoRequest]
    /\ lockKeys' = [lockKeys EXCEPT ![t] = <<>>]
    /\ now' = [now EXCEPT ![t] = 0]
    /\ lockDone' = [lockDone EXCEPT ![t] = 0]
    /\ existing' = [existing EXCEPT ![t] = [k \in Keys |-> NoRow]]
    /\ delPlan' = [delPlan EXCEPT ![t] = <<>>]
    /\ insPlan' = [insPlan EXCEPT ![t] = <<>>]
    /\ logPlan' = [logPlan EXCEPT ![t] = <<>>]
    /\ delDone' = [delDone EXCEPT ![t] = 0]
    /\ inserted' = [inserted EXCEPT ![t] = {}]
    /\ logged' = [logged EXCEPT ![t] = <<>>]

Release(t) == [k \in Keys |-> IF owner[k] = t THEN NoCall ELSE owner[k]]

Finish(t, res) ==
    /\ pc' = [pc EXCEPT ![t] = "done"]
    /\ result' = [result EXCEPT ![t] = res]
    /\ owner' = Release(t)
    /\ Reset(t)

\* Mutant: the error return leaves the txn open (no deferred Rollback), so
\* its locks are never released.
AbortWithoutRollback(t, res) ==
    /\ pc' = [pc EXCEPT ![t] = "done"]
    /\ result' = [result EXCEPT ![t] = res]
    /\ Reset(t)
    /\ UNCHANGED <<tuples, changelog, owner, clock, entropy>>

Abort(t, res) ==
    /\ Finish(t, res)
    /\ UNCHANGED <<tuples, changelog, clock, entropy>>

-----------------------------------------------------------------------------
(* Initial state: any committed table, its history in the changelog. *)

InitRow(k, c) == [cond |-> c, ulid |-> Ulid(0, k)]

Init ==
    /\ \E present \in SUBSET Keys, c \in [Keys -> Conds] :
         /\ tuples = [k \in Keys |-> IF k \in present THEN InitRow(k, c[k])
                                                      ELSE NoRow]
         /\ changelog = [i \in 1..Cardinality(present) |->
                          LET k == SetToSortSeq(present, <)[i] IN
                          [key |-> k, op |-> "WRITE", cond |-> c[k],
                           ulid |-> InitRow(k, c[k]).ulid, at |-> 0]]
    /\ owner = [k \in Keys |-> NoCall]
    /\ clock = 0
    /\ entropy = Max(Keys \cup {0})
    /\ pc = [t \in Calls |-> "idle"]
    /\ req = [t \in Calls |-> NoRequest]
    /\ now = [t \in Calls |-> 0]
    /\ lockKeys = [t \in Calls |-> <<>>]
    /\ lockDone = [t \in Calls |-> 0]
    /\ existing = [t \in Calls |-> [k \in Keys |-> NoRow]]
    /\ delPlan = [t \in Calls |-> <<>>]
    /\ insPlan = [t \in Calls |-> <<>>]
    /\ logPlan = [t \in Calls |-> <<>>]
    /\ delDone = [t \in Calls |-> 0]
    /\ inserted = [t \in Calls |-> {}]
    /\ logged = [t \in Calls |-> <<>>]
    /\ result = [t \in Calls |-> "none"]

-----------------------------------------------------------------------------
(* Conflict Resolver and Mutation Executor planning (write.go 165-273):   *)
(* pure computation on the locked snapshot `ex`, with ULIDs drawn from    *)
(* the monotonic entropy `e` at timestamp `ts`.                           *)

\* The error the loops over deletes and then writes return first, or "none".
ResolveError(r, ex) ==
    LET missing == {i \in DOMAIN r.deletes : ex[r.deletes[i]] = NoRow}
        dups    == {i \in DOMAIN r.writes : ex[r.writes[i].key] # NoRow}
    IN  IF missing # {} /\ r.onMissingDelete = "error"
          THEN "InvalidWriteInputDelete"
        ELSE IF dups # {} /\ r.onDuplicateInsert = "error"
          THEN "InvalidWriteInputWrite"
        ELSE IF \E i \in dups : ex[r.writes[i].key].cond # r.writes[i].cond
          THEN "ConditionConflict"
        ELSE "none"

\* Mutant: OnMissingDelete=Ignore falls through instead of `continue`, so
\* a missing delete is still put into the DELETE.
DeleteConditionsIgnoreFallthrough(r, ex) == r.deletes

\* deleteConditions: the deletes whose row exists (missing ones ignored).
DeleteConditions(r, ex) == SelectSeq(r.deletes, LAMBDA k : ex[k] # NoRow)

\* The writes whose row does not exist (equal duplicates ignored).
NewWrites(r, ex) == SelectSeq(r.writes, LAMBDA w : ex[w.key] = NoRow)

\* writeItems: each new write with its ULID; deletes drew theirs first.
WriteItems(r, ex, ts, e) ==
    LET d == Len(DeleteConditions(r, ex)) IN
    [i \in DOMAIN NewWrites(r, ex) |->
        [key |-> NewWrites(r, ex)[i].key, cond |-> NewWrites(r, ex)[i].cond,
         ulid |-> Ulid(ts, e + d + i)]]

\* Mutant: the changelog WRITE row draws its own ULID (a second
\* ulid.MustNew) instead of reusing the id of the tuple row.
ChangeLogItemsFreshUlid(r, ex, ts, e) ==
    LET dels == DeleteConditions(r, ex)
        ws   == WriteItems(r, ex, ts, e)
    IN  [i \in DOMAIN dels |->
            [key |-> dels[i], op |-> "DELETE", cond |-> NoCond,
             ulid |-> Ulid(ts, e + i)]]
        \o [i \in DOMAIN ws |->
            [key |-> ws[i].key, op |-> "WRITE", cond |-> ws[i].cond,
             ulid |-> Ulid(ts, e + Len(dels) + Len(ws) + i)]]

\* changeLogItems: DELETE rows (condition redacted), then WRITE rows that
\* carry the ULID of the tuple they insert.
ChangeLogItems(r, ex, ts, e) ==
    LET dels == DeleteConditions(r, ex)
        ws   == WriteItems(r, ex, ts, e)
    IN  [i \in DOMAIN dels |->
            [key |-> dels[i], op |-> "DELETE", cond |-> NoCond,
             ulid |-> Ulid(ts, e + i)]]
        \o [i \in DOMAIN ws |->
            [key |-> ws[i].key, op |-> "WRITE", cond |-> ws[i].cond,
             ulid |-> ws[i].ulid]]

-----------------------------------------------------------------------------
(* Actions *)

\* Datastore.Write / write up to the lock loop: take time.Now(), BeginTx,
\* build lockKeys; with nothing to lock, return nil at once.
Write(t, r) ==
    /\ pc[t] = "idle"
    /\ IF LockKeysOf[r] = <<>>
         THEN /\ pc' = [pc EXCEPT ![t] = "done"]
              /\ result' = [result EXCEPT ![t] = "ok"]
              /\ UNCHANGED <<req, now, lockKeys>>
         ELSE /\ req' = [req EXCEPT ![t] = r]
              /\ now' = [now EXCEPT ![t] = clock]
              /\ lockKeys' = [lockKeys EXCEPT ![t] = LockKeysOf[r]]
              /\ pc' = [pc EXCEPT ![t] = "lock"]
              /\ UNCHANGED result
    /\ UNCHANGED <<tuples, changelog, owner, clock, entropy, lockDone,
                   existing, delPlan, insPlan, logPlan, delDone, inserted,
                   logged>>

\* Mutant: the SELECT without the UPDLOCK hint, whose shared lock ends with
\* the statement under READ COMMITTED.
SelectExistingRowsForWriteNoLock(t) ==
    LET k == lockKeys[t][lockDone[t] + 1] IN
    /\ pc[t] = "lock"
    /\ Free(t, k)
    /\ existing' = [existing EXCEPT ![t][k] = tuples[k]]
    /\ lockDone' = [lockDone EXCEPT ![t] = @ + 1]
    /\ pc' = [pc EXCEPT ![t] = IF lockDone[t] + 1 = Len(lockKeys[t])
                                 THEN "resolve" ELSE "lock"]
    /\ UNCHANGED <<tuples, changelog, owner, clock, entropy, req, now, lockKeys, delPlan,
                   insPlan, logPlan, delDone, inserted, logged, result>>

\* Mutant: the batch loop runs one key past the end of lockKeys.
SelectExistingRowsForWriteOverrun(t) ==
    LET k == lockKeys[t][lockDone[t] + 1] IN
    /\ pc[t] = "lock"
    /\ Free(t, k)
    /\ IF tuples[k] # NoRow
         THEN /\ owner' = [owner EXCEPT ![k] = t]
              /\ existing' = [existing EXCEPT ![t][k] = tuples[k]]
         ELSE UNCHANGED <<owner, existing>>
    /\ lockDone' = [lockDone EXCEPT ![t] = @ + 1]
    /\ pc' = [pc EXCEPT ![t] = IF lockDone[t] + 1 > Len(lockKeys[t])
                                 THEN "resolve" ELSE "lock"]
    /\ UNCHANGED <<tuples, changelog, clock, entropy, req, now, lockKeys, delPlan,
                   insPlan, logPlan, delDone, inserted, logged, result>>

\* selectExistingRowsForWrite, one key of lockKeys at a time: the SELECT
\* WITH (UPDLOCK, ROWLOCK) waits for a lock held by another txn, then
\* locks the row if there is one; a missing key takes no lock.
SelectExistingRowsForWrite(t) ==
    LET k == lockKeys[t][lockDone[t] + 1] IN
    /\ pc[t] = "lock"
    /\ Free(t, k)
    /\ IF tuples[k] # NoRow
         THEN /\ owner' = [owner EXCEPT ![k] = t]
              /\ existing' = [existing EXCEPT ![t][k] = tuples[k]]
         ELSE UNCHANGED <<owner, existing>>
    /\ lockDone' = [lockDone EXCEPT ![t] = @ + 1]
    /\ pc' = [pc EXCEPT ![t] = IF lockDone[t] + 1 = Len(lockKeys[t])
                                 THEN "resolve" ELSE "lock"]
    /\ UNCHANGED <<tuples, changelog, clock, entropy, req, now, lockKeys, delPlan,
                   insPlan, logPlan, delDone, inserted, logged, result>>

\* The phase after the deletes, and after the inserts, skipping empty loops.
AfterInserts == "changelog"
AfterDeletes(ins) == IF ins # <<>> THEN "insert" ELSE AfterInserts

\* The loops over deletes and writes (write.go 165-273).
ResolveDeletesAndWrites(t) ==
    LET r   == req[t]
        ex  == existing[t]
        err == ResolveError(r, ex)
        dp  == DeleteConditions(r, ex)
        ip  == WriteItems(r, ex, now[t], entropy)
        lp  == ChangeLogItems(r, ex, now[t], entropy)
    IN
    /\ pc[t] = "resolve"
    /\ IF err # "none"
         THEN Abort(t, err)
         ELSE /\ delPlan' = [delPlan EXCEPT ![t] = dp]
              /\ insPlan' = [insPlan EXCEPT ![t] = ip]
              /\ logPlan' = [logPlan EXCEPT ![t] = lp]
              /\ entropy' = entropy + Len(lp)
              /\ pc' = [pc EXCEPT ![t] =
                          CASE lp = <<>> -> "commit"
                            [] dp # <<>> -> "delete"
                            [] OTHER     -> AfterDeletes(ip)]
              /\ UNCHANGED <<tuples, changelog, owner, clock, req, now, lockKeys,
                             lockDone, existing, delDone, inserted, logged,
                             result>>

\* Mutant: the DELETE runs on the connection pool (s.stbl without
\* RunWith(txn)), so it autocommits and survives a later rollback.
ExecuteDeletesOutsideTxn(t) ==
    LET b    == Batch(delPlan[t], delDone[t])
        rows == {k \in ToSet(b) : Visible(t, k)}
    IN
    /\ pc[t] = "delete"
    /\ \A k \in ToSet(b) : Free(t, k)
    /\ IF Cardinality(rows) # Len(b)
         THEN Abort(t, "WriteConflictOnDelete")
         ELSE /\ tuples' = [k \in Keys |-> IF k \in rows THEN NoRow ELSE tuples[k]]
              /\ delDone' = [delDone EXCEPT ![t] = @ + Len(b)]
              /\ pc' = [pc EXCEPT ![t] =
                          IF delDone[t] + Len(b) = Len(delPlan[t])
                            THEN AfterDeletes(insPlan[t]) ELSE "delete"]
              /\ UNCHANGED <<changelog, owner, clock, entropy, req, now, lockKeys,
                             lockDone, existing, delPlan, insPlan, logPlan,
                             inserted, logged, result>>

\* One DELETE ... WHERE store AND (key1 OR key2 ...) of the delete loop;
\* fewer rows affected than keys in the batch is ErrWriteConflictOnDelete.
ExecuteDeletes(t) ==
    LET b    == Batch(delPlan[t], delDone[t])
        rows == {k \in ToSet(b) : Visible(t, k)}
    IN
    /\ pc[t] = "delete"
    /\ \A k \in ToSet(b) : Free(t, k)
    /\ IF Cardinality(rows) # Len(b)
         THEN Abort(t, "WriteConflictOnDelete")
         ELSE /\ owner' = [k \in Keys |-> IF k \in rows THEN t ELSE owner[k]]
              /\ delDone' = [delDone EXCEPT ![t] = @ + Len(b)]
              /\ pc' = [pc EXCEPT ![t] =
                          IF delDone[t] + Len(b) = Len(delPlan[t])
                            THEN AfterDeletes(insPlan[t]) ELSE "delete"]
              /\ UNCHANGED <<tuples, changelog, clock, entropy, req, now, lockKeys,
                             lockDone, existing, delPlan, insPlan, logPlan,
                             inserted, logged, result>>

\* One row of the multi-row INSERT INTO tuple of the write loop, in VALUES
\* order: it waits for another txn's lock on the key, and a row visible to
\* the txn is a unique-key violation, i.e. ErrCollision, returned as
\* ErrWriteConflictOnInsert.
ExecuteWrites(t) ==
    LET i == NextInsert(t)
        k == insPlan[t][i].key
    IN
    /\ pc[t] = "insert"
    /\ Free(t, k)
    /\ IF Visible(t, k)
         THEN Abort(t, "WriteConflictOnInsert")
         ELSE /\ owner' = [owner EXCEPT ![k] = t]
              /\ inserted' = [inserted EXCEPT ![t] = @ \cup {i}]
              /\ pc' = [pc EXCEPT ![t] =
                          IF Cardinality(inserted'[t]) = Len(insPlan[t])
                            THEN AfterInserts ELSE "insert"]
              /\ UNCHANGED <<tuples, changelog, clock, entropy, req, now, lockKeys,
                             lockDone, existing, delPlan, insPlan, logPlan,
                             delDone, logged, result>>

\* One batch of INSERT INTO changelog; inserted_at is the server's clock
\* at the statement (NowExpr).
InsertChangelog(t) ==
    LET b == Batch(logPlan[t], Len(logged[t])) IN
    /\ pc[t] = "changelog"
    /\ logged' = [logged EXCEPT ![t] =
                    @ \o [i \in DOMAIN b |-> [key |-> b[i].key, op |-> b[i].op,
                                             cond |-> b[i].cond,
                                             ulid |-> b[i].ulid, at |-> clock]]]
    /\ pc' = [pc EXCEPT ![t] = IF Len(logged'[t]) = Len(logPlan[t])
                                 THEN "commit" ELSE "changelog"]
    /\ UNCHANGED <<tuples, changelog, owner, clock, entropy, req, now, lockKeys,
                   lockDone, existing, delPlan, insPlan, logPlan, delDone,
                   inserted, result>>

\* txn.Commit: the deletes, inserts and changelog rows become visible
\* together and the locks are released.  The acknowledgement can be lost
\* after the server applied the commit (the connection drops): Commit
\* returns an error, which HandleSQLError passes on, for a committed txn.
Commit(t) ==
    /\ pc[t] = "commit"
    /\ tuples' = [k \in Keys |->
                    IF \E i \in inserted[t] : insPlan[t][i].key = k
                      THEN LET i == CHOOSE i \in inserted[t] :
                                       insPlan[t][i].key = k
                           IN [cond |-> insPlan[t][i].cond,
                               ulid |-> insPlan[t][i].ulid]
                    ELSE IF k \in Deleted(t) THEN NoRow ELSE tuples[k]]
    /\ changelog' = changelog \o logged[t]
    /\ \/ Finish(t, "ok")
       \/ Finish(t, "SqlError")
    /\ UNCHANGED <<clock, entropy>>

\* Any statement of the txn, or the commit, fails (driver or server error,
\* lock timeout, deadlock victim, cancelled ctx): the error is returned and
\* the deferred Rollback undoes the txn.
StatementFails(t) ==
    /\ pc[t] \in InTxn
    /\ Abort(t, "SqlError")

\* The SQL Server deadlock monitor picks a txn on a cycle of lock waits and
\* fails its statement with error 1205.
DeadlockVictim(t) ==
    /\ pc[t] \in InTxn
    /\ \E u \in Calls : WaitsFor(t, u) /\ WaitsForPlus(u, t)
    /\ Abort(t, "SqlError")

\* Time passes.
Tick ==
    /\ clock < MaxTime
    /\ clock' = clock + 1
    /\ UNCHANGED <<tuples, changelog, owner, entropy, pc, req, now, lockKeys, lockDone,
                   existing, delPlan, insPlan, logPlan, delDone, inserted,
                   logged, result>>

\* The steps a call takes on its own once it has started.
Step(t) ==
    \/ SelectExistingRowsForWrite(t)
    \/ ResolveDeletesAndWrites(t)
    \/ ExecuteDeletes(t)
    \/ ExecuteWrites(t)
    \/ InsertChangelog(t)
    \/ Commit(t)

Next ==
    \/ \E t \in Calls, r \in Requests : Write(t, r)
    \/ \E t \in Calls : Step(t) \/ StatementFails(t) \/ DeadlockVictim(t)
    \/ Tick

\* Each started call keeps running while it can (the goroutine is not
\* descheduled forever); the deadlock monitor eventually breaks a cycle.
Fairness == \A t \in Calls : WF_vars(Step(t)) /\ WF_vars(DeadlockVictim(t))

Spec == Init /\ [][Next]_vars /\ Fairness

-----------------------------------------------------------------------------
(* Properties *)

TypeOK ==
    /\ tuples \in [Keys -> Row \cup {NoRow}]
    /\ owner \in [Keys -> Calls \cup {NoCall}]
    /\ clock \in 0..MaxTime
    /\ entropy \in Nat
    /\ pc \in [Calls -> Phases]
    /\ req \in [Calls -> Requests]
    /\ now \in [Calls -> 0..MaxTime]
    /\ lockKeys \in [Calls -> Seq(Keys)]
    /\ existing \in [Calls -> [Keys -> Row \cup {NoRow}]]
    /\ result \in [Calls -> Results]
    /\ \A t \in Calls : pc[t] = "lock" => lockDone[t] < Len(lockKeys[t])
    /\ \A t \in Calls : inserted[t] \subseteq DOMAIN insPlan[t]

\* The row a key holds after replaying the changelog rows of that key in
\* order: a WRITE must find no row, a DELETE must find one.
Corrupt == [cond |-> NoCond, ulid |-> <<-1, -1>>]

ReplayStep(row, e) ==
    CASE row = Corrupt                  -> Corrupt
      [] e.op = "WRITE" /\ row = NoRow  -> [cond |-> e.cond, ulid |-> e.ulid]
      [] e.op = "DELETE" /\ row # NoRow -> NoRow
      [] OTHER                          -> Corrupt

Replay(log, k) == FoldLeft(ReplayStep, NoRow, SelectSeq(log, LAMBDA e : e.key = k))

\* Changelog completeness (write.go: every deleted or inserted row gets one
\* changelog row, in the same txn): replaying the committed changelog in
\* commit order gives back the committed tuple table, condition and ULID
\* included, and WRITE and DELETE alternate for every key.
ChangelogReplaysTuples == \A k \in Keys : Replay(changelog, k) = tuples[k]

\* The rows-affected check of the delete loop (write.go 297) never fires:
\* every key in deleteConditions was locked by the SELECT ... UPDLOCK, so
\* no other txn can delete it first.
DeleteConflictUnreachable == \A t \in Calls : result[t] # "WriteConflictOnDelete"

\* Every Write call returns: lock waits end because the holder commits or
\* rolls back, and cycles of waits are broken by the deadlock monitor.
CallsReturn == \A t \in Calls : pc[t] # "idle" ~> pc[t] = "done"

\* Lock-order deadlock freedom (makeTupleLockKeys' purpose): no cycle of
\* calls each waiting for a key lock another one holds.
NoWaitCycle == \A t \in Calls : ~WaitsForPlus(t, t)

\* The changelog is read ordered by ULID (ReadChanges, sqlserver.go 751);
\* for that order to be the order of the changes, the rows of one key must
\* be committed in ULID order.
ChangelogUlidOrder ==
    \A i, j \in DOMAIN changelog :
        i < j /\ changelog[i].key = changelog[j].key
          => UlidLess(changelog[i].ulid, changelog[j].ulid)

-----------------------------------------------------------------------------
(* Refinement: the write path implements TupleLog.  The tuple table maps  *)
(* to itself; a changelog row maps to its key, operation and, for a WRITE, *)
(* the condition and ULID it records.                                     *)

LogView ==
    [i \in DOMAIN changelog |->
        [key |-> changelog[i].key, op |-> changelog[i].op,
         row |-> IF changelog[i].op = "WRITE"
                   THEN [cond |-> changelog[i].cond, ulid |-> changelog[i].ulid]
                   ELSE NoRow]]

Log == INSTANCE TupleLog WITH Ulids <- (0..MaxTime) \X Nat, changelog <- LogView

\* Every step of concurrent Write calls is a step of TupleLog: the tables
\* change only at txn.Commit, a commit deletes only rows that still exist
\* (they stayed UPDLOCKed) and inserts only keys that are still free (the
\* INSERT's key lock), each change gets its changelog row in the same
\* commit, and a WRITE row reuses the fresh ULID of the tuple it inserts.
WriteImplementsTupleLog == Log!Spec

=============================================================================
