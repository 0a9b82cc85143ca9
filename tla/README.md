# TLA+ models of the SQL Server OpenFGA datastore

The repository's Go code under `src/openfga-fork/pkg/storage/sqlserver/` is the
SQL Server implementation of OpenFGA's `storage.OpenFGADatastore`. It has two
files:

- `sqlserver.go` holds the datastore. It covers connection setup, the tuple read
  paths with cursor pagination, the changelog reader, store, authorization-model
  and assertion CRUD, and the SQL error classifier.
- `write.go` holds the transactional tuple write. This is where concurrent
  callers interact.

Every `Write` call runs in its own READ COMMITTED transaction against shared
tables: `tuple` and `changelog`. Concurrent calls interact only through SQL
Server's row locks and unique keys. The modules here model those calls and
that locking.

## Inventory

| Part | Code | State | Operations | Hard behaviour |
|---|---|---|---|---|
| Lock-Key Orderer | `write.go` `makeTupleLockKeys` 22-80 | none (pure) | dedupe and sort keys | order decides deadlock freedom |
| Existing-Row Locker | `write.go` `selectExistingRowsForWrite` 82-123, loop 150-163 | row locks, `existing` map | `SELECT … WITH (UPDLOCK, ROWLOCK)` per batch | a missing key takes no lock |
| Conflict Resolver | `write.go` 165-273 | delete/insert/changelog plans | `OnMissingDelete`, `OnDuplicateInsert`, condition compare | decisions on unlocked (missing) keys go stale |
| Mutation Executor | `write.go` 275-376 | tuple rows, changelog rows, ULID entropy | batched DELETE, INSERT, changelog INSERT | insert locks taken in request order; ULID time taken before lock waits |
| Commit Guard | `write.go` 297-300, 334-341, 378-384; `HandleSQLError` `sqlserver.go` 850-871 | txn outcome | rows-affected check, collision → `WriteConflictOnInsert`, rollback, commit | partial batches undone only by rollback; ambiguous commit error |
| Cursor Pager | `sqlserver.go` `read`/`ReadPage` 162-227, `ReadUserTuple`… 244-387 | continuation token | fetch `page_size+1`, resume `ulid >= token` | rows inserted/deleted between pages |
| Changelog Reader | `sqlserver.go` `ReadChanges` 743-838 | ULID token | horizon filter on `inserted_at`, ULID order | late commits with small ULIDs skipped |
| Store / model / assertion CRUD | `sqlserver.go` 389-741 | stores, models, assertions | create, get, list (paginated), soft delete, MERGE upsert | token semantics of `ListStores` and `ReadAuthorizationModels` |
| Connection setup | `sqlserver.go` 55-160, 841-848 | `*sql.DB`, readiness flag | `New`, ping backoff, `IsReady`, `Close` | I/O only |

## Modules

- **`TupleWrite.tla`** models the concurrent `Datastore.Write` → `write` path.
  - *State.* There are two shared tables:
    - `tuples` maps each key to its committed row, or `NoRow`.
    - `changelog` is a sequence of committed entries: key, operation,
      condition, ULID, and the time at the insert statement.

    Each call has its own variables: `pc`, the request `req`, `now`,
    `lockKeys`, the `existing` snapshot, and the plans `delPlan`, `insPlan`
    and `logPlan` with their progress counters. `owner` records which
    transaction holds the row or key lock on each key. `clock` stands for the
    wall clock and `entropy` for the process-wide monotonic ULID entropy.
  - *Actions.* There is one action per step of `write`:
    - `Write` covers the entry point, `time.Now()` and `BeginTx`, and the
      early return when the request is empty.
    - `SelectExistingRowsForWrite` is one locking SELECT per lock key, in
      sorted order. It waits while another transaction holds that key.
    - `ResolveDeletesAndWrites` is the two resolution loops. It returns the
      input/condition errors and builds every ULID.
    - `ExecuteDeletes` runs one DELETE batch with the rows-affected check.
    - `ExecuteWrites` runs one INSERT row in VALUES order. A unique collision
      becomes `WriteConflictOnInsert`.
    - `InsertChangelog` runs one changelog batch.
    - `Commit` applies the call's effects atomically. It returns nil, or an
      error when the acknowledgement is lost after the server committed
      (`write.go:379`). Either way the call's changes are in the tables.
    - `StatementFails` models any statement returning an error through
      `HandleSQLError`, and `DeadlockVictim` models SQL Server's deadlock
      monitor killing a transaction that is on a wait cycle. Both roll the
      call back.
    - `Tick` advances the wall clock.

    The transaction's uncommitted changes are held per call and become
    visible only at `Commit`. This is what READ COMMITTED with locking
    readers shows another transaction.
- **`TupleStore.tla`** is the abstract promise of a `Write` call. A call
  either fails and changes nothing, or applies its deletes and writes under
  its policies. `Serializable` holds when some serial order of the successful
  calls produces the final table.
- **`TupleWriteSerial.tla`** extends `TupleWrite` with history variables:
  `tab0`, the initial table, and `okCalls`, the calls whose commit took
  effect. A commit whose acknowledgement was lost counts too: it is told
  apart from a failed commit by the changelog rows it appends. It checks
  the final table against `TupleStore!Serializable`.
- **`TupleLog.tla`** is the abstract specification of the write path seen from
  the readers. The tuple table and the changelog change only together. A
  commit removes rows that exist and adds rows for keys that have none. It
  appends one DELETE entry per removed tuple and one WRITE entry per added
  tuple, and every added tuple has a ULID no earlier WRITE carries.
  `TupleWrite` instantiates it as `Log`. The refinement mapping is
  `LogView`, the changelog without its insert times. Its `Spec` is checked
  as the property `WriteImplementsTupleLog`.
- **`TuplePager.tla`** extends `TupleWrite` with one caller paging a filter's
  rows with `ReadPage` (`sqlserver.go` 176-227).
  - `read` is the SELECT: the filter's rows, `ORDER BY ulid`,
    `ulid >= From`, and `PageSize+1` rows.
  - `ToArray` is modelled from spec §4.6, as `sqlcommon` is outside
    `src/`. It returns `PageSize` rows, and the ULID of the extra row as the
    token.
  - A row is `<<key, ulid>>`, so re-writing a key gives a new row.
  - `stable` is a history variable. It holds the rows that matched the
    filter for the whole scan.
  - Each key has its tuple (`TupleKeyOf`): object type, object id, relation,
    and a user record (type, id, relation, wildcard) whose `_user` string is
    `UserString`, a sequence of characters. `MatchesTupleKey` is the WHERE of
    `read`.
  - The reads without a cursor are operators over the committed table:
    `ReadUserTuple` (every column, `user_type` included), `ReadUsersetTuples`
    (`user_type = 'userset'`, the object and relation filters, and an OR of
    the restrictions, where a relation restriction is the pattern
    `type:%#relation` matched by the recursive SQL `Like`), and
    `ReadStartingWithUser` (the target strings of `TargetUser`, and the
    object ids when given). Their ordering and condition decoding are left
    out: results are sets of keys.
- **`ChangelogReader.tla`** extends `TupleWrite` with a consumer polling
  `ReadChanges` (`sqlserver.go` 743-838) with its last token.
  - `ChangesVisible` keeps committed rows with `at <= clock - Horizon`
    and, when the consumer has one, of its object type (`ObjectTypeOf` of
    the row's key). The query takes those after the token, in ULID order
    (descending with `SortDesc`), and keeps `ChangesPage` rows (no extra
    row).
  - The consumer's `desc` and `otype` are chosen at the start and stay
    fixed, as a token belongs to one order and one filter. `start` is a
    history variable: the changes visible at its first call.
  - The token is the last returned ULID, and an empty page is `NotFound`.
  - `AddFromUlid` is outside `src/`. It resumes after the token in the
    sort order (`ulid > From` ascending, `ulid < From` descending). Its
    strictness is the constant
    `FromInclusive`, because spec §4.7 and the code's comment disagree
    about it.
- **`StoreCatalog.tla`** models `CreateStore`, `GetStore`, `ListStores` and
  `DeleteStore` (`sqlserver.go` 515-678).
  - `CreateStore` has three steps: BeginTx, INSERT and SELECT+Commit.
    `CreateStoreFails` covers any of its errors and runs the deferred
    Rollback.
  - An uncommitted INSERT holds an X lock on its id (`lock`). Another INSERT
    or DeleteStore of that id waits for it. A committed row is a primary-key
    collision.
  - `DeleteStore` is one autocommitted UPDATE that succeeds even when no row
    matched.
  - A single lister pages with `id >= From`. Its token is the id of the
    `PageSize+1`-th row.
- **`ModelCatalog.tla`** models `WriteAuthorizationModel`,
  `ReadAuthorizationModels`, `WriteAssertions` and `ReadAssertions`
  (`sqlserver.go` 402-513, 680-741).
  - `WriteAuthorizationModel` is one INSERT. It returns nil at once when the
    model has no type definitions, and a duplicate id collides.
  - `ReadAssertions` returns the row, or an empty list when there is none.
    What it returns is recorded. No property is stated of it: a MERGE is
    one autocommitted statement, so a read can only see the last applied
    one.
  - The models listing runs newest first with `id <= From`. Its token is the
    last scanned id.
  - The `MERGE WITH (HOLDLOCK)` is split into its match (`MergeMatch`) and
    its UPDATE or INSERT (`MergeApply`). This shows what the key-range lock
    excludes. An INSERT into a key another MERGE filled meanwhile would be a
    primary-key violation.
- **`MCTupleWrite.tla` and `MCTupleWriteSerial.tla`** instantiate the write
  models with two calls (model values), keys `1..2` (their integer order
  stands for the composite key order of `makeTupleLockKeys`) and one or two
  conditions. The calls are symmetric. So are the conditions, where both are
  used.
- **`MCTuplePager`, `MCChangelogReader`, `MCStoreCatalog` and
  `MCModelCatalog`** instantiate the others the same way. Callers, names and
  values are symmetric model values.

## Runs

| Run | Config | Expect | What it shows |
|---|---|---|---|
| `write_safety` | `MCTupleWrite.cfg` | pass | With 2 calls, 2 keys, every request of ≤2 operations, every initial table, failures, lost commit acknowledgements and deadlock victims, the changelog replayed per key equals the tuple table (`ChangelogReplaysTuples`), and the rows-affected conflict never fires (`DeleteConflictUnreachable`). About 1.17 M states, 2 min. |
| `write_liveness` | `MCTupleWrite_live.cfg` | pass | Every started call returns (`CallsReturn`). `TupleWrite` implements `TupleLog` (`WriteImplementsTupleLog`): locking, batches, failures, rollbacks and lost acknowledgements are invisible, the tables change only at commit, with one changelog entry per changed tuple and fresh ULIDs. About 119 k states, 1 min. |
| `write_lock_order` | `MCTupleWrite_deadlock.cfg` | violation | `NoWaitCycle`: opposite-order inserts of new keys form a wait cycle. |
| `write_serializable` | `MCTupleWriteSerial.cfg` | violation | `SerializableWrites`: a write skew through an unlocked missing key. Two calls over k1 and k2 both return nil and leave a table that neither serial order gives. |
| `changelog_ulid_order` | `MCTupleWrite_ulid.cfg` | violation | `ChangelogUlidOrder`: a later commit gets a smaller ULID for the same key. |
| `pager_complete` | `MCTuplePager.cfg` | pass | `PaginationComplete`: a finished scan returned no row twice and every row that matched the filter for the whole scan, with Write calls committing between pages. `ScanAdvances`: every page that has a token and returns one moves it strictly forward, so a caller that keeps calling ends its scan. `UsersetTuplesExact` and `ReadsExact`: in every state the three cursor-less reads return exactly the rows a structural definition over the user records gives. About 256 k states, 1 min. |
| `pager_userset_like` | `MCTuplePager_userset.cfg` | violation | `UsersetTuplesExact`: a restriction on type `g_` returns a userset of type `gx`. |
| `changes_once` | `MCChangelogReader.cfg` | pass | `ChangesDeliveredOnce` with a strict cursor: no change is given twice although the token is a change already given, in either order and with either filter. `DescListComplete`: a descending listing that reaches `NotFound` has returned every change visible at its first call. About 590 k states, 1½ min. |
| `changelog_horizon` | `MCChangelogReader_horizon.cfg` | violation | `NoChangeSkipped`: a change committed below the consumer's token is never read. |
| `changelog_inclusive` | `MCChangelogReader_inclusive.cfg` | violation | `ChangesDeliveredOnce` with the inclusive cursor of spec §4.7: every page repeats the last change. |
| `store_catalog` | `MCStoreCatalog.cfg` | pass | `StoreCreatedOnce`: an id is created for one caller, who reads back its own name. `ListStoresComplete`: listing under concurrent creates and deletes. `StoreTypeOK` includes "a row lock belongs to an open CreateStore of that id", which a missing rollback breaks. |
| `model_catalog` | `MCModelCatalog.cfg` | pass | `AssertionsNeverCollide`: concurrent MERGEs on one key never hit a primary-key violation. `ModelListComplete`: the models listing never repeats a model and is complete under concurrent writes. |

Every property of a passing run has a mutant in `PROJECT.json`: a plausible
bug in the definition it rests on, which TLC must catch. For example, a
MERGE without HOLDLOCK, a token that is the last returned id, a rollback
skipped on error, or a fresh ULID for the changelog WRITE row.

### Findings

1. **Deadlock** (`write.go:327`). The spec (§4.1) says sorted lock keys
   prevent wait cycles. They do not. The SELECT locks only existing rows, and
   new rows are locked at INSERT time in the caller's order. Two calls that
   write `[k1,k2]` and `[k2,k1]` deadlock, and one is killed with an opaque
   SQL error. When the inserts are sorted, the same bounds show no cycle.
2. **Write skew** (`write.go:105`). `UPDLOCK, ROWLOCK` without `HOLDLOCK`
   does not lock an absent key. Call A writes `k1,k2`. Call B deletes `k1`
   (ignore if missing) and writes `k2` (ignore if present). Both succeed, and
   the final table, with both tuples present, matches neither serial order.
3. **ULID order ≠ commit order** (`sqlserver.go:241`). `now` is read before
   the lock waits. A call that waited for another call's DELETE of a key
   commits its WRITE of that key with an older ULID. `ReadChanges` orders by
   ULID, so a consumer replays WRITE, WRITE, DELETE and concludes that a
   present tuple is absent.
4. **Horizon does not cover long transactions** (`sqlserver.go:766`).
   `inserted_at` is set when the changelog INSERT runs, not at commit.
   - Call A takes its ULID and inserts its changelog row, then stays
     uncommitted.
   - Call B, with a larger ULID, commits.
   - The horizon passes, and a consumer reads B's change and keeps B's
     ULID as its token.
   - A commits. Its row is below the token and is never returned.

   No lock wait is involved. Spec §4.7 claims the horizon prevents exactly
   this race.
5. **Cursor of ReadChanges** (`sqlserver.go:776`, `837`). The token is the
   last returned ULID, and no extra row is fetched. Spec §4.7 gives
   `ReadChanges` "the same cursor semantics as §4.6", which is `>=`. Under
   that reading every page repeats the previous page's last change, and with
   page size 1 a consumer never advances. The code is correct only with the
   strict `>` of upstream `sqlcommon.AddFromUlid`, which `changes_once`
   confirms.
6. **Unescaped LIKE in ReadUsersetTuples** (`sqlserver.go:334`). A relation
   restriction becomes `_user LIKE 'type:%#relation'`, with the type and
   relation names put in unescaped. SQL Server's LIKE takes `_` as any one
   character (and `%`, `[` as wildcards too). A restriction on `g_#m` also
   returns `doc:1#viewer@gx:1#m`. A restriction admits usersets of exactly
   its type and relation: the wildcard branch beside it uses equality, and
   spec §4.6 lists read filters as equalities only. Type names may contain
   `_`, so the read returns usersets of a type the restriction does not
   allow.

### Bounds

- Two calls are enough for every pairwise conflict: lock waits, a two-party
  deadlock, a collision, and a stale read.
- Two keys are the fewest that allow an opposite lock order.
- `MaxOps = 2` lets one request touch both keys, or delete one and write the
  other.
- `BatchSize = 1` makes every row its own statement, so a failure can fall
  between any two rows. It also gives each row its own lock step, the finest
  interleaving the code can show.
- `MaxTime = 1` lets the ULID timestamps of two calls differ.
- The liveness and refinement run fixes `MaxTime = 0`, because its
  properties do not compare timestamps. ULIDs still differ there through the
  monotonic entropy.
- The liveness run uses one condition to stay within minutes. Condition
  values do not affect lock waits.
- The pager uses three tuples and `PageSize = 1`, so a scan takes several
  pages and a Write call can commit between any two of them. Two filters
  (object type `doc`, and user `u:1`) include one that skips a key. The
  tuples hold a userset and two plain users on two objects, and the
  userset and starting-with filters include a restriction that matches, one
  that matches nothing, no restrictions, and object ids given or not.
- The changelog reader uses `Horizon = 1` and `MaxTime = 1`. The clock can
  pass the horizon while a call is open, which is what the horizon finding
  needs. Keys 1 and 2 are a doc and a folder tuple, and the filters are none
  and `doc`, so a filter hides one key's changes.
- The catalogs use two callers, two ids and `PageSize = 1`. That is the
  fewest for a collision and for a listing of more than one page.

### Fairness

- **Write calls.** `WF` on each call's own steps (`Step(t)`): a running
  goroutine whose statement is not blocked eventually runs it.
- **Deadlock victims.** `WF` on `DeadlockVictim(t)`: SQL Server's deadlock
  monitor wakes up periodically and kills a victim on a cycle.
- **Paging.** None. Nothing in the code makes a caller come back with its
  token, so the pager's progress is the action property `ScanAdvances`
  instead: over the finitely many ULIDs, a caller that keeps calling ends.
- **No fairness.** Statement failures and new calls carry none, since
  nothing forces them.

## Not modelled

- Connection setup (`New`, `NewWithDB`, ping backoff), metrics, tracing and
  `IsReady` are configuration and I/O; spec §1 names connectivity probing,
  provisioning and auth as external collaborators. The only shared state there is a
  benign unsynchronized readiness flag.
- SQL text building and protobuf/condition serialization are left out.
  Conditions are abstract values, so the `proto.Equal` round-trip hazard
  (`write.go:223`) is not covered.
- Requests with duplicate keys are excluded. The server validates requests
  before they reach the datastore.
- Some reads are single SELECTs that change nothing and keep no cursor, so
  they are not modelled: `Read` (unpaged, `read` without options),
  `ReadAuthorizationModel` and `FindLatestAuthorizationModel`.
- Retries are not modelled. After a lost commit acknowledgement
  (`write.go:379`) a caller cannot tell its committed call from a rolled-back
  one, and a retry meets its own rows. Retries live in the server layer,
  outside this tree. The model does check that the tables stay consistent
  when the acknowledgement is lost.
