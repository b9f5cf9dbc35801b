# A TLA+ development of kvtsjl

kvtsjl is a library of typed key-value stores: leaf backends (memory, SQL,
object stores, Redis), and an algebra that composes them — mirrors, caches and
fallbacks, indexes, records zipped from parts kept on different media. This
directory models the parts of it where the order of calls, failures, crashes,
time and concurrent callers decide whether a record is right. `src/` below is
the repository, with its code under `src/src/kvtsjl/`.

## 1. Inventory

| Component (code) | State | Operations | What is hard | What makes it correct |
|---|---|---|---|---|
| Record topology (`keymap_algebra/topology.py`) | what each target holds; the queue of deferred syncs | write, delete, unset, read, conditional write, fill, stream, gc, missing_pages | one record over several media, no transaction across them; crash, failure and other callers between any two calls | its laws 1–13: commit before derive, referent before reference, values flow downstream, failures name their side of the commit |
| zip (`keymap_algebra/zip.py`, `store/compose/zipped.py`) | one entry per part | set, set_if_absent, update, get | parts written one after another; optional parts; a commit part that decides existence | a row never refers to a missing body |
| mirror, fallback, indexed (`store/compose/*.py`) | copies, older stores, indexes | the same, as topologies | stale copies, fills racing writes | only committed values are derived; no fill undoes a write |
| Caller-owned commit (`DependentSyncs`, `flush_index_syncs`, `discard_index_syncs`) | queue of syncs | operations, commit, flush, rollback, discard | some effects at once, some in the transaction, some after it | nothing of a rolled-back transaction is derived; a committed row keeps its body |
| Key map operations (`keymap.py`) | per call: pending keys, versions seen, round | update, batch_update, set_if_absent, get_or_set | read-decide-write races, retries, exhaustion | an update is atomic per key, or writes nothing |
| Memory backend (`backends/memory.py`) | entries with expiry | get, set, delete, conditional write, scan, gc | expired entries that are still stored | a version names one content; only what ran out is collected |
| Object-store backend (`backends/object/store.py`, `ttl.py`) | objects with times and headers | the same, each several requests | six ways to keep an expiry; lazy deletion and gc judge by an earlier request | a write expires when asked; a live value is never collected |
| Drivers (`backends/object/*_driver.py`) | objects; data, temporary and sidecar files | read, write, stream, conditional write, delete, list | shared temporary files, two files per value, a process that dies | a partial value is never visible |
| SQL backend (`backends/sql/`) | rows, possibly shared by several views | the same over statements | one expiry for several views; liveness judged twice; keyset pages; the caller's transaction | only the owning view creates or deletes rows |
| Redis backend (`backends/redis.py`) | keys with native expiry | the same over commands | value and expiry in two commands; WATCH | what was given a life ends; EXEC sees every write |
| Logical store (`store/logical.py`, `leaf.py`, `backend.py`) | — | fill_missing, get_or_set, gc_expired | copying page by page while others write | a copy never replaces; the counts add up |
| Grouped stores, fan-out (`store/compose/grouped.py`, `store/fanout.py`) | — | the set of a group; unions of keys | list, write, delete | the group is what was given |
| Scans (`store/schema/scan.py`, `store/leaf.py`, the compositions' `scan_rows`) | cursor, pending rows | filters, limits, pages, delete_where | filters taken apart; rows written between pages; values read in batches | no steady match missed, repeated or wrongly returned |
| Index backends, serialisation, codecs, capabilities | — | ranking, conversions, declarations | — | data, not control: section 6 |

Components interact by plain calls: a composed store holds a `Topology` whose
targets are key maps, themselves possibly compositions; the only shared state
is the media. There are no locks: two callers of one record interleave at every
call to a medium. The one callback is `decide` of `update`.

`PROJECT.json` lists every component with its status, the source lines of each
definition under `map`, and under `hazards` each place where the code is hard
to test, with the properties aimed at it.

## 2. Modules

| Module | What it is |
|---|---|
| `Topology` | the declaration of a record (targets, roles, lookups, fills) with the checks the constructors make of it, and the orders in which operations visit targets. No state. |
| `RecordTopology` | callers running set, delete, set_if_absent, update and get over the targets of one topology, one call to one target per step, any of which may fail, with a crash between any two. `MCRecordTopology` instantiates it with a cached store; `RecordTopology_proofs` holds its theorems. |
| `MCShapes` | four more compositions (one of them at two sets of operations), each an instance of `RecordTopology` over the same variables; the variable `shape` says which. |
| `CallerCommit` / `MCCallerCommit` | one record in a transaction the caller owns: the queue of `DependentSyncs`, commit, rollback, flush, crash. Theorems in `CallerCommit_proofs`. |
| `Upkeep` / `MCUpkeep` | the operations on a topology that read in one place and write in another: streams, gc, fill_missing, the set of a group. Extends `Topology`. Theorems in `Upkeep_proofs`. |
| `AtomicUpdate` | the abstract specification of `update`: a key is settled in one step or given up. |
| `BatchUpdate` / `MCBatchUpdate` | `batch_update`: rounds of reads with versions, decisions and conditional writes. Theorems, that it implements `AtomicUpdate` among them, in `StoreCalls_proofs`. |
| `Expiry` | the six sources of expiry of object stores, and what the four drivers can do. No state. |
| `ObjectStore` / `MCObjectStore` | the calls of an object-store collection, one action per request. Theorems in `ObjectStore_proofs`. |
| `FileDriver` / `MCFileDriver` | the file system driver, one action per file operation. Theorems in `FileDriver_proofs`. |
| `SqlTable` / `MCSqlTable` | the SQL backend on SQLite, one action per statement. Theorems in `SqlTable_proofs`. |
| `LeafEntries` / `MCLeafEntries` | the Redis backend, one action per command, and the memory backend, one action per method. Theorems in `LeafEntries_proofs`. |
| `ScanPredicates` | the predicate algebra of scans: each function of `scan.py` as a parameter and its body. No state. |
| `ScanRows` / `MCScanRows` | a scan through leaf, view and cascade, paged and resumed, with `delete_where`. Theorems in `StoreCalls_proofs`, with the inductive invariants of `ScanInvariants`. |
| `KeyValue` | the keys and values that `BatchUpdate` and the modules of scans share. |

The composition modules (`RecordTopology`, `CallerCommit`, `Upkeep`) treat a
target's call as one step; `ObjectStore`, `FileDriver`, `SqlTable` and
`LeafEntries` open that step for each backend. Definitions whose comment calls
them a mutant or a variant with an error are plausible mistakes used to test
the properties (section 3); no specification uses them.

### RecordTopology and the code

`held[t][k]` is what target `t`'s medium holds. A value is a number that says
which call wrote it: every set has a fresh one, so a property can tell where a
value came from; `Absent` is no entry. Per caller, `op` is the loop the code is
in, `todo` the targets it has yet to visit, `slot` what of the record each
target receives (`"none"` for a part that is `None`, `"same"` for one an update
leaves unchanged), `seen` the versions an update read, `won` the keys the
authority accepted, `out` the outcome: returned, `UncommittedWriteError`,
`PartialSyncError`, another error, or crashed. `last`, `past` and `owner` are
history: the last value committed, all of them, who changed the key last.

The version of an entry in this module is the value itself, which is enough
because values are never reused; versions proper are the subject of
`BatchUpdate` and the backends' modules.

| Action | Code |
|---|---|
| `StartWrite`, `WriteTarget`, `WriteFails` | `Topology.write`, `batch_write`; failures by `_committing` and `_settle` |
| `StartDelete`, `DeleteTarget`, `DeleteFails` | `delete`, `batch_delete`, `unset` through `_remove` and `_batch_remove` |
| `StartInsert`, `StartUpdate`, `Decide`, `DecideNothing` | `set_if_absent`; `batch_read_versioned` and the decision of `update` |
| `CondTarget` (`CondComponent` or `CondAuthority`), `CondFails`, `CondDelete`, `CondSet`, `CondSyncFails` | `Topology.batch_write_if_unchanged`, target by target |
| `StartGet`, `LookUp` (`ReadTarget` or `AssemblePart`), `FillTarget`, `ReadFails`, `FillFails` | `read`, `_fill`, `_try_fill` of a whole record; `_assemble_one` of a zipped one |
| `Crash` | the caller's process dies |

A call to a medium is one step; one that raises may have had no effect or, with
`PartialCalls`, an effect on some of its keys. `Exclusive` makes callers take
turns to *change* a key (reads still interleave); a run says which it assumes.

Left out of this module: write clocks and TTLs (`_by_clock` splits a batch by
clock; each group is such a batch), `KvStoreUnsupported` (law 9: raised when
the composition is wrong, before or instead of an effect), topologies nested in
topologies (a child is a target to its parent), `exists` and `stat` (reads like
`read`).

### CallerCommit and the code

`disk` is durable, `work` is what the caller's transaction sees. `Put` is a
call made now: into the transaction for targets whose `writes_are_deferred`,
durable for the others. `SyncOne` is `_sync_one`: what joins the commit runs
now, the rest is queued. `Flush` and `FlushFails` take the queue in order and
past failures; `Rollback` is the caller's rollback with `discard_index_syncs`.
The commit itself is the caller's and the database's, and is external.

The instance is one topology with an index, a body, a row and child rows. The
shipped `zip(...).indexed(...)` is two nested nodes with a queue each, flushed
outer first; the order between the index's sync and the body's removal is the
only thing that differs, and they are different targets.

### Upkeep and the code

`held[t][k]` is an entry `[id, clock]`: which write it comes from and the write
clock its life counts from. `call[c]` holds the locals of the method a caller is
in, and after them history the properties read: keys others touched (`raced`),
targets that failed, what was there to find when the call began (`due`).

| Action | Code |
|---|---|
| `StartSet`, `StartDelete`, `Set`, `Remove` | `batch_set`, `batch_delete` target by target |
| `StartStream`, `Stream`, `Open`, `Feed` | `write_stream`: the authority consumes the source, each dependent is fed from a stream of the authority opened then |
| `StartRead`, `Look`, `Stat`, `FillStream`, `Reread`, `RereadSource` | `read_stream` and `_fill_stream`: each target filled serves the next |
| `StartGc`, `Gc`, `Collect` | `Topology.gc`: the authority's expired keys are removed from the dependents, then each collects its own |
| `StartFill`, `Page`, `Check`, `ReadPage`, `StatPage`, `Copy`, `Spread` | `missing_pages` and `fill_missing`, with its limit counted in copies |
| `StartGroup`, `ListGroup` | `GroupedKvStore.set`: list, write, delete the rest |
| `SyncFails`, `FillFails`, `CallFails` | a failing target, by policy tolerated or raised |
| `Tick`, `Vanish` | time passes; the owner of an older store removes an entry (external) |

### BatchUpdate and the code

`value`, `expired`, `version` are the medium's entry; `changed` counts the
changes of a key and gives a new entry its version, as every write of the memory
backend stores a new `_Entry`. `pending`, `round`, `seen`, `held` are the locals
of `batch_update`. Keys are read and written one request each, in any order
(`map_concurrent` of the object stores); a memory map does a round's reads, and
its writes, at once, which is a special case. `Raise` is any exception; a
request that took effect though it raised is `WriteIfUnchanged` followed by
`Raise`. `decide` is modelled per key, as `update` has it; for a function of
several keys at once, atomicity is still per key.

### Expiry, ObjectStore and the code

`Expiry` turns `ttl=` and `created_at=` of a write into what the medium stores
(`NativeExpiry`, `ModifiedAt`) and back into a verdict (`IsExpired`) and a stat
(`ReportedExpiry`), for each class of `ttl.py`; the records of `BlobDriver` say
which requests a driver makes, what its listing tells and what it raises.
`Provisions` are the pairs the leaf stores offer. `ObjectStore`'s `setup` is a
provision with a TTL and an `ExpiryGc`; `object[k]` is what is stored, with
`due` and `exact` recording what the writer asked. A call goes from `Begin`
through its requests: `Head`, `Read`, `ReadBody`, `ReadChunks`, `Probe`,
`Remove`, `BulkDelete`, `List`, `Row`, `WriteIf`, `DeleteIf`. `Set` is another
client's write and `Vanish` its delete, between any two requests.

### FileDriver and the code

A name in `dir` leads to an inode; a file has two halves, so that a write takes
two steps and a torn value is visible as one. `OpenTmp`/`Fill`/`FillRest`/
`Replace` are `_write_atomic` and `write_stream`, `OpenOwn`/`Link` the insert of
`write_if_version`, `Utime`/`OpenSidecar`/`WriteToken` the headers,
`Unlink`/`UnlinkSidecar` the delete, `Stat`/`ReadSidecar`/`ReadBody` a read.
`Crash` ends the calls of one process and leaves its files. `shared`,
`contended`, `torn` and `inserts` are history: a temporary file opened by two, a
key changed by two at once, a key a call died in, the writes that are inserts. The
step that puts a value in place or takes it away, when no other call is changing
the key, clears `contended` and `torn` (`Mends`): from there the files are to
belong together again.

### SqlTable and the code

`table` has the committed rows, each with one column per view, one `updated` and
one `expires`; `txn` the open write transaction and what it sees. SQLite has one
writer at a time (`Refuse` is its busy error). `UpsertRows`, `UpdateFirst`,
`InsertNext`, `UpdateRows`, `DeleteRows`, `ClearOwnColumns`,
`InsertEachIfAbsent`, `ReplaceEachIf`, `DeleteEachIf` are the adapter's
statements; `Fetch`, `Collect`, `ExpiredRows`, `IterKeysetRows` the backend's
reads, its lazy deletion, gc and pages. `Open`, `Commit` and `Rollback` are the
caller's. Rows are written one per call; `legacy` starts from rows written
before the table had an expiry column.

### LeafEntries and the code

`entry` is a function on the keys stored, with body, expiry and the write they
come from. Redis drops what expires itself (`Tick` removes it); the memory
backend keeps it until `LiveEntry`, `Scan` or `Collect`. `SetBare` and
`ExpireAt` are the two commands of a write with a clock, with `Die` between
them; `Watch` and `Exec` the transaction of `_swap_if_unchanged`; `Exists` and
`Pttl` those of `stat`. `torn` marks keys whose value and expiry come from
different writes.

### ScanPredicates, ScanRows and the code

A predicate is a record; `Evaluate`, `Needs`, `PeelKeyPrefix`,
`SplitKeyPredicates`, `PartitionByNeeds`, `IsGcPredicate` are the functions of
`scan.py` by those names. They call themselves on the parts of a predicate. Each
is a CONSTANT operator, and `EvaluateOf` and its like are the bodies, in which
the constant stands for the recursive call; a configuration gives the constant
its body for a value, so TLC recurs, while a proof has the equation
`Evaluate(p, row) = EvaluateOf(p, row)` and no recursive operator.

In `ScanRows` a store is a view over a leaf. `Down` is what the view asks of its
source, `CompileScan` what the leaf makes of it. The generators of the code pull
one row at a time, and `Due` says which of them goes on; `scan` holds their
locals.

| Action | Code |
|---|---|
| `ScanRowsOf` | `scan_rows`, with the refusals of strict and ordered scans |
| `Fetch`, `NextPart` | a page of the leaf; the next part of a record listed by all its parts |
| `List` | a row comes up: the cursor, the source's own filter and limit, a key seen before |
| `Confirm`, `Bring` | a page of keys is asked of the record or of the store of values, and goes on row by row |
| `Take` | `apply_cascade`, one row |
| `Flush`, `Yield` | `flush`: the values of the waiting rows are read, and the rows yielded one by one |
| `End` | the last row is out |
| `Resume`, `DeleteWhere` | the caller asks for the next page; the keys listed are deleted |
| `Write` | another client, between any two steps |

Rows a leaf drops as expired are not in `data`.

## 3. Runs

Passing runs (bounds in each `.cfg`; each takes a quarter of a minute to about
two minutes):

| Run | Shows |
|---|---|
| `mc_cache` | a store with a required cache before it, a required replica and an older store behind it; two callers, all operations, changes in turns, readers filling between: laws 1, 6 and 7, law 8, a set or delete that returned reached every target and no fill undoes it, and the inductive invariant `OnCourse` of the proofs |
| `mc_shapes` | *race*: the same store, callers that do not wait for one another and failures with partial effects: laws 1, 6 and 7. *batch*: two keys in one conditional batch, partly refused. *zip*, *rezip*: a commit part and an optional part, failures with partial effects and crashes: law 2, for the media and for a reader of the parts. *pair*: a zip without commit part, indexed |
| `mc_txn` | the caller's transaction: derived data only from commits; in step between transactions; committed rows keep their bodies, for keys changed once per transaction |
| `mc_update` | `batch_update` implements `AtomicUpdate` (a refinement, checked step by step); every call ends; a conflict means at least `attempts` changes by others |
| `mc_object` | every source of expiry carries TTL and clock to the medium and back, `stat` tells the moment, no read answers with what had expired before it, lazy deletion and gc remove only what ran out or was written during the call, gc removes what it reports (lazy), updates replace what they saw |
| `mc_files` | two processes, one of which may die: whole values only, files that belong together, and again after a race or a death once one call changes them alone, reads that delete only what ran out, inserts never seen without their clock (`os.utime` comes before `os.link`) |
| `mc_sql` | Python and SQL agree on liveness and expiry; siblings keep their columns and rows; keyset pages miss no steady row; conditional statements replace what was read |
| `mc_leaf` | expiry as asked but between SET and EXPIREAT; WATCH sees every write; `stat`, scans, gc and updates of Redis and memory |
| `mc_scan` | every filter of `AllTrees`, connectives up to two deep, taken apart without changing what they select; scans over ten stores miss, repeat and invent nothing, for records nobody wrote meanwhile; `delete_where` removes the matches; a scan ends |
| `mc_upkeep` | streams, gc, fill_missing and a group's set reach what they should; copies keep the clock of what they copy; the counts add up; nothing live is replaced, nothing deleted comes back, for keys nobody else touched |

Several properties are about records nobody else wrote during the call
(`raced`, `touched`, `Steady`): the library promises no isolation, and what it
leaves when writers do collide is in section 4.

Related statements are checked as one property, the conjunction of named
parts, each defined and commented where its module states it:

| Property | Parts |
|---|---|
| `ReferentIsThere` | `ReferentBeforeReference`, `ReaderFindsParts` of `RecordTopology` |
| `ReachesAll` | `SetReachesEveryTarget`, `DeleteReachesEveryTarget` |
| `InStep` | `TypeOK`, `SyncedBetweenTransactions` of `CallerCommit` |
| `KeptAsAsked` | `TypeOK`, `ExpiresAsAsked`, `StatTellsTheExpiry` of `ObjectStore` |
| `FilesAreInOrder` | `TypeOK`, `FilesBelongTogether` |
| `JudgedAsAsked` | `TypeOK`, `PushdownAgrees`, `ExpiresAsAsked` of `SqlTable` |
| `TakesOnlyItsOwn` | `CollectsTheExpired`, `SiblingsKeepTheirs` of each client |
| `TellsWhatIsKept` | `TypeOK`, `ExpiresAsAsked`, `StatTellsTheExpiry`, `ScanListsTheSteady` of `LeafEntries` |
| `SwapsWhatItSaw` | `UpdateReplacesWhatItSaw`, `ExecSeesEveryTouch` of each client |
| `SplitsAlike` | `TakenApartAlike`, `GcMeansExpired` |
| `ListsOnce` | `ScanTypes`, `ReturnsOnce`, `FailsOnlyOnRelisting` |
| `CallsReachAll` | `TypeOK`, `WritesReachAll`, `GroupIsExact`, `GcReachesAll` |
| `CopiesAreTrue` | `FillAccounts`, `FillFindsAll`, `CopyKeepsItsLife` |
| `FillsUndoNothing` | `FillReplacesNothing`, `ReadsRestoreNothing` of each client |

The type invariant of `BatchUpdate` is proved and has no run of its own.

Every property of a passing run is also checked against a variant of the model
with a plausible error (a traversal out of order, a fill that replaces, a page
by offset, a comparison off by one); `PROJECT.json` pairs them under `mutants`.

### Bounds

Two callers are enough for every race found in the code: each is between two
steps of one caller and the steps of one other. One key suffices where keys do
not interact; batches, scans, pages, gc and transactions have two or three. In
`RecordTopology` identifier 1 is a fallback's old value, so `MaxId` 3 gives two
writes: a value and one that replaces or races it; in `CallerCommit` it gives
three. `MaxFails`/`MaxFaults`/`MaxCrashes` 1 lets any one call fail.
`MaxChanges` 2 with two attempts lets a call lose every round. Times run to 2
(SQL: 1) with TTLs of 1 and 2, so that an entry is seen before, at and after its
end. `GcLimit` 1 with two keys makes the limit bind; `PageSize` 1 or 2 with two
or three keys makes pages end before, at and after the last key; `FillArgs` has
a page of one under a large limit and a page of two. `MaxCalls` 1 per client in
`mc_upkeep` gives each operation against one set or delete, from three initial
contents. `mc_sql` couples connection, `ExpiryGc`, binding and legacy rows to
six setups instead of their product. Keys are symmetric in `mc_object`, callers
in the runs of `RecordTopology`; no liveness property is checked with symmetry.
`CHECK_DEADLOCK FALSE` is used where behaviours end because all calls have
returned or a bound is reached.

### Fairness

`BatchUpdate` assumes weak fairness of each call's own steps: a thread in
`batch_update` is scheduled and the medium answers (a request that fails raises,
which ends the call). `ScanRows` assumes weak fairness of the scan's own steps:
its generator is pulled. Nothing is assumed of other writers. The other modules
state safety only and assume none.

## 4. Where the code and its texts part

Two runs show a statement of the repository violated, each with a finding in
`PROJECT.json`:

| Run | Statement | What happens |
|---|---|---|
| `bad_gc_hides` | "`gc_expired` always deletes expired entries it finds, regardless of this setting" (`store/schema/ttl.py:19`; README, line 147) | with `HIDE`, `batch_delete` of an object store asks `batch_exists` first, which hides them: nothing is deleted, and gc reports the keys |
| `bad_scan_limit` | "Push LIMIT only when nothing is left to filter client-side" (`backends/sql/store.py:892`) | the keyset path pushes it under a filter; the scan ends short of its limit with matches left |

The following were met while modelling; the properties are stated so as to
leave them out, and say so. Compositions:

* README, line 496: "deleting the record removes it all". A reader that missed
  the cache before the delete fills it afterwards; the fill is conditional on
  the cache's entry being absent, which the delete has just made true.
* `topology.py:968`: components of a losing insert "are orphans until GC".
  `set_if_absent` on a record that exists replaces its body, then is refused.
* `topology.py:204`: "a reader following the authority never finds a part
  missing". A concurrent set and delete of one record can leave a row without
  its body; within one transaction a delete followed by a set does, at the
  flush, which takes the new body (`:255` speaks of rollbacks only). README,
  line 340, says a reader "always finds what it refers to": a delete between
  its two reads is the exception, so `ReaderFindsParts` asks that the row found
  is still there when the read returns.
* `exceptions.py:116` calls the data left by an `UncommittedWriteError`
  "unreferenced", and README, line 545, says "roll back and the record is as it
  was". Where the record existed, components were replaced in place.
* `Topology.delete`: "never stops early". `_settle` raises for a required
  target, and the loop of `_remove` ends there.
* `write_stream` (`topology.py:1044`): "The targets still converge on the same
  bytes". Not if one stream re-reads the authority before the other commits and
  feeds a dependent after the other did.
* `topology.py:1444`: a stale cache "cannot write a record back into the
  authority". `_fill_stream` fills cache and then authority, each from a re-read
  of the one before: a set and delete by another caller in between can pass
  through the cache into the authority.
* `Topology.deferred` (`topology.py:853`) asks only whether some target the record
  is committed to joins the transaction. With a body that joins it and
  an authority that is durable at once, a rollback leaves a row without its body:
  the proofs about bodies and dependents suppose that the authority joins.
* `fill_missing` counts a copy refused because of a hidden expired entry as a
  lost race, and gives a copy a fresh life if the source's stat is gone when it
  is read.

Leaves:

* S3's version is an ETag, a digest: an update cannot tell that a value was
  replaced and put back. `UpdateReplacesWhatItSaw` asks for the same content.
* A clock without a TTL of its own is dropped by the sources that store an
  explicit expiry only (S3 `Expires`, Azure metadata, where the object's time is
  the service's): `ExpiresAsAsked` leaves such writes out (`exact`).
* Two writers of one key share the temporary file of `_write_atomic`, as do two
  streams of one process: a torn value can be put in place, against README,
  line 642, "a partial value is never visible". A sidecar left by a dead writer
  dates the next value until the call that writes it is through, so a read in
  between may delete it. `FilesBelongTogether` speaks of a key at rest,
  `ReadDeletesOnlyTheExpired` of reads no change of the key has raced.
* Keys whose names end in `.tmp` or `.expires` collide with the files of others.
* A sibling view with a TTL deletes, lazily, rows whose owner has none.
* The early-binding check of the SQL backend sets its flag before it looks, so it
  refuses the first call only.
* Redis: a crash between SET and EXPIREAT leaves an entry that never expires;
  `stat` reports an entry that goes between EXISTS and PTTL as persistent.

Scans:

* Cursors: the object leaf ignores them, `imap_keys` passes the caller's key
  untranslated, each part of a union starts at them, and the default path loses
  its place if the row named is gone. `CursorHolds` says where they work.
* Redis SCAN may return a key twice; the cascade then fails on its second
  lookup if both are pending.
* SQLite's LIKE ignores case, and the prefix is not checked again.
* Stat predicates see no stat through a mapped view when only keys are asked
  for, and select nothing (their negations everything).

## 5. Proofs

`RecordTopology_proofs`, for every topology that satisfies the checks the code
makes (`PlacementAssumption`, `DeclarationAssumption`), every number of callers
and keys, and any operations they run:

* `TypeCorrect`: `Spec => []TypeOK`.
* `StaysOnCourse`: `Spec => []OnCourse`, the inductive invariant.
  `CommitBeforeDerive` is not inductive: a dependent is written from what a
  caller carries. `OnCourse` adds what callers carry: past the commit point a
  committed value, in a fill a committed value or a fallback's, in a fill of the
  authority a fallback's; that a write with components left has the authority
  left too; and that no one is about to write a fallback.
* `CommitsBeforeDeriving` and `AuthorityKeepsLastCommit` follow from it.
* `StaysTold`: `Spec => []Told`, a second inductive invariant, which stands on the
  first. A set's outcome speaks of the past, so what is kept is where its value
  has been: each write has a value of its own (`ValuesApart`); until its commit
  point (`Pending`) that value is in no key's history, and a set that returned or
  failed after it has put it into the history of all its keys. `InPhase` relates
  what a call is doing to the operation it began.
* `OutcomesTellTheCommit`: `~ PartialCalls /\ Spec => []OutcomeTellsTheCommit`
  (law 8). A call that raised and yet took effect may have committed; without
  that no exception can tell, so the theorem is about media whose failed calls
  did nothing.
* `StaysInTurn`: `Exclusive /\ Spec => []InTurn`, the third, about callers that
  take turns to change a key (section 4 has what happens when they do not). A
  caller owns the keys it is changing (`Owns`), so the rest can be said of what
  the media hold now: a set has its value, a delete nothing, in every target it
  has visited (`Reaches`); the components a write is past are there, and before a
  delete takes a component away the entry that refers to it is gone (`Refers`); a
  reader by parts has found the parts of the entry it found, if that is still the
  one there (`Finds`). Readers do not take turns. Their fills leave all this
  alone because they only add where nothing is, and because a record that is
  filled is not read by parts; readers by parts bear others' writes because a new
  entry's value is never one that was read before (`Told`).
* `ReferentsAreThere` (law 2) and `CallsReachAll` (law 6) follow, for any failures
  with or without partial effects and any crashes.

`StoreCalls_proofs`, of `BatchUpdate`, for every set of calls, keys, values, decisions and any
number of attempts:

* `TypeCorrect`, and `Invariance`: `Spec => []IInv`. The heart of `IInv` is
  `SeenAgrees`: while the entry has the version a call saw, what the call saw is
  what the entry holds, or held before it expired. It needs that a write gives
  the entry a version above all seen (`VersionsAgree`); `RoundsCounted` says
  that a key still pending after a round cost that round a change.
* `ConflictsAreEarned`: `Spec => []ConflictMeansContention`.
* `UpdateRefinesAtomic`: `Spec => UpdateIsAtomic`. A kept key is settled when it
  is read, a changed one when its conditional write goes through, and ending
  with keys pending gives them up.

`StoreCalls_proofs`, of scans, for all keys, values, leaves, views, contents, specs,
page sizes and limits, any number of writes by others and of pages asked for. The
one hypothesis, `Filtering`, says that the functions of `scan.py` are their bodies
(`Evaluate(p, row) = EvaluateOf(p, row)` and so on) and that the filters of the
specs are predicates built of atoms, `And`, `Or` and `Not`, to any depth. The
configurations satisfy both. `ScanInvariants` defines the invariants below.

* `FilteringSplitsAlike`: `ScanSpec => []SplitsAlike`. By induction over the depth of
  a filter, over a set of depths (`NatSetInduction`, from the minimum of a
  well-founded order): for each function what it keeps of a filter is shown for
  atoms and for each connective.
* `FilteringReturnsOnlyMatches`: `ScanSpec => []ReturnsOnlyMatches`. The inductive
  invariant `RowInv` says of each row, wherever it is between the leaf's page and
  the caller, what it shows: a row of a steady record shows what the record holds
  (its stat where a stat reaches the cascade, its value or none), a row that waits
  has passed what was asked before it, and a row that carries a value is judged by
  that value. `Meant` ties the plan to the spec, so that what was asked of the leaf,
  of the view and of the cascade together is the filter.
* `ScanListsOnce`: `ScanSpec => []ListsOnce`, without `Filtering`. That no key is
  returned twice says nothing of the rows on their way, so the inductive invariant
  `FlowInv` is about all the keys a scan holds, in the order they will come out
  (`Flow`: returned, waiting for values, in the cascade, in a page to be confirmed,
  on the leaf's page). Each step moves a key along, drops keys, or adds keys at the
  end (`FlushMoves`, `TakeMoves`, `YieldMoves`, `BringMoves`, `ListMoves`,
  `FetchMoves`), and what a fetch adds lies beyond all the scan holds in the leaf's
  order; so positions rise along `Flow` (`Ordered`), over a record's parts each key
  is kept once, and on a later page all lies after the cursor, which is at or after
  what the earlier pages returned (`Paged`).
* `FilteringPassesOverNothing`: `ScanSpec => []PassesOverNothing`. `AcctInv`, with
  `RowInv` and `FlowInv`, says where each steady match is (`Accounted`): returned by
  an earlier page (`Listed`); in `Flow`, with only what comes before it ahead of it
  (`Leading`); or not listed yet (`Unreached`), or cut off by a limit that what was
  listed reaches (`Stopped`), with all of `Flow` before it. A fetch misses nothing
  that is to be listed, and what a step drops is no match. Two further parts are
  needed: a limit pushed down counts rows that all reach the caller, since it goes
  down only where nothing is filtered (`Counted`), and on a resumed scan the matches
  up to the cursor were returned before, while the cursor's row, if nobody wrote it,
  is still there and the listing comes to it (`Cursored`). A scan is done when its
  limit is reached or nothing is left (`Finished`): so each match was returned, or
  all that was returned comes before it and reaches the limit.
* `FilteringDeletesTheMatches`: `ScanSpec => DeletesTheMatches`. What `delete_where`
  takes is the keys it listed (`DeleteTakes`), under the caller's names or the
  store's, in one part or in all; those are matches by `RowInv`, and all the matches
  by `AcctInv`.

`CallerCommit_proofs`, for every composition, set of joining targets
(`CommitAssumption`: some target the record is committed to joins), number of
keys, operations and failures. Its common ground is `Course`: where in its order
an operation stands, and that a queue is being flushed only while it holds
something.

* `DerivesOnlyFromCommits`: `Spec => []DerivedOnlyFromCommits`. The invariant
  `Traced` adds the queue and the transaction's own view: what waits is a value
  this transaction gave the record, or, in a flush, a committed one.
* `BodyKept`: `Spec => []CommittedRecordKeepsItsBody`, if the authority joins the
  transaction. `Bodies` states it of the disk and of the transaction's view, with
  the order in which an operation reaches body and row, and of the queue: a body
  whose removal waits has no row left that will be committed.
* `StaysInStep`: `Spec => []InStep`, under the same hypothesis. `InStepByNow`
  compares a dependent with the authority through what is still queued or still
  to be visited: the last item waiting for it says what it will hold.

`LeafEntries_proofs`, for any keys, bodies, clients, TTLs, clocks and operations
(`LeafAssumption`): `TellsWhatIsKeptAlways`, `AlwaysSwapsWhatItSaw`,
`AlwaysCollectsOnlyTheExpired`. The invariant says of each call what it knows of
the store at its step if nobody raced it (`Knows`), of each write begun what it
will store (`WriteOf`), of each entry that it is as its write asked or torn
(`StoredOf`), and that two calls never write under one identifier (`OwnIds`).

`ObjectStore_proofs`, for every provision, any keys, bodies, TTLs, clocks, gc
limit and number of clients (`ObjectAssumption`): `Holds` is the inductive
invariant, from which follow `AlwaysKeptAsAsked`, `NeverAnswersTheExpired`,
`GcAlwaysRemovesWhatItReports`, `AlwaysCollectsOnlyTheExpired` and
`UpdateAlwaysReplacesWhatItSaw`. It is a statement about the objects (each
expires, by the medium's own data, at the moment its writer asked) and about each
call by itself (`CallOK`: what the answers to its earlier requests still mean).
A call's part is stable under whatever others do (`StaysOK`): objects are only
replaced by newer ones or removed, and what is dead stays dead. So each action
needs a proof for its own call only.

`FileDriver_proofs`, for any keys, threads, processes, writes and deaths
(`FileAssumption`; `NamesAssumption`: no key has the name of another's sidecar or
temporary file, section 4): `Holds`, and from it `AlwaysOnlyWholeValues`,
`AlwaysInOrder`, `ReadersAlwaysDeleteTheExpired`, `InsertsAlwaysDated`. That a
value is whole is not inductive: a writer writes into the file its handle leads
to, whatever the name leads to by now. So `Inv` gives every file to one key, as
data or as sidecar (`Belongs`), and says per key which files the temporary names
and handles lead to and what is in them (`KeyInv`): no file has two names,
two writers with one temporary file are noted in `shared`, and otherwise the file
is as far as its writer is. `Halfway` and `Clean` do the same for the data file,
its time and its sidecar, and start afresh at the replace, link or unlink of a
call that is alone with the key (`Alone`, `Mended`). `Dated` adds that an insert
has its time before it has its name. A key's part is untouched by the calls on other keys
(`Frame`).

`SqlTable_proofs`, for any keys, views, clients, connections, TTLs, clocks, page
size and limit (`SqlAssumption`): `Holding` is the inductive invariant;
`AlwaysListsTheSteady`, `UpdateAlwaysReplacesWhatItSaw` and
`SiblingsAlwaysKeepTheirs` follow for every setup, `AlwaysJudgedAsAsked` and
`AlwaysTakesOnlyItsOwn` for views that agree on their TTL (`Agree`; section 4 has
what happens otherwise). `Stands` says where a call of each kind and view may be:
only the owner of the rows is ever at a statement that creates or deletes them.
`Found` and `Listed` say what a call knows of the rows it works on, those of its
transaction or the committed ones, but for rows others wrote: what it is about to
delete has run out, and a row that was there when the scan began is listed, has
run out or lies beyond the cursor. Another connection's commit is noted in
`raced`, so each call's part survives it (`StaysKnown`).

`Upkeep_proofs`, for any number of targets of which one is the authority, with any
lookups, fills and required dependents, and any keys, callers, operations, initial
contents, TTL, page sizes and limits (`UpkeepAssumption`: the record is whole, has a
dependent, and at first an id has one clock wherever a fallback's value is):
`Invariance`, and from it `TypeCorrectness`, `CallsReach`, `ReadFinds`, `CopiesTrue`
and `NothingIsUndone`, all four properties of the run. Each call's part of the
invariant (`Knows`) is a statement about the targets as they are now, but for keys
in `raced`: which targets have what it writes and which have lost what it removes
(`Writing`, `Grouping`), who forgot and who collected (`Collecting`), that the
source of a streamed read still holds what was found and each filled target holds
the same (`Reading`), and of `fill_missing` (`Filling`) what it has counted, what of
its page is still there, and for each key owed that the authority has it or it is
still to come: on a later fallback, a later page, or this page (`Owed`, `ToCome`).
The last is the heart of `CopiesTrue`, and needs that the fallbacks stand in a
strict order (`BeforeOrders`) and that a page holds the least keys beyond its start
(`PageIsFirst`). Another caller's step only adds to `raced`, and the part survives
it (`StillKnows`). What is written to a target is either a fresh id, which no
fallback has (`Fresh`), or a fallback's value under the clock it was found with
(`FoundOld`): so copies keep their life.

These inductive invariants were first checked by TLC on the runs' instances.

Only model-checked: liveness (`EveryCallEnds`, `ScanEnds`), which is beyond the
prover. The properties of `MCShapes` are instances, at its compositions, of
`CommitsBeforeDeriving`, `AuthorityKeepsLastCommit` and `ReferentsAreThere`.

## 6. Not modelled

* Index backends: ranking and similarity (arithmetic on floats), and hydration of
  results. What an index holds of a record is a dependent.
* Serialisation, compression, chunking of streams: conversions of payloads, which
  the models keep opaque.
* Key codecs, layouts, binding and scopes: construction of strings, no state. The
  one place where names meet, the files beside a data file, is in `FileDriver`.
* Declarations of capabilities and descriptions: no state.
* Typed assembly of zipped records: data.
* SQL statements over many rows, adapters other than SQLite, and the services and
  databases themselves, which are modelled by what the code relies on.
* Several topologies nested: a child is a target of its parent, with the child's
  own guarantees in place of a single step.

## 7. Plan

Done: all components of section 1 but those of section 6, with a theorem for every
safety property. Next: what a set that raised `PartialSyncError` leaves, target by
target.
