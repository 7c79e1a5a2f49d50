# Formal models of iceberg-db

This directory holds TLA+ models of `iceberg-db-rs`: what its transactions, catalogs,
scans and readers do, the properties that make them correct, the instances on which
TLC checks them, and theorems that TLAPS proves for every instance. Paths below are
relative to `src/iceberg-db-rs/`; `ICE` stands for `patches/iceberg-0.9.1/src/`.

Contents: 1 the system and its hazards; 2 modules and their correspondence to the
code; 3 runs, bounds and fairness; 4 proofs; 5 disagreements between the code and what
is said of it; 6 what is not modelled; 7 plan; 8 running everything.

## 1. The system

iceberg-db answers SQL queries over Iceberg tables, natively (`idb-cli`) and in the
browser (`idb-wasm`). Its own crates open catalogs and sessions; everything that has a
protocol in it is in the patched copy of the `iceberg` crate, which the application
also uses to write (demo data) and which the browser build runs on one thread.

```
  app.js -> idb-wasm --+
  idb-cli -> idb-core -+-> idb-sql (DataFusion session)
                             |  load_table          | plan_files, read
                             v                      v
        Memory catalog  /  REST catalog        TableScan -> ArrowReader
             |     ^                               |            |
             |     | update_table (commit)         | manifests  | data and delete files
             v     |                               v            v
          metadata files <- Transaction -> manifests and lists (FileIO, storage)
             ^
             +-- Java's HadoopCatalog writes the same directories
```

| Component | State | Operations | Where it is hard | What makes it correct |
|---|---|---|---|---|
| Table metadata (`ICE/spec/table_metadata*.rs`) | snapshots, main, references, log, sequence number, row id, schemas, specs, sort orders, properties | `TableUpdate::apply`, `TableRequirement::check`, the calls of the builder, `build` | intermediate and expired snapshots, ids of what was removed, `-1` for what was added last, format versions | one line of snapshots, disjoint row ids, an id never changes its meaning, recorded changes rebuild the table |
| Transactions (`ICE/transaction/`) | actions, the table they were evaluated on, collected updates and requirements | `commit`, `do_commit`, fast append, sort order, properties | optimistic retries, failures, cancellation, lost answers, drop and re-creation | atomic, in some order; nothing lost, duplicated or half visible; every commit ends |
| Memory catalog (`ICE/catalog/memory/`) | tree of namespaces, table name -> metadata file, one mutex held across awaits | create, drop, rename, register, update | halves of a call separated by storage, dropped futures | calls look atomic; entries can be opened |
| Local warehouse (`idb-catalog`: `hadoop.rs`, `lib.rs`) | a fresh catalog per process over a directory | open (list, hint, fallback, register), serve, end | Java writes meanwhile; crashes | opens a current version; a table has one writer |
| Scan planning (`ICE/scan/`, `delete_file_index.rs`) | three tasks, three bounded channels, the delete index | `plan_files`, processing of entries | back-pressure, errors of one of many tasks, notifications | complete or an error; each task with its deletes; it ends |
| Delete loading (`ICE/arrow/`: `delete_filter.rs`, `caching_delete_file_loader.rs`, `reader.rs`) | shared filter: delete file -> state, delete vectors | start load, wait for the owner, merge, wait for a predicate | concurrent loaders of shared files, failing owners | exactly the deletes of the task are applied; each file loaded once; it ends |
| Row selection, record batches (`ICE/arrow/reader.rs`) | none | delete vector + row groups + pages -> runs of rows | off-by-one at borders | selected = live and not deleted |
| Pruning (`ICE/expr/`), transforms (`ICE/transform/`) | none | evaluators, projections | missing bounds, NaN, negative values | inclusive never prunes a match |
| Column projection (`ICE/arrow/reader.rs`, `record_batch_transformer.rs`) | schema, file, batch | projection mask, transformation of a batch | renames, moves, defaults, files without ids | a column read is the field asked for |
| Writers (`ICE/writer/`) | open writer, closed partitions, output | write, roll, close | a failed close in between | each row once, in its partition |
| Session and browser (`idb-sql`, `idb-wasm`, `web-wasm/app.js`) | session set once, frozen names, page flags | connect, query | overlapping promises, reconnect, tables that change | a query sees tables as of its load; the page is usable when the engine is |
| REST catalog (`idb-catalog/src/rest_vended.rs`, `snowflake_auth.rs`) | configuration, HTTP client | token exchange, load, list pages | expiry, several credentials | credentials that fit the table loaded |
| Registry, configuration, CLI, proxy, storage, manifests, views, Puffin | see PROJECT.json | | | |

`PROJECT.json` lists every component with its status, and under `hazards` each thing
that is hard to test, with its line and the properties that would catch it.

## 2. Modules

| Module | Models | Extends / instantiates |
|---|---|---|
| `TableMetadata` | the fields, updates and requirements that the actions of a transaction emit; `build()` | |
| `Transaction` | `Transaction::commit` of several writers against one table of a catalog | `TableMetadata` |
| `AtomicTable` | what a transaction promises | |
| `TransactionRefinement` | the mapping of the one to the other | `Transaction`, `AtomicTable` |
| `TransactionProofs` | theorems about `Transaction`: the commit, the history it makes, what success and failure leave behind; that it implements `AtomicTable` | `TransactionRefinement` |
| `MetadataBuilder` | `TableMetadataBuilder`: schemas, specs, orders, snapshots, references | |
| `MetadataBuilderProofs` | theorems about `MetadataBuilder` | `MetadataBuilder` |
| `MemoryCatalog` | namespaces, entries, the mutex, and every call that changes them | |
| `Warehouse` | opening a directory that Java writes to, serving, ending | `MemoryCatalog`, `AtomicCatalog` |
| `AtomicCatalog` | what a catalog promises its callers | |
| `WarehouseProofs` | theorems about `Warehouse` | `Warehouse` |
| `Channel` | `futures::channel::mpsc`, bounded | |
| `DeleteFileIndex` | which deletes apply to a data file | |
| `ScanPlan` | `TableScan::plan_files` with its tasks and its caller | `Channel`, `DeleteFileIndex` |
| `ScanPlanProofs` | theorems about `ScanPlan` | `ScanPlan` |
| `DeleteLoading` | `ArrowReader::read`: futures, loaders, the shared filter | |
| `DeleteLoadingProofs` | theorems about `DeleteLoading` | `DeleteLoading` |
| `Datums` | values of a column: numbers, NaN, strings, NULL, and their order | |
| `Transforms` | partition transforms, inclusive and strict projection of one leaf | `Datums` |
| `Predicates` | negation rewriting, binding, projecting, visiting a predicate | `Transforms` |
| `Metrics` | what is true of rows, and the evaluators of it: inclusive and strict metrics, row group, page, partition summary | `Datums` |
| `DeleteVector` | the delete vector, its iterator and `advance_to` | `Datums` |
| `PositionDeletes` | the pass that merges a delete vector into the row selection | `DeleteVector` |
| `FileRead` | one file read, from its manifest to its rows, for any verdicts on the filter | `PositionDeletes` |
| `FilteredRead` | the verdicts: what the code's evaluators make of a filter | `FileRead`, `Predicates`, `Metrics` |
| `ReadProofs` | theorems about a read and about the evaluators | `FileRead`, `Metrics`, `Transforms` |
| `ColumnProjection` | a file read under a schema that has evolved since | |
| `ColumnProjectionProofs` | theorems about `ColumnProjection` | `ColumnProjection` |
| `Writers` | rolling writers under the clustered, fanout and unpartitioned writer | |
| `WritersProofs` | theorems about `Writers` | `Writers` |
| `MC...` | instances for TLC | |

### Transaction

A writer is a task that runs `Transaction::commit` (`ICE/transaction/mod.rs`). Its
program counter follows `do_commit`: *load* the table (`LoadTable`; `Rebase` replaces
the base only if it changed), *act* (`RunAction`, one step per action: a fast append
reads the manifests of the table for duplicates, writes its manifest and list, and
collects its updates and requirements, which are applied to the working copy at once),
*update* (`UpdateTable` takes the catalog's mutex and checks every collected
requirement against the table that is there then), *merge* (`ApplyUpdates`, one commit
at a time), and `WriteMetadata`, where the file is written and the pointer flips, or the
write fails. A failed check is retryable, up to `NumRetries` reloads. At every await the
future may be dropped (`Cancel`); the answer may be lost, after which the application
may submit the transaction again (`Resubmit`); the table may be dropped and created
again (`DropTable`, `CreateTable`).

A manifest is the set of its data files with the sequence number and first row id it is
given; a manifest list is a set of manifests; names made from uuids are pairs of writer
and serial number. An append sets no snapshot properties, so one without files is always
refused; in the code one that sets some is taken. A sort order is its fields; the
requirement about it compares values where the code compares ids. Snapshot ids are
random in the code; a step may pick any that the working copy does not know.

`AtomicTable` is a list of appends, a sort order and properties; a transaction takes
effect in one step or is refused. `TransactionRefinement` maps the snapshot log to that
list.

### MetadataBuilder

An application loads the table, makes a builder of its metadata (`Begin`), calls it
(`Call...`, one action per method, each a `TableUpdate` that `Apply` dispatches as
`TableUpdate::apply` does), and commits (`Commit`: `build`, and the result is published,
or the build fails and nothing is). A method is an operator from a builder and an update
to the next builder, or to `None` where the code returns an error - the builder is
consumed by the call, so an error ends the commit. `Build` is the whole of `build`: the
checks of the default spec and order against the schema that is now current, the
rewriting of the snapshot log without intermediate and removed snapshots,
`try_normalize` and the validation.

Abstractions: columns have one primitive type, so that every transform fits every
column; the time is the number of the version under construction, so clocks do not run
backwards; references have no retention settings, so two that differ only in these are
the same; location, properties, statistics, encryption keys, row ids and the metadata
log are left out; format versions 1 and 2. A caller gives a new column the id after
`last-column-id`, a partition field no id or one the table has once issued for that
field, and a snapshot a random id that was never used.

### MemoryCatalog and Warehouse

A client asks (`Ask`), waits for the mutex, and is served. Calls that touch no storage
are one step. The others are cut where the code awaits storage with the guard in its
hand: `create_table` = locate, write, insert; `drop_table` = remove, delete the metadata
file; `register_table` = insert, read; `update_table` = lock, read the current metadata,
write the next and flip. `Fail` ends a call at any of these points: the storage failed,
a requirement did not hold, or the future was dropped; what it did stays done, and the
mutex is free because its guard is. `FailAfterWrite` is the case where the write has
reached the storage. The catalog is modelled for any storage; with the local file
system the futures happen not to yield. Loads, lists and existence checks change
nothing and are not actions. What `update_table` does to the metadata is `Transaction`'s.

A metadata file is a record of the table it belongs to, its version and the kind of its
name: `v<n>` in the directory of an identifier, or `<n>-<uuid>`, which is the only kind
`MetadataLocation::from_str` can name a successor of. `Warehouse` adds the directory.
Java (external, modelled from what `hadoop.rs` expects of it) commits versions, then
replaces the hint, which is missing for a moment or for longer; it drops a table with
its directory. A process lists the directory, and for each table in any order reads the
hint, resolves the metadata file (the hinted version if the file is there, the latest
otherwise, nothing if there is none) and registers it, all in separate steps; `Close` is
the end of the process at any time. The listing is taken at one moment; namespaces are
created for all directories there are, with a table or not. `drop_table` of a table
Java wrote deletes the file the entry names. Java's drop removes the directory; in the
model only its `v<n>` files, so that what the catalog wrote beside them stays, under
names that no opening looks at.

`AtomicCatalog` says that a call takes effect in one step between request and answer,
and that an error means it had no effect, except for `drop_table` and `register_table`,
whose second half may fail after the first has taken effect.

### ScanPlan

The loader streams the entries of manifests, delete manifests first, into the channel
of data or of delete entries; one task per delete entry feeds the index; `plan_files`
returns once these are done; one task per data entry waits for the index and sends a
file scan task to the caller. Each spawned task with its error path, the clones of the
senders, the limits on concurrency and both wake-up mechanisms are explicit, because
every property depends on them. A scan record says how many threads the runtime has:
on one thread nothing runs between two awaits, so reading the index's state and
beginning to wait for its change are one step; on several threads they are two.

A task that lacks its deletes may be delivered *before* the error about them when there
are several threads; `TasksKnowTheirDeletes` is therefore stated for one thread, and
`CompleteOrError` for both.

`EveryScanEnds` is what one would like to promise. It fails on several threads for the
notification of the index, and on one thread for a task that has to report an error
while nobody reads errors. `ScansEndUnlessBlocked` says that this is
the only thing in the way: on one thread a scan ends, or `plan_files` waits for ever
for a deleter whose error is in a channel that already holds more than its limit.

A delete applies by the sequence numbers of manifest entries; ones without a number,
which the code lets apply, do not occur.

### DeleteLoading

Each task's future spawns a loader for the delete files it lists. In the shared filter a
position delete file is absent, loading or loaded, and the first loader to ask owns it;
others wait for the owner. Equality deletes are parsed by their owner into a oneshot
channel that a task of the filter empties into the map of predicates (`StorePredicate`);
readers wait for the predicates they need. Parsing and finishing are separate steps even
on one thread, since the code awaits between them; looking up a state and beginning to
wait for its notifier are separate on several threads only. The owner sets the state
and notifies without an await in between: one step, since whoever looks in between finds
the state set.

### FileRead and FilteredRead, with PositionDeletes, DeleteVector, Predicates, Metrics, Transforms, Datums

A behaviour is one file read under one filter. Its *scenario* says what the file holds
(rows, row groups, pages, the partition transform, the rows deleted by position and by
value), what is known of it (any statistics that are *true*: each count may be missing,
each bound may be missing or any value that bounds the rows) and what is asked (a filter
and a byte range). The steps follow planning and reading: `EvalManifest` (projection of
the filter, partition summary), `EvalPartition`, `EvalMetrics`, `SelectByteRange`,
`SelectRowGroup`, `SkipPages` and `SelectPage`, the merge of the delete vector into a
row selection (module `PositionDeletes`, below), and `Decode` with the row filter. Which
statistics a file has is a choice at each evaluator: what the properties say holds for
all of them.

`FileRead` has the steps and their state: the row groups selected, the row selection of
the page index, that of the deletes, and the rows returned. What is made of the filter
at each step is a constant of it (`ManifestMight`, `PartitionMight`, `FileOutcomes`,
`GroupOutcomes`, `PageOutcomes`, `RowPasses`, and `Asked`, what the user meant), so the
module needs no predicates and can be proved about. `FilteredRead` defines the code's
evaluators, and `MCFilteredRead*.cfg` give them to those constants. What the steps need
of them is `VerdictsKeep` (nothing that holds a row of the answer is rejected) and
`NoDeletedValuePasses`: the hypotheses of the theorems, and part of `EvaluatorsAreSound`,
which the run `filtered_read` checks of the code's evaluators.

`PositionDeletes` is `build_deletes_row_selection` (`ICE/arrow/reader.rs:639`), a module
of its own so that it can be proved about: `StartDeletes` takes the first position from
the iterator, `SkipGroup` passes a row group that is not read, `DeleteInGroup` selects
around the deletes of one that is, and `DeletesApplied` ends the pass. Its state is that
of the code: the iterator, the position cached ahead of it, the count of rows passed
(`deletes.base`) and the selection so far. `DeletesSpec` is the pass in any reader that
does what `BeforeDeletes` and `AfterDeletes` allow; that `FileRead` is such a reader is
the property `DeletesAreMerged`, checked and proved, and both begin with `DeletesInit`.

A predicate is `And`, `Or`, `Not` over leaves; `RewriteNot` and `Bind` are the code's
(`Bind` folds `isNull` of a required column, the empty and the one-element `IN`, and
literals beyond the type), and `Visit` evaluates it in three values with the leaf
operation of each evaluator. The reference is `SqlTrue`, the meaning of the predicate as
the user wrote it. A string is a sequence of characters; `WideChars`, those of several
bytes, is empty in the runs. A calendar has seconds of `TicksPerSecond`, years of twelve
months of equal length, and an epoch with times before it; `DayOfTimestamp` and `MonthOf`
are the code's formulas on it, on either side of the epoch. The hash of `bucket` is an
arbitrary function.

### ColumnProjection

The table evolves by the rules of the format (add with or without a default, drop,
rename, move, promote, make optional); at some moment a file is written with the columns
of that moment, with field ids or without; at any later one it is read with any
selection of columns in any order. The data of a column is named by the id it was
written for, so that the properties can tell whose data is returned.
`ProjectionMask` is the reader's, and `Transform` the transformer's, with the comparison
of schemas by position (`CompareSchemas`) that decides which way a batch takes:
`PassThrough` leaves it as it came, names and types included, `ModifySchema` puts its
columns under the names of the target, and `Modify` makes each column of the target from
the one with its id, by promotion, from a default or a partition, or as NULL.

`DataOf` is the data that the format says a field has in the file. `ReadsByFieldId` asks
that every column read holds it, which the code does not do; `ReadsById` asks it of the
columns that are asked for in the order of the file (`InFileOrder`) and of those the
comparison cannot confuse (`TwinsOf`). What is asked for must include a column of the
file for its order to count: without one the mask takes all columns of the file, and
these pass through for the columns that it lacks, if types and nullability agree.

### Writers

A batch goes to a rolling writer, of its partition or the only one. Opening, writing and
closing a file may each fail; the caller may stop or go on with the next batch, which is
where the order of "take the writer out", "close it" and "record the partition" matters.
The steps of a call that cannot be interleaved are composed (`Then`) into the set of its
possible outcomes. A file's size is counted in batches.

## 3. Runs

TLC explores every interleaving of every instance.

| Run | Instance | Distinct states | What it shows |
|---|---|---|---|
| `transaction_faults` | 2 writers, 2 submissions each, 1 retry, failing writes, lost answers, cancellation, timeouts, drop and re-creation | 301,828 | metadata is readable, history linear, no file twice, no commit lost, an error means no trace, requirements hold when the pointer flips; implements `AtomicTable`; every commit returns, the resubmitted ones too |
| `transaction_mixed` | 3 transactions of 2-3 actions, format version 3 | 3,383 | disjoint row ids, and with 2 retries all three get in |
| `metadata_builder` | 6 sessions: columns and partitions in each format, sort orders, snapshots and references, retention; up to 4 changes in a builder, up to 4 versions | 510,329 | recorded changes rebuild what was built; ids keep their meaning; the snapshot log answers time travel to versions with a current snapshot |
| `scan_plan` | two lists, each with every single fault, on one and several threads, limits 1 and 2; every two faults, on one thread with limits 1 | 149,187 | complete or an error, bounded queues, deletes known, ends on one thread unless errors block it |
| `scan_wakeup` | a sound scan on several threads | | violated: see 5 |
| `delete_loading` | 3 tasks with 2 position and 2 equality deletes in common, one unreadable file or none, limits 1-3 | 62,983 | exactly the listed deletes, one owner, no missing predicate, ends on one thread |
| `warehouse` | 2 clients, a namespace inside another with a table of the same name in each, 1 Java directory, 4 calls or openings, 3 metadata files | 877,683 | calls look atomic, entries stay readable, opened versions are current, one writer per table |
| `filtered_read` | 22,577 scenarios | 221,542 | no row lost, no deleted row back, no evaluator says more than the rows bear out, the merge ends and no read goes round it |
| `filtered_read_nulls` | equality deletes of values over rows with NULL | | violated: see 5 |
| `columns` | up to 3 columns, the first and the third of one type, 1 rename or move, every selection | 3,092,880 | columns asked for in order or without a twin are read by id; batches have the schema, whichever way they take |
| `columns_swapped` | the same with columns of one type, any selection | | violated: see 5 |
| `writers` | 3 partitions, 6 batches, 3 faults, files of 2 batches | 302,123 | rows once, in their partition, or the loss was reported; refusals and panics only where they belong |

**Bounds.** `NumRetries`, `MaxSubmits`, `MaxTables`: a conflict needs two writers and a
reload; a duplicate by resubmission needs two submissions; confusion of two tables of a
name needs two tables. Three writers with two retries (`transaction_mixed`) is the
smallest instance in which a writer is refused twice. What involves more writers or
longer histories is proved (section 4). `MaxCalls`, `MaxFiles`: a failed rename, a drop
between two halves, or a reopening after a Java commit need at most four calls and three
files: a table, its next version, and one file written by the catalog. `Scans`: two data
manifests before a delete manifest fill a channel of limit 1 or 2; an error needs one
fault, and a channel of limit 1, the default on one processor (`ICE/utils.rs:23`), is
full after one error, so two faults make a task wait to report. `Reads`: three tasks
make one owner, one waiter and one bystander. Limits above the number of entries behave
as no limit. `Sessions`: a field id can change its meaning only after a spec was removed
and another added (three versions), and a log that is rewritten wrongly shows only once
a removed snapshot lies between kept ones (four versions of three calls); that one
commit moves main twice takes four calls. The kinds of calls are split into sessions
because they do not touch the same fields, except for schemas, which every session about
specs or orders includes. `Scenarios`: the evaluators look at the least and the greatest
value and at counts of NULL and NaN, for which two rows are enough; positions go wrong
at borders of groups and pages, for which six rows in three groups, with all sets of
deletes and both byte ranges, are. `MaxId`, `MaxRenames`: two columns swap with one
move; a name is taken over by a new column after one rename or drop. `MaxBatches`,
`MaxFaults`: a partition comes back after another was closed and failed (four batches,
one fault), and does so a second time.

**Symmetry** is used in safety runs only: of snapshot ids, of column names, of
partitions and of the catalog's clients, none of which the code orders.

**Deadlock** is checked in the transaction runs: `Finished` is the only step of an
instance in which everybody is done. It is not checked in the others, where a finished
scan has no further step and calls, files, versions and batches are bounded. In the scan
and delete runs the liveness properties take its place.

**Fairness.** `Transaction`: weak fairness of each writer's next step - an executor polls
every task that was woken, and tokio's mutex is fair. Nothing obliges the environment to
fail, cancel or lose answers, or the application to submit again. `ScanPlan`,
`DeleteLoading`: weak fairness of progress as a whole - as long as some task can go on,
some task does; scheduling among tasks is left open. Nothing obliges the caller to drop
the scan. The other modules state no liveness and no fairness: `MemoryCatalog`,
`Warehouse` and `MetadataBuilder` run as long as somebody calls, and `FileRead`,
`ColumnProjection` and `Writers` are sequential; that the merge of deletes cannot spin
is the invariant `NeverSpins`, which is proved.

Every property of a passing run has a mutant, listed in `PROJECT.json` and marked
`\* Mutant:` where it is an operator of its own: a definition changed as a plausible bug
would, under which TLC finds the property violated. They are used nowhere else.

## 4. Proofs

TLAPS proves, for any constants that satisfy the named assumptions:

| Theorem | Statement |
|---|---|
| `TransactionProofs!TypeCorrect` | `Spec => []TypeOK` |
| `TransactionProofs!SnapshotsAlwaysReadable` | `Spec => []SnapshotsReadable` |
| `TransactionProofs!CommitsAreChecked` | `Spec => CommitsOnCheckedBase` (an action property) |
| `TransactionProofs!OneAppendPerCommit` | no commit with two appends is ever merged |
| `TransactionProofs!HistoryIsLinear` | `Spec => []LinearHistory` |
| `TransactionProofs!SnapshotsAreKept` | a published snapshot stays in the table, unchanged, while the table lives |
| `TransactionProofs!NothingIsEverLost` | `Spec => NothingIsLost` (an action property) |
| `TransactionProofs!NoFileTwice` | `Spec => []NoDuplicateFiles`, if every append looks for duplicates |
| `TransactionProofs!RowIdsNeverOverlap` | `Spec => []RowIdsDisjoint` |
| `TransactionProofs!FailureIsInvisible` | `Spec => []FailureLeavesNoTrace` |
| `TransactionProofs!SuccessShows` | `Spec => []SuccessIsVisible`, if every append looks for duplicates |
| `TransactionProofs!TransactionsAreAtomic` | `Spec => ImplementsAtomicTable` (a refinement) |
| `WritersProofs!WInvHolds` | `Spec => []WInv` |
| `WritersProofs!RowsAreWrittenOnce` | `Spec => []RowsOnceInTheirPartition` |
| `WritersProofs!LossesAreReported` | `Spec => []LossIsReported` |
| `WritersProofs!OnlyUnsortedIsRefused` | `Spec => []RefusesOnlyUnsorted` |
| `WritersProofs!PanicsFollowErrors` | `Spec => []PanicsOnlyAfterErrors` |
| `WarehouseProofs!TypesAreKept` | `Spec => []TypeOK` |
| `WarehouseProofs!EntriesStayReadable` | `RegisterAny = FALSE` implies `Spec => []EntriesReadable` |
| `WarehouseProofs!TablesHaveOneWriter` | `Spec => []OneWriterPerTable` |
| `WarehouseProofs!OpensNothingStale` | `Spec => []OpensCurrent` |
| `WarehouseProofs!CallsAreAtomic` | `RegisterAny = FALSE` implies `Spec => ImplementsAtomicCatalog` (a refinement) |
| `ScanPlanProofs!StreamsAreComplete` | `Spec => []CompleteOrError` |
| `ScanPlanProofs!TasksNameTheirDeletes` | `Spec => []TasksKnowTheirDeletes` |
| `ScanPlanProofs!BackPressureHolds` | `Spec => []QueuesBounded` |
| `ScanPlanProofs!ScanTypes` | `Spec => []TypeOK` |
| `DeleteLoadingProofs!DeletesAreExact` | `Spec => []ExactlyItsDeletes` |
| `DeleteLoadingProofs!LoadersAreAlone` | `Spec => []OneOwner` |
| `DeleteLoadingProofs!PredicatesAreAlwaysFound` | `Spec => []PredicatesAreFound` |
| `ColumnProjectionProofs!OnlyTwinsAreSwapped` | a column read is that of its field, or of one of the same type and nullability in the file |
| `ColumnProjectionProofs!FieldsAreReadById` | `Spec => []ReadsById` |
| `ColumnProjectionProofs!BatchesFitTogether` | `Spec => []BatchHasTheSchema` |
| `ReadProofs!DInvHolds` | `DeletesSpec => []DInv` |
| `ReadProofs!LoopsEnd` | `DeletesSpec => []NeverSpins` |
| `ReadProofs!NoDeleteIsForgotten` | at every row group, ahead are only deletes not passed yet, and all of those in the file |
| `ReadProofs!SelectionsAreExact` | a file is decoded with the selection of its rows that are not deleted |
| `ReadProofs!NoReadSkipsDeletes` | `Spec => DeletesAreMerged` (an action property) |
| `ReadProofs!OnlyLiveRowsReturn` | `Spec => []OnlyLiveRows`, if no value that is deleted passes the row filter |
| `ReadProofs!NoRowIsLost` | `Spec => []NoRowLost`, if no evaluator rejects what holds a row of the answer |
| `ReadProofs!StatisticsLoseNoRow` | true statistics of rows never make an evaluator reject a leaf that one of them satisfies |
| `ReadProofs!StrictStatisticsAreCertain` | a leaf that the strict evaluator is sure of holds of every row |
| `ReadProofs!SummariesLoseNoPartition` | a summary of partitions never rejects a leaf that one of them satisfies |
| `ReadProofs!ProjectionLosesNoRow` | the partition of a row that satisfies a leaf satisfies the projection of the leaf |
| `ReadProofs!ManifestsLoseNoRow` | a manifest with that partition is not skipped for the projection |
| `ReadProofs!StrictProjectionIsCertain` | a row of a partition that satisfies the strict projection of a leaf satisfies the leaf |
| `MetadataBuilderProofs!MInvHolds` | `Spec => []MInv` |
| `MetadataBuilderProofs!FieldIdsKeepTheirMeaningHolds` | `Spec => []FieldIdsKeepTheirMeaning` |
| `MetadataBuilderProofs!TimeTravelHolds` | `Spec => []TimeTravelIsRight` |
| `MetadataBuilderProofs!ChangesRebuildItHolds` | `Spec => ChangesRebuildIt` (an action property) |

*Transaction.* Six inductive invariants, each with its `Init` case, one lemma per
action, and a temporal step.

1. `IInv` adds to the types that the published table is `Sound`
   (main is a known snapshot, every snapshot's list is in storage), that the same holds
   of each writer's working copy while it acts, that its staged appends are `Chained`
   (each requires the parent it was built on, their lists are written, no two have the
   same parent), and that a merge in progress is of commits all of whose requirements
   held of the table that is still there, because the writer has held the mutex since.
   Without the part about working copies `SnapshotsReadable` is not inductive: the
   snapshot that is published was made from the copy.
2. `HInv` is relative to `IInv`: the table, every working copy and the
   merge in progress are `Linear`, and what a writer has staged `FollowsIn` the table of
   today as long as it is the table it loaded, since snapshots are only added. The
   append is merged only while its parent is main, and `NumberOfMain` then says that its
   sequence number is the next.
3. `RInv`: a manifest list is written under a name never used
   (`Fresh`), so it keeps what it was given; a staged append `Carries` the manifests of
   its parent and continues its row ids; every list is a `GoodList`: no manifest empty,
   no two sharing a row id or, when appends look for duplicates, a file. Main therefore
   reaches all it reached, and row ids end where `next-row-id` says. The hypothesis of
   `NoFileTwice` is the code's own option `check_duplicate`: it looks at the table as
   loaded, and the theorem shows that this is enough because of `RefSnapshotIdMatch`.
4. `TInv`: until the pointer flips for a writer that has submitted once,
   no list and no snapshot but its own names anything it wrote.
5. `VInv`: what a writer has staged is what its transaction asks for,
   and the list of a staged append holds a manifest of its files. At the flip the last
   append is main, so main reaches them; `NothingIsLost` keeps them there from then on,
   and a table created later has a uuid that no earlier commit can require. That they
   are there only once is `NoFileTwice`, hence the same hypothesis.
6. `FInv`: what the refinement needs to know of a writer is exact,
   not only safe. `OwnManifests`: each list has one manifest of its own, so a snapshot
   read through it is one append. `AllReached`: main reaches what any snapshot reached,
   so a file the append looked for and found nowhere is new to the abstract table too.
   `ExactWriter`: what is staged is what the transaction asks for and nothing of it is
   published; what is merged is the table with the first actions applied, neither less
   nor more. The flip of the pointer is then the one step of `AtomicTable`, and every
   other step changes nothing it can see.

Assumptions: the shape of `Tx`, finiteness of `Files`, `None` being no element of the
other sets, natural bounds, the format version.

*Warehouse.* `IInv` has four parts beyond the types. `Opening`: nobody calls before the
warehouse is open, and until then an entry names a file of its own directory (which is
why registering never makes two entries share a file). `Staged`: the file an
`update_table` will write the successor of has a name of the catalog's kind; it can be
relied on because the mutex keeps the entry as it was read. `Tables`: tables are
numbered by files and have one writer; a written file starts a table or follows one with
the same writer. `Sound`, when only usable files are registered: entries name written,
undropped, pairwise different files, none of them the one about to be deleted. One lemma
per way a call can go on (`EndedCall`, `WrittenCall`, `ContinuedCall`) carries the
frame, and one step per action applies it. Two more invariants are relative to `IInv`.
`Floors`, for `OpensCurrent`: while the warehouse is opened, the file a table's hint
named at the start is there, with a hint of that version or a later one, or its table
is gone for good; what the listing finds and the entry it makes are not before it.
`Tree`, for the refinement: a namespace has its parents, a table its namespace. With it
every step between request and answer is a stutter or the one step of `AtomicCatalog`
that has the effect of the call. Assumptions: `CatalogAssumption`, `DirAssumption`.

*ScanPlan.* `SInv` is an alternative. `Told`: something went wrong, and the caller has
received an error, or one is in its channel, or a task is about to send one, or the
caller is gone; no step makes this false. `Undisturbed`: nothing went wrong, and then
nothing was lost on the way: a manifest is waiting, in work or streamed to its end
(`Streamed`); a queued entry is in its channel; a delete that is kept and done is in the
index, a data file that is kept and done has been `Delivered`, and a task that is done
has left no entry behind. Every failing step makes the first true (`FailureStep`), every
other step keeps the second, and `Places` says which entry can be where: no data entry
is ready before the index is populated, and that is not before the deleter is done. When
the stream ends with no error received, `Told` is false. For one thread, `InOrder` adds
that tasks ahead of the first error in the channel name all their deletes. Neither
limits nor the capacity of channels matter to `SInv`. `BInv` is about nothing else: a
channel holds its buffer and one message of each sender parked at it; parked senders
differ and are at work (`Streams`, `Sends`), and no more are at work than the limits
allow (`Loads`). Each task can still report one error or has (`Reports`). Cardinalities
are compared, never enumerated, so the bounds hold for any limits. Assumption:
`ScansAssumption`, the shape of manifest lists.

*MetadataBuilder.* `MInv` holds between calls as well as between versions. Of fields
(`FieldsFit`): of the fields of all versions, of the specs there are and of the default
spec, which `build` puts back when its entry was removed, each has an id up to
`last-partition-id`, and fields with one id are one column and transform. The default
spec must be in it, or `Normalized` would break it. Of columns (`ColumnsFit`): none is
beyond `last-column-id`. Of the log (`PublishedLog`, `BuilderLog`): an entry names a
snapshot the table has, unless this builder has removed snapshots; a builder leaves the
entries it began with alone and appends entries of its own time; an id it added was
never drawn before, so none of the older entries is intermediate. `LogRemembers` then
says of `update_snapshot_log` that the last entry up to any earlier time is still the
one it was, or there is none. `TimeTravelIsRight` is about versions that had a current
snapshot; of one whose main was removed the log does name a snapshot (section 5). Of the
changes (`Rebuilds`): applied to the metadata the builder began with they give this
builder - all of it, its `-1`s included. Each of the thirteen calls has a lemma of its
effect (`AddSpecIs`, ...), which says that the update it records has the same effect
when it is applied again, and one that it keeps `MInv`.

What a loop of the code computes is proved, too, although the library's induction
theorems are of no use to the provers: they take an operator as a parameter. `LeastOf`,
the least-number principle, is first-order and follows from the library's well-founded
relations; a recursive function exists, and has its property at every index, because
there is no least index where not. `FieldIdsAreNew` (`set_field_ids`: given ids are
kept, new ones are beyond all that were assigned, different from those given and from
each other), `ApplyAllOfMore` and `LogRemembers` are proved in this way, for sequences of
any length. Assumption: `SpecsAssumption`, the fields an application asks for.

*Writers.* `WInv`: files, whether open, closed or handed over, have names and rows of
their own (`FilesApart`), since names only go up and a batch goes into one open file. A
row that was accepted is handed over, in a file that its writer can still close, or a
refused batch has come after it (`AckedIsKept`), which is what the report of a loss
means. A partition the clustered writer has closed came before another one
(`ClosedWasLeft`), so only unsorted input is refused; it has one writer at a time
(`OneAtATime`) and none only after an error (`MissingAfterError`). A write or a close is
`Advances`, whatever it rolls: new names, no foreign rows, and what it loses it reports.
Assumption: `WriterAssumption`.

*DeleteLoading.* `DInv` says how the two sides of the shared filter agree. `Owners`: the
state of a delete file leaves "absent" once, and while it is in between exactly one
loader is at it. `Merged`: rows are in the delete vectors before the file is "loaded",
and none are that the file does not delete. `Readers`: a loader that has ended well is
through with every delete file its task lists, so a reader that asks for a predicate
finds an owner and, once woken, the predicate. `ExactlyItsDeletes` is the last conjunct
and follows where the file is read. The proof never uses how many threads there are.
Assumption: `ReadsAssumption`, the shape of the tasks.

*ColumnProjection.* `CInv` says that ids are given once, that a field has the type it was
created with or the one that is promoted to, and that a column of the file and the field
of its id still fit (`Readable`); what was read last is what the reader makes of that
schema and file. So the mask keeps every column that was asked for and is there
(`MaskHasTheAsked`), and `SourceIsTheMask`, by induction on the columns of the file, says
that they come from Parquet once each. Where the transformer looks a column up by its id
it is therefore the right one (`LookedUp`). Where it lets a batch pass, renamed or not,
it has compared types and nullability only, and `OnlyTwinsAreSwapped` says that the
worst it can do is to return another column of the file that agrees in both: the run
`columns_swapped` shows that it does. `FieldsAreReadById` needs no hypothesis about
types. A column without a twin is right by the former theorem. If what was asked for is
in the order of the file, the mask is just what was asked for (`MaskIsTheAsked`), so a
batch of the same length has all of it, and a map of places that grows strictly and has
as many targets as places is the identity (`GrowingIsIdentity`, from the least-number
principle): position and id agree (`SameOrder`). `BatchesFitTogether` goes through the
three ways one by one: what passes as it came has the names, types and nullability of the
target because `CompareSchemas` found them equal, what is renamed its types, and a
required column that the file lacks has a default, as it can only have been added with
one. Assumption: `ColumnAssumption`.

*PositionDeletes.* `DInv` says what the pass is right about at each row group. The
iterator only moves on, so what it has left is in its bitmap or a later one (`IterInv`),
and the cached position is the first of those still to come (`CachedIsFirst`): it is
none only when the iterator is at its end. Ahead of the pass are only deletes that are
not before the row group, and all of those that are in the file (`NothingForgotten`).
That a skipped row group keeps this is `Advanced`: in the file, `advance_to` drops what
lies before the target and nothing else, whichever bitmap the iterator has come to; and
the cached position is replaced exactly if it was dropped, too. `NeverSpins` follows.
The selection so far is exact (`ExactUpTo`): there are offsets, the running sums of the
rows of the selected row groups, at which it says of each row whether it is deleted;
`OneMoreGroup` adds a row group to them and `NoMoreGroups` passes one.
`SelectionIsExact` is what is left of this when the file is decoded. The sets of deletes
are any sets of positions, infinite ones too, so the first of one comes from the
least-number principle (`LeastOf`) and not from its size. Assumptions:
`DeleteVectorAssumption`, and `ScenarioAssumption`: row groups are not empty, each
starts where the one before ends, and the file ends within the first bitmap, of 2^32
rows in the code, while deletes may name any position. Without the last, the defect of
`advance_to` that section 5 names would break `Advanced`.

*FileRead.* Each step of a read is a step of the pass over the deletes or one that the
pass allows before and after it (`ReadStep`), so what is proved of the pass holds in every
read: `NoReadSkipsDeletes` is `DeletesAreMerged`. Two invariants lead to what is returned.
`LiveInv`: the row groups selected are of the split, since a byte range that begins with a
row group overlaps just those that begin in it (`ByteRange`) and later steps only drop
some. `KeepInv`: every row group of the split with a wanted row is selected
(`WantedChosen`), and the selection of pages covers the rows of the selected row groups
passed, in order, up to the page it is at, and takes the wanted ones (`PagesInv`,
`PageSelected`, `PagesContinue`). Both selections, of pages and of deletes, count the rows
of selected row groups only, and a row is decoded if it is in both: they fit together
because the recursion `RowsBefore` has one solution (`RowsBeforeIs`, `OffsetsAgree`), the
offsets of `ExactUpTo`. The hypotheses `VerdictsKeep` and `NoDeletedValuePasses` are about
the evaluators alone. The theorems below prove them leaf by leaf; for whole filters
`EvaluatorsAreSound` checks them on every scenario of `filtered_read`. They fail of the
rows of `filtered_read_nulls`, which is the defect that run shows. Assumptions:
`ReadAssumption` (pages cover their row group in order and none is empty, byte ranges
begin with a row group) and those of the pass.

*Statistics and transforms.* These theorems are about one leaf of a filter and all rows,
statistics and transforms; they have no state. Values are compared where they part
(`PartAt`, which exists by the least-number principle): from this the order is total,
strict and transitive, and the beginnings of two strings are in the order of the strings
(`TakeKeepsOrder`), whatever their length. Statistics that are missing or true
(`Describes`, which `TrueStatsDescribe` shows of all that the model lets a file have)
then bound each value, and each operator follows: `InclusiveKeeps`, `RowGroupKeeps`,
`PageKeeps`, `StrictHolds`. A partition summary has a first and a last value because a
manifest has finitely many partitions (`Firsts`). Each transform that is neither
identity, `void` nor `bucket` rounds by a monotone function (`RoundedKeepsOrder`), so the
literal, moved to the next value inside the range (`BoundaryIsInside`), lands on the
right side of the partition of every row the leaf selects (`Projected`), and the strict
projection is the converse. `ManifestsLoseNoRow` puts the projection and the summary
together: the projection is again a leaf the summary is right about. The one-point steps
that the code takes are the hard part: `<` becomes `<=` of the literal minus one and, for
times, moves back by one unit before the epoch.

The hypotheses leave out what the code gets wrong or leaves open (section 5).
`LeafFits`: only strings are asked for prefixes, and no literal is NaN (a bound says
nothing of NaNs, so `= NaN` would be pruned by it). `LiteralsFit` and `ValueFits`: under
`truncate` a prefix has no characters of several bytes, and under `day` a timestamp is
not before the epoch; TLC checks `day` on both sides of it in a calendar with two ticks
to the second, where the formula is right. That the formula for months is right before
the epoch is proved (`MonthOfIs`). Assumptions: `DatumAssumption`, `MetricsAssumption`,
and `TransformAssumption`, which says that a month is not shorter than a day.

All invariants were checked by TLC on small instances before they were proved.

*Only model-checked.* Liveness, fairness and ENABLED are out of the provers' reach: that
commits, scans and reads end. Of a read, the steps are proved for any verdicts, and each
verdict on a leaf; that verdicts on leaves add up to one on a filter is not, since
filters, and their rewriting, binding and evaluation (`Predicates`), are defined by
recursion, which the provers can neither load nor reason about by induction. So
`EvaluatorsAreSound`, which is about whole filters, stays with TLC. That a field id is
not given twice is proved for unbounded ids; the code counts them in 32 bits and returns
an error where that overflows.

## 5. Where code and documentation disagree

Three are runs that TLC refutes, with the quoted line in `PROJECT.json`:

* `scan_wakeup`: on several threads a data entry reads the state of the delete index
  under a lock and calls `notified()` after releasing it; the notification can fall in
  between and the scan hangs. On one thread, as in the browser, there is no await in
  between.
* `filtered_read_nulls`: an equality delete of a value is negated into a row filter
  under which rows that are NULL in the column do not pass either, so they are deleted
  too (`ICE/arrow/caching_delete_file_loader.rs:405`).
* `columns_swapped`: a record batch whose column types fit those asked for, position by
  position, passes through under the requested names, although the columns may be in
  another order (`ICE/arrow/record_batch_transformer.rs:449`) or, if none of those asked
  for is in the file, be other columns altogether.

These were met while modelling; the models behave the same way, and no run states them:

* `SnapshotProducer::summary` looks the previous snapshot up under the id of the
  snapshot being produced (`ICE/transaction/snapshot.rs:386`), so totals restart with
  every append, against the test at `ICE/spec/snapshot_summary.rs:572`.
* A transaction with two fast appends conflicts with itself and never commits
  (`ICE/catalog/mod.rs:369`): `OneAppendPerCommit` proves it.
* On one thread with a concurrency limit of one, the default in the browser, an error
  already in the channel leaves no room for the error of the delete task, which
  `plan_files` waits for before it returns the stream that would be read
  (`ICE/scan/mod.rs:402`): two faults, and the scan hangs. The pairs of faults of
  `scan_plan` reach this. `ScansEndUnlessBlocked` says that nothing else keeps a scan on
  one thread from its end; without its second part, `BlockedByErrors`, TLC refutes it.
* Waiters for a delete file or predicate have the same gap as `scan_wakeup` on several
  threads (`ICE/arrow/caching_delete_file_loader.rs:232`, `delete_filter.rs:104`).
* `register_table` of a location that cannot be read fails and leaves an entry that
  cannot be opened or registered again (`ICE/catalog/memory/catalog.rs:360`).
* A transaction whose table was dropped and created again commits to the new one, unless
  one of its actions requires the uuid; a warehouse opened again after `drop_table`
  finds the version before the deleted one.
* Filters: the row filter `not_nan` is always false on a column the file has
  (`ICE/arrow/reader.rs:1602`-1613); a missing column with an initial default is
  filtered as NULL; a name mapping is ignored by the projection mask and the row filter;
  an identity-partition column that was dropped makes the read fail; byte ranges are
  taken to fall between row groups.
* Days before the epoch: within the last second of each, but for its first and its last
  tick, `day` is one too high (`ICE/transform/temporal.rs:216`-265). A filter `ts >= t`
  with such a `t` skips the day that `t` is in, and with it a row at the last tick of the
  day: in a calendar of three ticks to the second TLC refutes `NoRowLost`. The runs have
  two, where no tick is between the first and the last.
* `remove_ref("main")` leaves no current snapshot and the log as it was, so that it goes
  on naming one (`ICE/spec/table_metadata_builder.rs:574`), against
  `ICE/spec/table_metadata.rs:103`: "Each time the current-snapshot-id is changed, a new
  entry should be added". `TimeTravelIsRight` is about the versions that had a current
  snapshot; without its `mains[v] # None` TLC refutes it.
* Values: NaN bounds are not recognised by inequality
  tests; `truncate` and prefix tests mix bytes and characters; `v - 1` and `v + 1` can
  overflow, and a literal beyond the type inside an `IN` set panics;
  `DeleteVectorIterator::advance_to` could fail to advance from one bitmap to the next,
  in files of more than 2^32 rows. The instances of `FilteredRead` stay off these:
  `WideChars`, `BitmapRows`, the bounds and the literals are chosen so: a file ends
  within the first bitmap, though a delete may name a position beyond it.
* `MetadataBuilder`: the id of the highest schema or spec is given again after it was
  removed; `remove_schemas` does not look at the schema of snapshots, nor
  `remove_snapshots` at statistics; removing the current snapshot makes `build` fail;
  of two field ids for one column and transform, which one a new spec gets is left to
  the order of a `HashMap`; ids a caller gives to partition fields are checked within a
  spec, although `ICE/spec/partition.rs` calls them unique across all specs; a snapshot
  without a parent may lower the last sequence number. Where a property would fail on
  such input, the input is the caller's, and section 2 says what callers do in the run.
* Writers: a batch whose write failed may still be in the file, so a caller that
  retries it may write its rows twice. The model's caller goes on with the next batch.

## 6. What is not modelled

See `PROJECT.json` for each component. In short: the content of files (Parquet, Avro,
JSON, Arrow) and of Java's own protocol; HTTP, OAuth and signing; DataFusion; storage
backends beyond "succeeds, fails, or has its effect without an answer"; nested types,
decimals, binary values and the conversion of Arrow types; statistics, encryption keys
and the metadata log of the builder; views, Puffin and encryption, which the application
does not reach.

Parts that could be modelled and are not yet: section 7. The remaining lines of the
modelled files are mostly serialisation, visitors' plumbing, builders of plain records
and conversions between Arrow and Iceberg types, which keep no state and have no
property beyond what a unit test says.

## 7. Plan

What comes next, the behaviour that matters most first:

1. `Session`: connects and queries as promises on one thread - the session that is set
   once, the page's flags, names frozen at connect, tables loaded per reference while
   they change. A property worth its run needs a promise to hold it to; the repository
   makes none yet (see the notes of the hazards).
2. `Manifests`: inheritance of snapshot ids, sequence numbers and first row ids between
   list, manifest and entry, under `Transaction`.
3. Compositions: `Transaction` with `MemoryCatalog`'s mutex, and `ScanPlan` with
   `DeleteLoading`, whose reads are the tasks the first produces.
4. Columns of several types, row ids and statistics in `MetadataBuilder`; nested columns
   in `ColumnProjection`.

## 8. Running

    tlc -workers 2 -config MCTransactionFaults.cfg MCTransaction
    tlapm TransactionProofs.tla

`PROJECT.json` names the module, configuration and expected result of every run. The
largest take about two minutes each, a module of proofs up to five from nothing.
