# Verification of the fedqrs engine

fedqrs is the execution half of a federated query engine. A planner (Python,
outside this repository) compiles a query into an ordered list of *steps* over
named *bindings*; the Rust engine here executes the steps one by one, reading
from Postgres, DuckDB and Parquet sources and merging what they return with
DataFusion. This directory holds the TLA+ models of that engine, the TLC
configurations that check them on small instances, and the proofs that TLAPS
checks for every instance.

Line references are to the repository root (`src/...` is the engine crate,
`core/src/...` the connector-independent crate); `PROJECT.json` gives for
every definition the lines it translates, with the repository under `src/`.

## 1. The system

```
 planner ──JSON plan──> execute (engine.rs)  ── one query, one thread
                          │  bindings: name -> Materialized | Keys | Lazy | Spilled
            ┌─────────────┼──────────────┬─────────────┬────────────┐
        SourceScan   InjectedScan      Ship          Merge        Return
            │             │ strategy     │             │            │
            │        IN list / temp      │         DataFusion    Arrow C
            │        table / whole       │         (lazy region) stream
            ▼             ▼              ▼
       connectors.rs:  REGISTRY (name -> spec), shared by every thread
            │                     │                     │
     PG_CACHE per thread   parallel pool          DUCK databases per process
     connections by name   8 workers, own         pins per thread (PINNED_DUCK)
                           connections by name    cursors per call
```

### Components

| component | state it keeps | operations | what is hard | what makes it correct |
|---|---|---|---|---|
| step interpreter (`engine.rs` execute and the step functions) | the bindings, the remaining use counts, the composed regions | one per kind of step; force, retry, guard, duplicate-name projection | a binding is *taken* by its last reader and *cloned* by the others, so a count that is off by one loses or leaks a relation; regions fail and are executed again | counts are exact; nothing is released early or late; no fragment runs once per reader; the result is that of an eager evaluation |
| binding store and spilling (`engine.rs` store_relation, spill_for_headroom, write_spill) | which relations are in memory and which in a file | store, evict, release | eviction happens as a side effect of storing something else, and later readers must cope with either form | the budget holds; a spilled relation is still readable |
| plan IR (`core/src/ir.rs`) | none | decoding | plans the planner should not send | such plans end in an error |
| probe strategy (`engine.rs` run_injected_scan, `core/src/sql.rs`) | none of its own | choose a read, by key count, kind of source, index and estimate | five reads that return different rows, chosen by two caps, by statistics that may be stale, and by a name that is looked up again for each question | the join downstream sees the rows of the whole probe |
| index cache and statistics (`connectors.rs` column_has_index, `core/src/partition.rs`) | process-wide map, never invalidated | ask, remember | the database changes under it | a stale answer costs time, never rows |
| ctid ranges (`core/src/partition.rs`) | none | split a heap | remainders, zero pages, stale page counts, a number of partitions that does not fit a `u32` | the ranges partition all pages, or the call panics before it computes any |
| parallel scan and worker pool (`connectors.rs` fetch_parallel, parallel_pool, worker_loop) | channels, one connection per worker and name | send, run, reply, receive | shared workers, early error returns, a worker that dies, writers | rows read once and in order; scans do not disturb one another; every scan ends |
| decimals (`connectors.rs` normalize_numeric, rebuild_decimals, reconcile_executed) | none | derive a scale, cast, reconcile | each partition and batch derives its own scale | one schema, no value lost |
| relation schemas (`engine.rs` collect_batches, project_dataframe_dedup, spill_binding, read_spilled, register_input) | the schema and the batches of each binding | fetch, spill, read back, merge, guard, rename, return | planned and executed types differ, a file has one schema for all its batches, a MemTable refuses what does not conform | a relation's schema contains its batches', and no type changes on the way through a file |
| DuckDB sessions (`connectors.rs` duck_cursor, ship_table, fetch_duckdb; `engine.rs` ShipmentGuard) | open databases, pinned connections with temp tables | open, ship, read, clear | several threads, same table names, failing queries | a read meets what its query shipped, and nothing outlives the query |
| Postgres sessions and the registry (`connectors.rs` register, PG_CACHE, fetch_temp_join_pg) | connections by name per thread and worker, the keys table on them | register, fetch, key join, parallel read | restarts, half-done ingests, names registered again | a join sees its own keys; a name reads its server |
| Parquet sources (`connectors.rs` parquet_ctx, register_parquet_dir, fetch_parquet) | one DataFusion context per directory, for the life of the process | look up, list, infer, run | many threads, a directory that changes, a file that cannot be read | all queries see one set of tables; a failed listing leaves nothing behind |
| Arrow stream boundary (`src/ffi.rs`, `src/lib.rs`) | C structs with a release callback, export objects, capsules | export, hand out, import, wrap, drop | ownership moves by copying a struct, and Python drops things in any order on any thread | released once, never lost, one consumer |
| shared memory pool, SQL text, expressions, DataFusion's operators, benchmarks, vendored DuckDB | see section 8 | | | |

### Interaction

A query runs on one thread from its first step to its return, so the
interpreter itself is sequential. What it shares with queries on other threads
is the registry, the DuckDB databases, the worker pool, the index cache, the
Parquet contexts and the memory pool. The models are cut along this line: the
interpreter sees the connectors as calls that return a relation or fail, and
each connector model has several threads calling it.

## 2. Modules

| module | models | kind |
|---|---|---|
| `Interpreter` | execute, every step, the binding store, spilling | detailed specification |
| `EagerPlan` | what executing a plan promises | abstract specification, refined by `Interpreter` |
| `MCInterpreter` | the plans TLC tries | instance |
| `Interpreter_proofs` | types, use counts, releases, readability: four theorems | proofs |
| `InterpreterRegions_proofs` (extends `Interpreter_proofs`) | regions, prices, memory and the refinement of `EagerPlan`: six theorems | proofs |
| `CtidRanges` | ctid_ranges as a loop and in closed form, and the ctid predicate | pure operators |
| `ParallelScan` (extends `CtidRanges`) | fetch_parallel, the pool, the writers of the table | detailed specification |
| `TableScan` | what reading a table in parallel promises | abstract specification, refined by `ParallelScan` |
| `MCParallelScan` | instance; an ASSUME compares the closed form with the code's loop | instance |
| `ParallelScan_proofs` | the page ranges, the scan's invariants and its steps as steps of `TableScan`: eight theorems | proofs |
| `Decimals`, `MCDecimals` | the NUMERIC path of one column | specification, instance |
| `RelationSchemas` (extends `Decimals`), `MCRelationSchemas` | the schema of a relation from its fetch to the export | specification composed with `Decimals`, instance |
| `RelationSchemas_proofs` | `Decimals` and `RelationSchemas`: five theorems | proofs |
| `ProbeStrategy`, `MCProbeStrategy` | fetch_source and run_injected_scan, look-up by look-up | specification, instance |
| `ProbeStrategy_proofs` | four theorems | proofs |
| `DuckSessions`, `MCDuckSessions` | DuckDB connections and shipped tables | specification, instance |
| `DuckSessions_proofs` | three theorems | proofs |
| `PgSessions`, `MCPgSessions` | Postgres connections, the registry | specification, instance |
| `Sources` (extends `PgSessions`), `MCSources` | the registry in front of both kinds of source, the Parquet contexts | specification composed with `PgSessions`, instance |
| `Sources_proofs` | `PgSessions` and `Sources`: six theorems | proofs |
| `ArrowStreams`, `MCArrowStreams` | the C streams between the engine and Python | specification, instance |
| `ArrowStreams_proofs` | four theorems | proofs |

Operators whose comment begins with `MUTANT of` are not part of any model. Each
is a plausible slip in the definition that follows it; putting it in that
definition's place makes the property named in `PROJECT.json` fail, which is
how we know that the property depends on the code.

### How states and actions correspond to the code

**Interpreter.** `bindings` is the `HashMap<String, Binding>` of execute; its
`form` is the enum's variant, `"none"` an absent key. A relation is abstracted
to the set of steps its rows went through (`content`) and its size in budget
units. `remaining` is `UseCounts`. A merge is several actions, as in the code:
one `Register...` per input (`region`, `arg` hold what has been registered so
far), then `RunLazyFragment`, or `BeginEagerFragment` and its executions. A
region (`bytes`, `steps`, `leaves`) is what a composed DataFusion plan amounts
to. `exec` is the one region execution in flight: `ForceMaterialized` removes
the lazy binding *before* it runs, `ForceCompletes` stores it,
`OperatorExhausted` is the ResourcesExhausted arm with its one retry.
Eviction is part of `StoreRelation`, never a step of its own: `Evictions`
is the set of outcomes of the largest-first loop over a hash map with ties.
`size` and `completed` are history variables, for the properties: the size of what
was stored, and for each lazy fragment the bindings its region was executed to
completion for, in order. A guard enters twice, at the count of its probe
(`GuardProbe`, `src/engine.rs:1007`) and at the collection (`:1013`). An execution counts
once however often a fragment's SQL names its input: what happens inside one
DataFusion execution is not modelled. `compose` is
any fragment left lazy, and its result is taken to be a function of its inputs.
`Eager` is `EagerPlan` with this state mapped to it.

**ParallelScan.** `ranges`, `replies`, `result` are the locals of
fetch_parallel; `queue[w]` is worker w's channel with the job it is running at
its head. A reply channel is its state: pending, rows, error, dropped (the
worker died holding the sender) or taken. `End` drops the receivers and leaves
the jobs. `Start` splits the page count by a number of partitions the caller gives:
the engine's constant, or any that a Python caller of fetch_parallel_to_stream
(`src/lib.rs:44`) passes. `AsU32` is the truncating conversion of
`core/src/partition.rs:15`: a number that becomes zero divides the page count by
zero, and the call ends `"panicked"`. `CountFails` is a page count that
cannot be read. `Write` is any other client of the database, and each `RunJob` reads
the table as it stands then, as its own statement does. `places` is a history
variable: where each row has been while a scan ran. `Promise` is `TableScan`
with this state mapped to it: a scan may fail before it has read anything, returns at its `Finish`, and the copies of a
row it returns are those in `result`.

**Decimals.** A value is the number of digits before and after its point. The
cells of a batch record whether the value is still exact, was rounded, or
became NULL under arrow's safe cast. `Fetch` is run_query on a marked column,
`FetchUnmarked` on one that lost the mark, `ReturnScan` the reconciliation at
the end of fetch_parallel.

**RelationSchemas.** One column of one binding. `rel` is what the engine holds: the
declared field, the batches with their own field, whether they hold a NULL, and
the type their values were computed in. `FromPostgres` takes over where the scan
of `Decimals` returned. `Registers` is MemTable's check for a relation in
memory, and the decoding of a file for a spilled one; `Executions` is all that
may come out of DataFusion, a planned schema and batches that need not have it.
`rel.honest` records whether a Parquet fetch, the one source that returns a
schema nobody compared with the batches, may have lied about what `rel` was
computed from.

**ProbeStrategy.** `at` is the place in the code: the first look-up of the kind
(`Choose`, kept in `chosen`), the index (`IndexCached`, or `AskCatalog` and then
`CacheAnswer`: column_has_index is unlocked in between), the second look-up
(`AskThreshold`, kept in `asked`), the estimate, and the fetch, which looks the
name up for a last time. A table is a bag of rows, and `Read` is what the chosen
strategy reads of it. `Register` may come between any two of these
steps, and so may `DatabaseChanges` and `OtherCaches`; `replaced` is a history
variable. A plain source scan is `SourceScan` and `RequireParallelizable`.

**DuckSessions.** A connection is its temp tables. `pinned` is the thread-local map
`PINNED_DUCK`; `Begin` and `Leave` are the two clear_shipments of
ShipmentGuard. `Fetch` runs on the pinned connection if there is one,
`TempJoin` on a cursor of its own.

**PgSessions.** `session` is PG_CACHE for a thread and `conns` for a worker. A
call copies the spec out of the registry (`Begin`) and works with the
connection cached by name; a key join is the code's four statements, `DropFirst`,
`Ingest`, and `Join` with the clean-up whose error is ignored. `ServerRestarts`
may happen between any two of them. `Others` are the sources a name may stand
for that are not Postgres servers; a call that copied such a spec is
turned away where the code looks at the kind.

**Sources.** `context` is the map of parquet_ctx and `lock` its mutex, held from
the look-up that misses to the insertion. Registration is one `InferSchema` per
file of the listing, so files change in between; `RunParquet` reads the file as it is by
then. The next-state relation is that of `PgSessions`, with a thread that makes
one fetch at a time of either kind.

**ArrowStreams.** `holders[s]` is the set of objects that have a copy of the struct
of stream s and would release it: the export object, the capsule, a consumer,
or the wrapper of a roundtrip (`wraps`). Moving is `HandedOut` and `MovedOut`.
`RefuseStream` is an import that fails with the stream already moved out,
`RefuseEmpty` one that is offered a spent capsule. `leak` is what pyo3 does with an
unsendable object that is dropped on another thread.

## 3. Runs

Every run is bounded by constants; `PROJECT.json` names the properties of each.

| run | instance and bounds | what it shows |
|---|---|---|
| `interpreter` | all plans of up to `MaxSteps` = 4 steps and a return in which every binding is read, four longer plans, nine malformed ones; sizes 1, 2, 4; `Budget` = 3; `SpillInput` = 3 | all interpreter properties, the refinement of `EagerPlan`, termination |
| `interpreter_ship` | one plan: two scans, a ship of the first | finding 1 |
| `parallel_scan` | two scans, two workers, two rows, three pages, page count 0 or 3, two partitions or a number of them that truncates to zero, one write, one worker death | rows once, in order, failures isolated, every scan ends, the refinement of `TableScan` |
| `relation_schemas` | two partitions of up to two batches over four values, precision 3, scales up to 2, marked or not; then relations of up to two batches in three types, from three sources, for any number of steps | schemas agree with batches from the fetch to the export, partitioning does not show, files change no type |
| `decimals_loss` | the first half of it | finding 2 |
| `probe_strategy` | three keys and NULL, two values of an extra column, two tables, four statistics, three planner estimates, both caps at 2, two scans, any number of changes and registrations | no strategy loses a joining row; keys travel only where they may; nothing is refused that was chosen |
| `probe_distinct` | the same | finding 3, by a temp-table join on DuckDB |
| `duck_sessions` | two threads, two databases, two names, three queries, three ships each | a plain read meets its own query's last shipment; pins end with the query |
| `duck_temp_join` | the same | finding 4 |
| `sources` | two threads, two workers, two names, two servers and one directory with two files in two schemas, two partitions, two calls, every registry to start with and one registration more, one restart, one change of a file | a join sees its own keys, all of them; leftovers stop nobody; stable names read their server; one set of tables per directory, with every untouched file in it |
| `pg_replaced` | Postgres alone, the same but two restarts | finding 5 |
| `arrow_streams` | two threads, four streams | released once, none lost, one consumer |

### Why the bounds are enough for what the runs are after

* *Plans.* The smallest plan in which a lazy binding is shared, forced by its
  first reader and read again has three steps and a return; four steps add a
  reader of the result or an eviction in between. The longer plans have the
  shapes the planner produces and the short ones miss: a shared body with three
  readers over a chain of lazy fragments, a semi-join reduction, two key sets,
  four scans that do not fit together. With a budget of 3, sizes 1 and 2 fit
  together, two 2s force an eviction with a tie, and a 4 is stored spilled at
  once; with `SpillInput` = 3 regions lie on both sides of the threshold.
* *Scans.* Two partitions over three pages give three ranges (the remainder
  makes an extra one), so one of two workers has two jobs of one scan and jobs
  of both. `MaxPage` is 3, so 4 partitions are what 2^32 is to the code. A page count of 0 under a table with rows is the stalest there is.
  One death and one write are enough for every pair of a death, a write and a
  reply to happen in each order.
* *Relations.* Two batches are the least that can disagree; a relation has no
  memory beyond what `rel` says, so every sequence of steps is covered. With a precision of 3 and scales up to 2 the four values cover: only fits
  scale 0, fits with the others, and needs more than the largest scale. Two
  partitions of 0 to 2 batches cover the empty, the integral and the
  mixed first partition.
* *Probes.* Key sets of 0 to 3 lie below, at and above both caps. Two scans are
  needed for the second to meet what the first cached. The theorems
  of section 5 lift the bounds here and everywhere else.
* *Sessions.* Two of everything that can be confused, and one query, ship,
  registration or restart more than is needed to do a thing and then do it
  again. One directory is enough: contexts of two directories share only the
  lock, and whoever waits for it may as well wait for the same directory.
* *Streams.* Four streams make a wrapper of a wrapper of a wrapper, and two chains of
  two.
* Symmetry (`Permutations` of threads, and in `sources` and `pg_replaced` of
  names and of servers) is used in the runs of `Sources`, `PgSessions` and
  `ArrowStreams` alone: these specifications treat the members of each of these
  sets alike, and the runs check only invariants.

### Fairness and deadlock

* `Interpreter`: `WF_vars(Next)`. A query is one thread that does nothing but
  run its steps; every call it makes out of the engine is taken to return or
  to fail. `Terminates` is checked under this fairness, and says that no plan,
  not even a malformed one, and no retry or eviction can go round for ever.
* `ParallelScan`: weak fairness of each caller's step and of each worker's
  `RunJob`, separately: an operating-system thread that can run does run, and a
  statement sent to the server is answered or fails. Nothing is assumed of
  writers, and a worker may die or not. TLC checks that it implies the fairness
  that `TableScan` asks for: every scan starts, and then returns or fails.
* The other modules state safety only and assume no fairness.

`CHECK_DEADLOCK FALSE` is set everywhere, because every one of these systems
really stops: a query ends, the scans of an instance end, and the bounded
number of calls is used up.

## 4. Properties

Each module has one type invariant. The others are aimed at the hazards that
`PROJECT.json` lists, at the line where each bites.

*Interpreter.* `UseCountsExact`: between any two steps, and between any two
inputs of one merge, the count of a binding is the number of reads the plan
still makes of it. `NoEarlyRelease` and `ReleasedByLastMerge`: a binding is
there while it is needed, and gone once a merge was its last reader (a last reader that is a
key collection or a ship does not release it; see the hazard at
`engine.rs:486`). `FragmentRunsForOneBinding`: sharing never executes a fragment
once per reader; all the executions that run it to completion serve one binding, and
they are one, or the two of a guard, which counts its input and then
collects it. `ComposedInOnePlace`: a composed fragment that has not run is
somewhere while the query runs, and never in two lazy bindings, nor in a lazy
binding and a region that is being registered or executed. `ResidentWithinBudget`: what is resident never
exceeds the budget. `PricedByItsLeaves`: a region's price counts every stored
relation under it, through lazy and spilled inputs alike.
`ReadableExceptByShip`: a well-formed plan never meets a binding that is
missing or of the wrong form, except at a ship (finding 1). `ImplementsEagerPlan`: laziness,
spilling, early release and retries do not show in the result. `Terminates`.

*ParallelScan.* `StableRowsReadOnce`, `ReadInPageOrder`, `FailuresAreIsolated`,
`EveryScanEnds`. The partitions of one scan have snapshots of their own, so
nothing is promised of a row that is written during the scan but that it comes
back at most once for each place it was in; what is promised is that every
other row is returned exactly once. `ImplementsTableScan` says both, and that a
scan returns or fails at one moment, as a refinement.

*Decimals and RelationSchemas.* `SchemaAgreesWithBatches`: one scale for the column
and for all batches of all partitions. `PartitioningDoesNotShow`: whether rows were
read by one statement or several decides nothing about the values kept.
`RelationsConform`: from any source but Parquet, and after any
fragment, spill, guard or renaming, the next MemTable takes the relation and
the exported stream is what it says. `ReadAsComputed`: a file never changes the
type values are read in.

*ProbeStrategy.* `JoinSeesTheWholeProbe`, `KeysTravelWhereTheyMay`,
`RefusedOnlyIfReplaced`: the strategies never choose what a fetch refuses, so a
refusal means that the source was replaced or the plan was wrong. The first of
them *excludes DISTINCT injected probes*, for which the code breaks it
(`DistinctProbeJoinsExactly`, finding 3).

*DuckSessions.* `FetchMeetsLastShipment`, `PinsEndWithTheirQuery`.

*Sources and PgSessions.* `JoinUsesItsOwnKeys`, `LeftoversStopNobody`,
`StableNamesReadTheirServer`; `OneContextPerDirectory`: whoever reads a
directory is planned against the same tables; `UntouchedFilesAreTables`: a
fetch that failed on one file hides no other.

*ArrowStreams.* `ReleasedOnce`, `NoStreamIsLost`, `OneConsumer`.

## 5. Proofs

The theorems hold for every value of the constants allowed by the named ASSUMEs
of the modules, which TLC evaluates on every run.

**Interpreter_proofs** assumes that plans are sequences of steps whose inputs name
positions of the plan (`PlansAssumption`; *not* that they are well formed), that
sizes, `Budget` and `SpillInput` are naturals.

* `TypeCorrect`: `Spec => []TypeOK`. `TypeOK` is not inductive: the position
  inside a step (`arg`) and the execution in flight are constrained by the step
  they belong to. `ControlOK` says how, and `TypeInv == TypeOK /\ ControlOK` is
  inductive.
* `UseCountsAreExact`: `Spec => []UseCountsExact`. Each action that notes a read moves
  past exactly that read: `FutureReads` loses one member for an input of a
  merge, and for an injected scan as many members as its inputs name the binding.
  The proof is about cardinalities of finite sets of positions.
* `NoBindingReleasedEarly`: `Spec => []NoEarlyRelease`. A binding is removed
  only where its count is at most one, and by exactness the read being made is
  then the last one; what forcing removes is in flight, to be stored again.
* `ReadableExceptByShipHolds`: `Spec => []ReadableExceptByShip`, from the
  previous ones and an invariant that the binding of a step has a form
  its operation writes.

**InterpreterRegions_proofs** adds no assumption. Each part has an invariant of
its own, next to `TypeInv` and exact counts.

* `ComposedInOnePlaceHolds` and `FragmentsRunForOneBinding`, from `OnceInv`: where a fragment
  that was composed may still be pending (a lazy binding, the region being
  registered, the region in flight), that these places are disjoint, and that what
  is pending has not completed. A second reader of a lazy binding forces it, so a
  region is taken whole and never copied: this is what exact counts are for.
* `LastMergeReleases`: `[]ReleasedByLastMerge`. The strengthening, `AheadOK`, says that
  the steps to come have bound nothing and had nothing of theirs read, and that
  a force is of the input about to be read.
* `ImplementsEager`: `Spec => ImplementsEagerPlan`, the whole refinement. A binding's
  content is what `EagerPlan`'s recursive `ContentOf` says of its name
  (`ContentInv`). A force, an eviction or a retry is a stutter, the return a step. That
  `ContentOf` is a function at all, and unfolds, is shown by induction over the
  plan.
* `ResidentFitsTheBudget`: `[]ResidentWithinBudget`, inductive next to the types.
  `Held` is a fold over a set; the module proves first that the fold is a sum
  over any finite set, whatever order CHOOSE takes it in, that sums add up over
  disjoint sets and grow with the set. Every outcome of `Evictions` then leaves
  room for what is stored.
* `RegionsArePriced`: `[]PricedByItsLeaves`. A region's `bytes` is the sum of the sizes
  its leaves were stored with. It is stable because its leaves are `Settled`: a leaf
  is never stored again under it. That the price of a composed region is the sum
  of the prices of its parts is a lemma on sums over concatenations.

**ParallelScan_proofs** assumes that the page counts and the places of rows
are within the range of page numbers, and that there is a worker.

* `DividesByZeroExactly`: the division in `ctid_ranges` panics for exactly the
  numbers of partitions that truncate to zero, the multiples of 2^32 under a table that
  has pages, so for none that fits a `u32`. The two theorems that follow are
  of the other numbers.
* `LoopComputesRanges`: the loop of `ctid_ranges`, with its saturating
  addition, computes the closed form that the model and the other proofs use.
  The closed form satisfies the loop's recursive equation (`OneTurn`: a turn
  pushes the first of the ranges that remain), and it is the only
  function that does, for otherwise there is a last page at which they differ.
* `CtidRangesPartition`: every page is in exactly one range. Existence takes the
  quotient of the page by the chunk, or the last range beyond the count;
  uniqueness follows from monotonicity of multiples.
* `ScansTypeCorrect`, `StableRowsAreReadOnce`, `RowsComeInPageOrder` and
  `FailuresStayIsolated` share the invariant `IInv`. Its core is what a reply
  holds (`Seen`): a row only if it was somewhere in the range during the scan, and
  every row that stayed in the range. `Received` says that the replies taken are the
  first ones, each of its own range; `Owed` and `SamePart`, that a job in a
  channel is the only one of its part and that its scan still waits for it, or
  ended without it. A row nobody wrote has one place, hence one range, hence one
  reply; page order is that of the ranges.
* `ScansReadOneTable`: `Spec => Promise!Init /\ [][Promise!Next]_Promise!vars`. A scan
  starts at its `Start` and returns at its `Finish`, where the copies of a row in the
  result are counted: at most one per place, exactly one for a row that stayed.

**RelationSchemas_proofs** assumes that values are pairs of naturals and that the
largest scale is at most the precision.

* `SchemasTypeCorrect`, `SchemasAgree` and `PartitioningStaysHidden`, from
  `DecimalsInv`: each fetch's table agrees with itself and, when its own values
  fit one type, holds them exactly in the scale they need. A widest scale is a
  maximum, so that of the whole column is that of one fetch; reconciliation
  rescales the others upward, which loses nothing that fits. The batches are
  concatenated by recursion over the fetches, so membership in
  them is shown by induction on their number.
* `HonestRelationsConform` and `FilesAreReadAsComputed`, from `SchemaInv`: next to the types it
  needs only what it proves, for each of the steps that make a relation.

**DuckSessions_proofs** assumes that the bounds are naturals.

* `SessionsTypeCorrect`, `FetchMeetsItsShipment` and `PinsEnd`, from `SessionInv`: a
  pinned connection has a table for exactly the names the running query has
  shipped to its database, each of them the last relation shipped there, and a
  thread between queries has shipped and pinned nothing. Both ends of a query
  clear what is pinned, so no failure in between matters.

**Sources_proofs** assumes that the marks for an absent source, an unreadable file, an
uncached directory and a free lock are none of the values they stand beside. The
theorems are about `SourcesSpec`, so they hold of both kinds of source at once.

* `SourcesTypeCorrect`; `JoinsUseTheirOwnKeys`, `LeftoversAreHarmless` and
  `StableNamesAreRead`, from `PgInv`: what the keys table of a connection may be
  in each phase of a key join (`TempOK`), which jobs a worker may still have of
  a call (`JobsOK`), and that everything which remembers a name registered once
  remembers one server (`StableOK`).
* `ContextsAreShared` and `UntouchedFilesAreFound`, from `ParquetInv`: the lock is held
  by exactly the thread that registers files, the directory it does that for is not cached
  yet, and each untouched file is still to be read or was read as it is.

**ArrowStreams_proofs** assumes that `NoThread` is no thread.

* `StreamsTypeCorrect`, `EachStreamReleasedOnce`, `EveryStreamOwned` and
  `HandedToOneConsumer`, from one invariant: the live streams form disjoint chains, each a
  head held by one object outside and the streams it reads from, each held by
  its wrapper alone (`InChains`, `OneHolder`); a stream was released exactly if
  nothing holds it (`HeldOrReleased`). Dropping a head releases its whole
  chain, and no other.

**ProbeStrategy_proofs** assumes that tables are bags of rows and that the set of keys is finite.

* `ProbeTypeCorrect`, `EveryStrategyIsExact` (`[]JoinSeesTheWholeProbe`),
  `KeysStayWhereTheyMay` and `ChoicesAreServed` (`[]RefusedOnlyIfReplaced`). They
  share one inductive invariant, `Inv`, in named parts: what each place in the
  code has established about the kind that was looked up first (`AtStep`), what
  a chosen strategy rests on (`Chosen`), that this kind is still the source's
  unless the name was registered again (`Current`), and what was fetched or
  refused (`Fetched`, `Failed`). `Current` is what carries a decision over to the
  fetch that looks the name up again; where it fails, `replaced` holds, and the
  exactness of the rows must not depend on it. That the join loses nothing is
  then an argument about each read, of the source as it stands at the fetch: a
  row left out has a key or an extra value that the join would refuse.

### Induction

The prover has no rule for induction over data. Where a definition is recursive
(`ContentOf`, the joined batches, the loop of `ctid_ranges`) or a fold (`Held`,
prices), it is a recursive *function* or a fold of the community modules, and the
proofs obtain induction from facts about sets of numbers: every nonempty
set of naturals has a least member (`LeastNumber`, from the well-foundedness of <),
so a set with 0 and closed under successor is all of them (`NumberInduction`),
and likewise for the subsets of a finite set (`SubsetInduction`). That a
recursive function exists is a lemma of its own each time.

### Only model-checked

* `Terminates` and `EveryScanEnds`, and with them the fairness part of
  `ImplementsTableScan`: liveness is outside the prover's reach.
  `ScansReadOneTable` proves the rest of that refinement.
* The counterexamples of section 6 are found by TLC, as they must be.

Every other property of every passing run is the conclusion of a theorem.

## 6. Disagreements between code and documentation

Each is shown by a run that ends in a counterexample.

1. `interpreter_ship`: a relation that was evicted to disk cannot be shipped.
   `materialized` (`src/engine.rs:538`) has no arm for a spilled binding, while
   `:200` promises that "spilled bindings stay fully readable".
2. `decimals_loss`: a value with too many integer digits for the column's derived
   scale becomes NULL silently (`src/connectors.rs:478`).
3. `probe_distinct`: `temp_join_sql` renders the scan without its DISTINCT (and
   without its LIMIT; `core/src/sql.rs:168`), though `:138` calls it "the probe scan restricted to
   rows whose `inject_col` appears in the ingested keys temp table" and
   `src/engine.rs:624` says of this path that "the downstream join keeps
   exactness". The run shows a DISTINCT probe of a DuckDB table with as many keys
   as `IN_CAP`: its temp-table join returns a row twice that the table has
   twice. The parallel read of a Postgres probe (`src/engine.rs:655`) drops the DISTINCT
   in the same way; a smaller key set, read through an IN list, keeps it.
4. `duck_temp_join`: a key join on a DuckDB database does not see the tables its
   query shipped there (`src/connectors.rs:798`).
5. `pg_replaced`: connections are cached by name, so a name that is registered
   again keeps being read from its old server by whoever used it before
   (`src/connectors.rs:337`).

Five more things were met that no run singles out. They fail loudly, need a
fragment of a particular kind, or are stale text:

* `fetch_parquet` (`src/connectors.rs:167`) returns the planned schema with the
  executed batches. Where they differ (a pushed SUM is widened) the next merge
  refuses the relation, unless it was spilled in between: a file relabels it.
  `RelationSchemas` has both outcomes, and `rel.honest` keeps them
  apart from the promise.
* `project_dataframe_dedup` (`src/engine.rs:1256`) relabels executed batches with the planned
  schema, so the same widening fails a projection under repeated output names.
* The single-row guard (`src/engine.rs:1013`) counts one execution of its input
  and returns another. The two agree as long as the fragment is a function of its inputs, as
  the models take it to be; were it not (a SUM of floats, `now()`), the row that is
  returned need not be the one that was counted.
* A number of partitions that is a multiple of 2^32 panics in `ctid_ranges`
  (`core/src/partition.rs:15-16`: the lower bound of 1 is applied before the
  conversion). Only a caller of `fetch_parallel_to_stream` can ask for one.
* `README.md:77-78` and `PLAN.md:103-105` still say that NUMERIC becomes
  `Float64`; the connector makes it `Decimal128` (`src/connectors.rs:434-490`), as its
  own comments say. `Decimals` models the code.

## 7. Abstractions

* Sizes are small integers; the measured size of a relation is chosen when it
  is stored. What a join or an aggregate computes is DataFusion's; a relation
  is the set of steps that went into it, so the refinement shows that the right
  inputs reach the result, not the arithmetic of SQL.
* A step's binding is named by its position, so two steps never write one name.
  A plan that repeats a name is not among the malformed ones.
* Any step may fail from outside (`ExternalFailure`, `FailCall`, an `error`
  reply): sources, disk, planning, memory.
* Spill files are the fact that a relation is on disk. A write failure
  is an external failure at the step that evicts; it ends the query and drops the
  bindings with it, so nobody sees the map in between.
* The `LIMIT` of a probe is left out of `ProbeStrategy`: a limited probe has
  no single right answer to compare with.
* Statistics and page counts are arbitrary members of a small set, so every
  degree of staleness is covered.
* The kind that SQL was rendered for decides its dialect and not its rows, so
  SQL of one source run on another reads that source's rows or fails
  (`StatementFails`). Failures of the driver or the server under a source that was
  not replaced are left out of `ProbeStrategy`, whose question is what is refused
  by choice; they are in the models of the sessions.
* `LookUpContext` takes a directory's listing in one step, where the code
  reads the entries lazily: a file that comes or goes while the listing is read is
  as if it had done so just before or after. Each file is inferred in a
  step of its own.
* `DuckSessions` has temp tables only. The unqualified DROP TABLE IF EXISTS of
  ship_table (`src/connectors.rs:122`) would meet a permanent table of the shipped name
  when there is no temp table of it; permanent tables are not modelled.
* A directory's files are there before its first fetch in one of the ways of
  `Contents`, and change afterwards; a query over a replaced file reads it with the
  schema of the old one, and DataFusion adapts it or gives up.
* The order in which workers serve their jobs is `ParallelScan`'s; `PgSessions`
  lets a worker take any of its jobs.

## 8. Not modelled

* *Queries over Parquet*: DataFusion's, from the tables of the context on.
* *The memory behind a C struct*: `ArrowStreams` models who has a struct and who calls
  its callback, not the unsafe reads and writes that move it.
* *Shared memory pool*: only its refusals are seen, at any execution; how
  DataFusion shares 32 GB among operators is its own.
* *Plan decoding* (`core/src/ir.rs`): serde's; the models start from plans that
  were decoded, the malformed ones included.
* *Expressions and SQL text*: stateless translations; only which rows a
  rendered probe selects is modelled.
* *Relational fragments*: what they compute; when they run, what happens to
  their inputs and which schema their result gets is modelled.
* *Benchmarks* (`main.rs`, `bench_*.rs`) and the *vendored DuckDB bindings*.

Of the hazards listed in `PROJECT.json` some have no property, each with the reason
in its note: costs without a promise (a key set of any size, a
relation kept until the query ends), refusals that are the code's design (a
dead worker or connection stays dead), and external code (the appender's
flush).

## 9. Plan

Done: every part of the system that keeps state is modelled, with abstract
specifications of a plan's execution and of a parallel scan; every safety
property of the passing runs is proved, and both refinements but for fairness.

What is left to prove, in this order:

1. *The other direction of the findings*: what does hold where section 6 shows
   that a documented promise does not, under the condition that
   makes it true (a ship whose input was not evicted; a value that fits the
   column's scale; a name registered once is `StableNamesAreRead` already).
2. *Lemmas about `ProbeStrategy`'s estimates*, at the ends of their ranges.
3. *Proofs that can be read more easily*: the largest of the lemmas of
   `InterpreterRegions_proofs` and `ParallelScan_proofs` by one more level.
