--------------------------- MODULE ProbeStrategy ---------------------------
(***************************************************************************)
(* How a scan of a source reads its rows (src/src/engine.rs: fetch_source, *)
(* run_injected_scan).  For an injected scan the number of keys, the kind  *)
(* of source, an index, and an estimate decide between an IN list, a       *)
(* temp-table semi-join and a whole read.  The strategies return different *)
(* rows; the downstream join must not notice.                              *)
(*                                                                         *)
(* The decision is not one step: it looks the source up by name again each *)
(* time it asks something of it, and once more to fetch.  Meanwhile the    *)
(* name may be registered again for another source, the database changes,  *)
(* and other queries fill the process-wide cache of column_has_index.      *)
(*                                                                         *)
(* A table is a bag of rows [key, ext]: the injected column and the column *)
(* of an extra injection.  The kind a read renders its SQL for decides the *)
(* dialect, not the rows: SQL of one source that is run on another reads   *)
(* its rows or fails (StatementFails).                                     *)
(***************************************************************************)
EXTENDS Integers, FiniteSets

CONSTANTS
    Keys,            \* values of the injected column
    Null,            \* and its NULL
    Exts,            \* values of the extra column
    Tables,          \* the tables to probe: row -> how many times it occurs
    Stats,           \* what a source's catalog may say of the probe column
    Ndvs,            \* what the planner may know of it (0: nothing)
    InCap,           \* IN_CAP
    DuckTempCap,     \* DUCK_TEMP_CAP
    FullScanPercent, \* FULL_SCAN_FRACTION, PG_FULL_SCAN_FRACTION by kind
    MaxProbes        \* bound

Rows == [key : Keys \union {Null}, ext : Exts]
Kinds == {"postgres", "duckdb", "parquet"}
NoStats == [rows |-> 0, distinct |-> 0]

ASSUME ProbeAssumption ==
    /\ Null \notin Keys /\ IsFiniteSet(Keys)
    /\ Tables \subseteq [Rows -> Nat] /\ Tables # {}
    /\ Stats \subseteq [rows : Nat, distinct : Int] /\ Ndvs \subseteq Nat /\ 0 \in Ndvs
    /\ InCap \in Nat /\ DuckTempCap \in Nat /\ MaxProbes \in Nat
    /\ FullScanPercent \in [Kinds -> Nat]

(* A scan: a structured read of a table, which may be DISTINCT, or the raw *)
(* SQL of a subtree, which may come with its keys already placed.  passing *)
(* is what the static filter lets through.                                 *)
Scans == {s \in [structured : BOOLEAN, distinct : BOOLEAN, injected : BOOLEAN,
                 passing : {Rows, [key : Keys, ext : Exts]}] :
             /\ s.distinct => s.structured
             /\ s.injected => ~s.structured}

(* A probe: the scan, its keys, the key set of its extra injection and     *)
(* what is known about the column.  A plain scan has no keys.              *)
Probes == [scan : Scans, keys : SUBSET Keys, extra : SUBSET Exts, ndv : Ndvs, ingestable : BOOLEAN]

VARIABLES
    kind,     \* the kind of source registered under the name
    table,    \* its table as it stands
    indexed,  \* whether the probe column has a usable index now
    cached,   \* what column_has_index has cached: "unknown", "yes" or "no"
    at,       \* where the scan is
    probe,    \* the scan
    chosen,   \* the kind run_injected_scan looked up, or "none"
    answer,   \* what column_has_index said, or "unknown"
    asked,    \* the kind that set the threshold, or "none"
    strategy, \* how the rows are read, or "none"
    rows,     \* the rows returned
    replaced, \* whether the name was registered again during the scan
    probes    \* scans so far

source == <<kind, table, indexed>>
vars == <<source, cached, at, probe, chosen, answer, asked, strategy, rows, replaced, probes>>

---------------------------------------------------------------------------
(* The reads *)

Select(bag, S) == [r \in DOMAIN bag |-> IF r \in S THEN bag[r] ELSE 0]
Distinct(bag) == [r \in DOMAIN bag |-> IF bag[r] > 0 THEN 1 ELSE 0]

Matching(keys) == {r \in Rows : r.key \in keys}

(* An extra key set over the cap is skipped, and so is an empty one.       *)
\* MUTANT of ExtraFilter: an extra key set over the cap matches nothing.
ExtraFilterOverCap(extra) ==
    IF extra = {} THEN Rows
    ELSE IF Cardinality(extra) >= InCap THEN {} ELSE {r \in Rows : r.ext \in extra}
ExtraFilter(extra) ==
    IF extra = {} \/ Cardinality(extra) >= InCap THEN Rows ELSE {r \in Rows : r.ext \in extra}

(* fetch_scan renders everything the scan says, and one more filter.       *)
FetchScan(s, filter) ==
    LET read == Select(table, s.passing \intersect filter)
    IN IF s.distinct THEN Distinct(read) ELSE read

(* The ctid-partitioned read: the select list and the static filter only.  *)
ParallelProbeScan(s) == Select(table, s.passing)

(* The temp-table semi-join renders its own SQL: the select list, the      *)
(* static filter and the membership test; or runs the prerendered one.     *)
TempTableProbe(s, keys) == Select(table, s.passing \intersect Matching(keys))

---------------------------------------------------------------------------
(* The choice *)

NumKeys(p) == Cardinality(p.keys)

(* keys / distinct > threshold, in percent; no estimate means no.          *)
Exceeds(n, distinct, k) == distinct > 0 /\ n * 100 > FullScanPercent[k] * distinct

(* Postgres: n_distinct counts values, or is minus a percentage of the     *)
(* rows.  DuckDB: the row count stands for the distinct values.            *)
SelectivityExceeds(stats, n) ==
    IF kind = "duckdb" THEN Exceeds(n, stats.rows, asked)
    ELSE IF stats.distinct > 0 THEN Exceeds(n, stats.distinct, asked)
    ELSE Exceeds(n * 100, -stats.distinct * stats.rows, asked)

InList(p) == NumKeys(p) > 0 /\ NumKeys(p) < InCap /\ ~p.scan.injected

\* MUTANT of DuckWhole: the key type is not asked about.
DuckWholeByCount(p, k) == k = "duckdb" /\ NumKeys(p) > DuckTempCap
\* MUTANT of DuckWhole: the ingest ceiling is forgotten.
DuckWholeByType(p, k) == k = "duckdb" /\ ~p.ingestable
DuckWhole(p, k) == k = "duckdb" /\ (NumKeys(p) > DuckTempCap \/ ~p.ingestable)

\* MUTANT of AsksIndex: whatever the source.
AsksIndexAnyKind(p, k) == p.scan.structured
AsksIndex(p, k) == k = "postgres" /\ p.scan.structured

(* unselective_probe_scan goes by the kind that was looked up first.       *)
ReadsInParallel == strategy = "parallel" \/ (strategy = "unselective" /\ chosen = "postgres")

Read(p, how) ==
    CASE how = "source"      -> FetchScan(p.scan, Rows)
      [] how = "parallel"    -> ParallelProbeScan(p.scan)
      [] how = "nothing"     -> FetchScan(p.scan, {})
      [] how = "in_list"     -> FetchScan(p.scan, Matching(p.keys) \intersect ExtraFilter(p.extra))
      [] how = "whole"       -> FetchScan(p.scan, ExtraFilter(p.extra))
      [] how = "unselective" -> IF chosen = "postgres" THEN ParallelProbeScan(p.scan)
                                ELSE FetchScan(p.scan, Rows)
      [] how = "temp_table"  -> TempTableProbe(p.scan, p.keys)

---------------------------------------------------------------------------
(* The steps of a scan *)

NoRows  == [r \in Rows |-> 0]
NoProbe == [scan |-> [structured |-> FALSE, distinct |-> FALSE, injected |-> FALSE,
                      passing |-> Rows],
            keys |-> {}, extra |-> {}, ndv |-> 0, ingestable |-> FALSE]

Goes(next, how) == at' = next /\ strategy' = how
Fails == at' = "failed" /\ UNCHANGED strategy

Begin(p) ==
    /\ at = "idle" /\ probes < MaxProbes
    /\ probe' = p /\ probes' = probes + 1
    /\ UNCHANGED <<source, cached, chosen, answer, asked, rows, replaced>>

InjectedScan ==
    \E p \in Probes :
        /\ Begin(p)
        /\ IF p.keys = {} THEN Goes("fetch", "nothing")
           ELSE IF InList(p) THEN Goes("fetch", "in_list")
           ELSE Goes("choose", "none")

(* fetch_source, for a scan the planner marked parallel or not.            *)
SourceScan ==
    \E s \in {t \in Scans : ~t.injected}, parallel \in BOOLEAN :
        /\ Begin([NoProbe EXCEPT !.scan = s])
        /\ IF parallel THEN Goes("require", "parallel") ELSE Goes("fetch", "source")

(* require_parallelizable; distinct stands for DISTINCT or LIMIT.          *)
Parallelizable(s) == kind = "postgres" /\ s.structured /\ ~s.distinct
RequireParallelizable ==
    /\ at = "require"
    /\ IF Parallelizable(probe.scan) THEN Goes("fetch", strategy) ELSE Fails
    /\ UNCHANGED <<source, cached, probe, chosen, answer, asked, rows, replaced, probes>>

Choose ==
    /\ at = "choose" /\ chosen' = kind
    /\ IF kind = "parquet" \/ DuckWhole(probe, kind) THEN Goes("fetch", "whole")
       ELSE IF AsksIndex(probe, kind) THEN Goes("index", "none")
       ELSE IF probe.scan.structured THEN Goes("fraction", "none")
       ELSE Goes("fetch", "temp_table")
    /\ UNCHANGED <<source, cached, probe, answer, asked, rows, replaced, probes>>

AfterIndex(has) == IF has = "yes" THEN Goes("fraction", "none") ELSE Goes("fetch", "unselective")

(* column_has_index: a cached answer is never asked for again.             *)
IndexCached ==
    /\ at = "index" /\ cached # "unknown"
    /\ answer' = cached /\ AfterIndex(cached)
    /\ UNCHANGED <<source, cached, probe, chosen, asked, rows, replaced, probes>>

(* The catalog of whatever source has the name now answers, unlocked...    *)
AskCatalog ==
    /\ at = "index" /\ cached = "unknown"
    /\ answer' \in IF kind = "postgres" THEN {IF indexed THEN "yes" ELSE "no"} ELSE {"yes", "no"}
    /\ Goes("cache", strategy)
    /\ UNCHANGED <<source, cached, probe, chosen, asked, rows, replaced, probes>>

(* ... and the answer stays.                                               *)
CacheAnswer ==
    /\ at = "cache" /\ cached' = answer /\ AfterIndex(answer)
    /\ UNCHANGED <<source, probe, chosen, answer, asked, rows, replaced, probes>>

Decide(exceeds) == IF exceeds THEN Goes("fetch", "unselective") ELSE Goes("fetch", "temp_table")

(* fetches_most_of_table: the threshold is that of the kind it looks up.   *)
AskThreshold ==
    /\ at = "fraction" /\ asked' = kind
    /\ IF probe.ndv > 0 THEN Decide(Exceeds(NumKeys(probe), probe.ndv, kind))
       ELSE Goes("estimate", "none")
    /\ UNCHANGED <<source, cached, probe, chosen, answer, rows, replaced, probes>>

(* estimate_selectivity; DataFusion over Parquet has no catalog to ask.    *)
Estimate ==
    /\ at = "estimate"
    /\ IF kind = "parquet" THEN Fails
       ELSE \E stats \in Stats : Decide(SelectivityExceeds(stats, NumKeys(probe)))
    /\ UNCHANGED <<source, cached, probe, chosen, answer, asked, rows, replaced, probes>>

(* fetch_parallel and fetch_temp_join look at the kind once more.          *)
Refused ==
    \/ ReadsInParallel /\ kind # "postgres"
    \/ strategy = "temp_table" /\ (kind = "parquet" \/ (kind = "duckdb" /\ ~probe.ingestable))
Fetch ==
    /\ at = "fetch"
    /\ IF Refused THEN Fails /\ UNCHANGED rows
       ELSE Goes("done", strategy) /\ rows' = Read(probe, strategy)
    /\ UNCHANGED <<source, cached, probe, chosen, answer, asked, replaced, probes>>

(* A statement meant for another source fails.                             *)
StatementFails ==
    /\ replaced /\ at \in {"index", "estimate", "fetch"} /\ Fails
    /\ UNCHANGED <<source, cached, probe, chosen, answer, asked, rows, replaced, probes>>

Ended == at \in {"done", "failed"}
Reset ==
    /\ Ended /\ at' = "idle"
    /\ probe' = NoProbe /\ chosen' = "none" /\ answer' = "unknown" /\ asked' = "none"
    /\ strategy' = "none" /\ rows' = NoRows /\ replaced' = FALSE
    /\ UNCHANGED <<source, cached, probes>>

---------------------------------------------------------------------------
(* What goes on meanwhile *)

Others == UNCHANGED <<at, probe, chosen, answer, asked, strategy, rows, probes>>

(* The table changes, the index comes or goes.                             *)
DatabaseChanges ==
    /\ ~Ended /\ indexed' \in BOOLEAN /\ table' \in Tables
    /\ UNCHANGED <<kind, cached, replaced>> /\ Others

Register ==
    /\ ~Ended /\ kind' \in Kinds /\ table' \in Tables /\ indexed' \in BOOLEAN
    /\ replaced' = (at # "idle")
    /\ UNCHANGED cached /\ Others

(* Another query inserts an answer, however old.                           *)
OtherCaches ==
    /\ ~Ended /\ cached' \in {"yes", "no"}
    /\ UNCHANGED <<source, replaced>> /\ Others

Init ==
    /\ kind \in Kinds /\ table \in Tables /\ indexed \in BOOLEAN
    /\ cached = "unknown" /\ probes = 0
    /\ at = "idle" /\ probe = NoProbe /\ chosen = "none" /\ answer = "unknown" /\ asked = "none"
    /\ strategy = "none" /\ rows = NoRows /\ replaced = FALSE

Next ==
    \/ InjectedScan \/ SourceScan \/ RequireParallelizable \/ Choose
    \/ IndexCached \/ AskCatalog \/ CacheAnswer \/ AskThreshold \/ Estimate
    \/ Fetch \/ StatementFails \/ Reset
    \/ DatabaseChanges \/ Register \/ OtherCaches
Spec == Init /\ [][Next]_vars

---------------------------------------------------------------------------
(* Properties *)

Strategies == {"source", "parallel", "nothing", "in_list", "whole", "unselective", "temp_table"}

(* The state is well typed; an index is only asked about for what was a    *)
(* structured Postgres probe.                                              *)
TypeOK ==
    /\ kind \in Kinds /\ table \in Tables /\ indexed \in BOOLEAN
    /\ cached \in {"unknown", "yes", "no"}
    /\ at \in {"idle", "require", "choose", "index", "cache", "fraction", "estimate", "fetch",
               "done", "failed"}
    /\ probe \in Probes
    /\ chosen \in Kinds \union {"none"} /\ asked \in Kinds \union {"none"}
    /\ answer \in {"unknown", "yes", "no"}
    /\ answer # "unknown" => chosen = "postgres" /\ probe.scan.structured
    /\ strategy \in Strategies \union {"none"}
    /\ rows \in [Rows -> Nat] /\ replaced \in BOOLEAN
    /\ probes \in 0..MaxProbes

(* The join downstream keeps the rows whose keys match, on both columns (a *)
(* query without an extra injection joins as one whose keys are all Exts). *)
Joined(bag, p) == Select(bag, Matching(p.keys) \intersect {r \in Rows : r.ext \in p.extra})
Base(p) == FetchScan(p.scan, Rows)

(* Whatever the strategy, however stale the index cache, the estimates and *)
(* the kinds that were looked up: a scan that is not refused returns rows  *)
(* of the source its name stands for when it fetches.  A source scan       *)
(* returns exactly its rows.  For an injected probe THAT IS NOT DISTINCT   *)
(* the join sees what it would see of the whole probe, and no row is read  *)
(* that the scan's own filter excludes or more often than the table has    *)
(* it.  DISTINCT probes are excluded because the code breaks it for them:  *)
(* DistinctProbeJoinsExactly, below.                                       *)
JoinSeesTheWholeProbe ==
    at = "done" =>
        /\ strategy \in {"source", "parallel"} => rows = Base(probe)
        /\ ~probe.scan.distinct =>
              /\ Joined(rows, probe) = Joined(Base(probe), probe)
              /\ \A r \in Rows : rows[r] <= Base(probe)[r]

(* Keys travel to a source only where they may: never to Parquet, nor to   *)
(* DuckDB in a type it cannot represent.  And unless the source was        *)
(* replaced on the way, not to a Postgres table said to be unindexed, or   *)
(* more of them to DuckDB than it is worth ingesting.                      *)
KeysTravelWhereTheyMay ==
    at = "done" /\ strategy = "temp_table" =>
        /\ kind # "parquet"
        /\ kind = "duckdb" => probe.ingestable
        /\ ~replaced =>
              /\ kind = "postgres" /\ probe.scan.structured => answer = "yes"
              /\ kind = "duckdb" => NumKeys(probe) <= DuckTempCap

(* The strategies never choose what a fetch refuses: a scan of a source    *)
(* that stays what it is fails only as a plan that marks parallel what is  *)
(* no plain Postgres table read (engine.rs:507).                           *)
RefusedOnlyIfReplaced ==
    at = "failed" => replaced \/ (strategy = "parallel" /\ ~Parallelizable(probe.scan))

(* The temp-table query is "the probe scan restricted to rows whose        *)
(* `inject_col` appears in the ingested keys temp table" (sql.rs:138), and *)
(* of the paths that render their own SQL, it and the parallel read, "the  *)
(* downstream join keeps exactness" (engine.rs:624): a probe that is       *)
(* DISTINCT joins as its distinct rows do, however it is read.             *)
DistinctProbeJoinsExactly ==
    at = "done" /\ probe.scan.distinct => Joined(rows, probe) = Joined(Base(probe), probe)

=============================================================================
