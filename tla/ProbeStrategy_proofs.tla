------------------------ MODULE ProbeStrategy_proofs ------------------------
(***************************************************************************)
(* What ProbeStrategy's properties say holds of every table, every key     *)
(* set, both caps and every estimate, whoever registers what while a scan  *)
(* runs.  One invariant carries them: at each step, what the steps before  *)
(* it established about the kind that was looked up first, and that this   *)
(* kind is still the source's unless the name was registered again.        *)
(***************************************************************************)
EXTENDS ProbeStrategy, FiniteSetTheorems, TLAPS

(* The kind that was looked up first is one keys may be shipped to.        *)
Shippable ==
    /\ chosen \in {"postgres", "duckdb"} /\ ~DuckWhole(probe, chosen)
    /\ AsksIndex(probe, chosen) => answer = "yes"

(* What is established where the scan is.                                  *)
AtStep ==
    /\ at = "idle" => chosen = "none" /\ answer = "unknown" /\ strategy = "none"
    /\ at = "require" => strategy = "parallel"
    /\ at \in {"require", "choose", "index"} => answer = "unknown"
    /\ at \in {"index", "cache"} => AsksIndex(probe, chosen) /\ ~DuckWhole(probe, chosen)
    /\ at = "cache" => answer \in {"yes", "no"}
    /\ at \in {"fraction", "estimate"} => Shippable
    /\ at = "estimate" => asked \in Kinds
    /\ at \in {"choose", "index", "cache", "fraction", "estimate"} => strategy = "none"
    /\ at \in {"fetch", "done"} => strategy \in Strategies

(* What a strategy that was chosen rests on.                               *)
Chosen ==
    /\ strategy = "nothing" => probe.keys = {}
    /\ strategy = "parallel" /\ at \in {"fetch", "done"} => ~probe.scan.distinct
    /\ strategy = "parallel" /\ at = "fetch" /\ ~replaced => kind = "postgres"
    /\ strategy = "unselective" => chosen \in {"postgres", "duckdb"}
    /\ strategy = "temp_table" => Shippable

(* The first look-up still holds, unless the name was registered again.    *)
Current == ~replaced /\ chosen # "none" => kind = chosen

(* What was fetched.                                                       *)
Fetched == at = "done" => rows = Read(probe, strategy) /\ ~Refused

Failed == at = "failed" => replaced \/ (strategy = "parallel" /\ ~Parallelizable(probe.scan))

Inv == TypeOK /\ AtStep /\ Chosen /\ Current /\ Fetched /\ Failed

---------------------------------------------------------------------------
(* The reads *)

LEMMA SelectType ==
    ASSUME NEW bag \in [Rows -> Nat], NEW S
    PROVE  /\ Select(bag, S) \in [Rows -> Nat]
           /\ \A r \in Rows : Select(bag, S)[r] = IF r \in S THEN bag[r] ELSE 0
  BY DEF Select

LEMMA DistinctType ==
    ASSUME NEW bag \in [Rows -> Nat]
    PROVE  Distinct(bag) \in [Rows -> Nat]
  BY DEF Distinct

(* Every read of a table is a bag of its rows.                             *)
LEMMA ReadType ==
    ASSUME table \in [Rows -> Nat], NEW p \in Probes, NEW how \in Strategies
    PROVE  Read(p, how) \in [Rows -> Nat]
  <1>1. \A filter : FetchScan(p.scan, filter) \in [Rows -> Nat]
    <2>1. TAKE filter
    <2>2. Select(table, p.scan.passing \intersect filter) \in [Rows -> Nat]
      BY SelectType
    <2>3. Distinct(Select(table, p.scan.passing \intersect filter)) \in [Rows -> Nat]
      BY <2>2, DistinctType
    <2>4. QED
      BY <2>2, <2>3 DEF FetchScan
  <1>2. ParallelProbeScan(p.scan) \in [Rows -> Nat]
    BY SelectType DEF ParallelProbeScan
  <1>3. TempTableProbe(p.scan, p.keys) \in [Rows -> Nat]
    BY SelectType DEF TempTableProbe
  <1>4. QED
    BY <1>1, <1>2, <1>3 DEF Read, Strategies

(* What the static filter lets through are rows.                           *)
LEMMA PassingRows ==
    ASSUME NEW p \in Probes
    PROVE  p.scan.passing \subseteq Rows
  <1>1. p.scan.passing = Rows \/ p.scan.passing = [key : Keys, ext : Exts]
    BY DEF Probes, Scans
  <1>2. [key : Keys, ext : Exts] \subseteq Rows
    BY DEF Rows
  <1>3. QED
    BY <1>1, <1>2

(* A read without DISTINCT selects the rows of some set: all that pass the *)
(* static filter and that the join keeps, and none that does not pass.     *)
LEMMA ReadSelects ==
    ASSUME NEW p \in Probes, NEW how \in Strategies, ~p.scan.distinct,
           how = "nothing" => p.keys = {}
    PROVE  \E S \in SUBSET p.scan.passing :
              /\ Read(p, how) = Select(table, S)
              /\ \A r \in p.scan.passing : r.key \in p.keys /\ r.ext \in p.extra => r \in S
  <1>1. p.scan.passing \subseteq Rows
    BY PassingRows
  <1>2. \A filter : FetchScan(p.scan, filter) = Select(table, p.scan.passing \intersect filter)
    BY DEF FetchScan
  <1>3. CASE how = "nothing"
    <2>1. Read(p, how) = Select(table, p.scan.passing \intersect {})
      BY <1>2, <1>3 DEF Read
    <2>2. p.keys = {}
      BY <1>3
    <2>3. QED
      BY <2>1, <2>2
  <1>4. CASE how = "in_list"
    <2> DEFINE S == p.scan.passing \intersect (Matching(p.keys) \intersect ExtraFilter(p.extra))
    <2>1. Read(p, how) = Select(table, S)
      BY <1>2, <1>4 DEF Read
    <2>2. \A r \in p.scan.passing : r.key \in p.keys /\ r.ext \in p.extra => r \in S
      BY <1>1 DEF Matching, ExtraFilter
    <2>3. QED
      BY <2>1, <2>2
  <1>5. CASE how = "whole"
    <2> DEFINE S == p.scan.passing \intersect ExtraFilter(p.extra)
    <2>1. Read(p, how) = Select(table, S)
      BY <1>2, <1>5 DEF Read
    <2>2. \A r \in p.scan.passing : r.key \in p.keys /\ r.ext \in p.extra => r \in S
      BY <1>1 DEF ExtraFilter
    <2>3. QED
      BY <2>1, <2>2
  <1>6. CASE how = "unselective"
    <2>1. p.scan.passing \intersect Rows = p.scan.passing
      BY <1>1
    <2>2. Read(p, how) = Select(table, p.scan.passing)
      BY <1>2, <1>6, <2>1 DEF Read, ParallelProbeScan
    <2>3. QED
      BY <2>2
  <1>7. CASE how = "temp_table"
    <2> DEFINE S == p.scan.passing \intersect Matching(p.keys)
    <2>1. Read(p, how) = Select(table, S)
      BY <1>7 DEF Read, TempTableProbe
    <2>2. \A r \in p.scan.passing : r.key \in p.keys /\ r.ext \in p.extra => r \in S
      BY <1>1 DEF Matching
    <2>3. QED
      BY <2>1, <2>2
  <1>8. CASE how \in {"source", "parallel"}
    <2>1. p.scan.passing \intersect Rows = p.scan.passing
      BY <1>1
    <2>2. Read(p, how) = Select(table, p.scan.passing)
      BY <1>2, <1>8, <2>1 DEF Read, ParallelProbeScan
    <2>3. QED
      BY <2>2
  <1>9. QED
    BY <1>3, <1>4, <1>5, <1>6, <1>7, <1>8 DEF Strategies

(* Such a read and the whole probe are the same to the join.               *)
LEMMA JoinCannotTell ==
    ASSUME table \in [Rows -> Nat], NEW p \in Probes, NEW how \in Strategies,
           ~p.scan.distinct, how = "nothing" => p.keys = {}
    PROVE  /\ Joined(Read(p, how), p) = Joined(Base(p), p)
           /\ \A r \in Rows : Read(p, how)[r] <= Base(p)[r]
  <1> DEFINE K == Matching(p.keys) \intersect {r \in Rows : r.ext \in p.extra}
  <1>1. PICK S \in SUBSET p.scan.passing :
            /\ Read(p, how) = Select(table, S)
            /\ \A r \in p.scan.passing : r.key \in p.keys /\ r.ext \in p.extra => r \in S
    BY ReadSelects
  <1>2. Base(p) = Select(table, p.scan.passing)
    <2>1. p.scan.passing \intersect Rows = p.scan.passing
      BY PassingRows
    <2>2. QED
      BY <2>1 DEF Base, FetchScan
  <1>3. \A r \in K : r \in S <=> r \in p.scan.passing
    BY <1>1 DEF Matching
  <1>4. \A r \in Rows : /\ Read(p, how)[r] = IF r \in S THEN table[r] ELSE 0
                        /\ Base(p)[r] = IF r \in p.scan.passing THEN table[r] ELSE 0
    BY <1>1, <1>2, SelectType
  <1>5. Joined(Read(p, how), p) = [r \in Rows |-> IF r \in K THEN Read(p, how)[r] ELSE 0]
    <2>1. DOMAIN Read(p, how) = Rows
      BY <1>1, SelectType
    <2>2. QED
      BY <2>1 DEF Joined, Select
  <1>6. Joined(Base(p), p) = [r \in Rows |-> IF r \in K THEN Base(p)[r] ELSE 0]
    <2>1. DOMAIN Base(p) = Rows
      BY <1>2, SelectType
    <2>2. QED
      BY <2>1 DEF Joined, Select
  <1>7. \A r \in Rows : r \in K => Read(p, how)[r] = Base(p)[r]
    BY <1>3, <1>4
  <1>8. Joined(Read(p, how), p) = Joined(Base(p), p)
    BY <1>5, <1>6, <1>7
  <1>9. \A r \in Rows : Read(p, how)[r] <= Base(p)[r]
    <2>1. TAKE r \in Rows
    <2>2. table[r] \in Nat
      OBVIOUS
    <2>3. r \in S => r \in p.scan.passing
      BY <1>1
    <2>4. QED
      BY <1>4, <2>2, <2>3
  <1>10. QED
    BY <1>8, <1>9

---------------------------------------------------------------------------
(* The invariant *)

LEMMA NoRowsType == NoRows \in [Rows -> Nat]
  BY DEF NoRows

LEMMA NoProbeType == NoProbe \in Probes
  <1>1. NoProbe.scan \in Scans
    BY DEF NoProbe, Scans
  <1>2. QED
    BY <1>1, ProbeAssumption DEF NoProbe, Probes

LEMMA SourceProbeType ==
    ASSUME NEW s \in Scans
    PROVE  /\ [NoProbe EXCEPT !.scan = s] \in Probes
           /\ [NoProbe EXCEPT !.scan = s].scan = s
  BY ProbeAssumption DEF NoProbe, Probes

LEMMA InitInv == Init => Inv
  <1>1. SUFFICES ASSUME Init PROVE Inv
    OBVIOUS
  <1>2. TypeOK
    <2>1. rows \in [Rows -> Nat] /\ probe \in Probes
      BY <1>1, NoRowsType, NoProbeType DEF Init
    <2>2. probes \in 0..MaxProbes
      BY <1>1, ProbeAssumption DEF Init
    <2>3. QED
      BY <1>1, <2>1, <2>2 DEF Init, TypeOK
  <1>3. AtStep /\ Chosen /\ Current /\ Fetched /\ Failed
    BY <1>1 DEF Init, AtStep, Chosen, Current, Fetched, Failed
  <1>4. QED
    BY <1>2, <1>3 DEF Inv

(* A scan that begins.                                                     *)
LEMMA BeginInv ==
    ASSUME Inv, NEW p \in Probes, Begin(p),
           \/ Goes("fetch", "nothing") /\ p.keys = {}
           \/ Goes("fetch", "in_list")
           \/ Goes("fetch", "source")
           \/ Goes("choose", "none")
           \/ Goes("require", "parallel")
    PROVE  Inv'
  <1>1. at = "idle" /\ chosen = "none" /\ answer = "unknown" /\ probe' = p
        /\ UNCHANGED <<source, cached, chosen, answer, asked, rows, replaced>>
    BY DEF Begin, Inv, AtStep
  <1>2. probes' \in 0..MaxProbes
    BY ProbeAssumption DEF Begin, Inv, TypeOK
  <1>3. TypeOK'
    BY <1>1, <1>2 DEF Inv, TypeOK, Goes, Strategies, source
  <1>4. AtStep'
    BY <1>1 DEF AtStep, Goes, Strategies
  <1>5. Chosen' /\ Current' /\ Fetched' /\ Failed'
    BY <1>1 DEF Chosen, Current, Fetched, Failed, Goes
  <1>6. QED
    BY <1>3, <1>4, <1>5 DEF Inv

LEMMA InjectedScanInv == Inv /\ InjectedScan => Inv'
  <1>1. SUFFICES ASSUME Inv, InjectedScan PROVE Inv'
    OBVIOUS
  <1>2. PICK p \in Probes :
            /\ Begin(p)
            /\ \/ Goes("fetch", "nothing") /\ p.keys = {}
               \/ Goes("fetch", "in_list")
               \/ Goes("choose", "none")
    BY <1>1 DEF InjectedScan
  <1>3. QED
    BY <1>1, <1>2, BeginInv

LEMMA SourceScanInv == Inv /\ SourceScan => Inv'
  <1>1. SUFFICES ASSUME Inv, SourceScan PROVE Inv'
    OBVIOUS
  <1>2. PICK s \in Scans :
            /\ Begin([NoProbe EXCEPT !.scan = s])
            /\ Goes("require", "parallel") \/ Goes("fetch", "source")
    BY <1>1 DEF SourceScan
  <1>3. [NoProbe EXCEPT !.scan = s] \in Probes
    BY SourceProbeType
  <1>4. QED
    BY <1>1, <1>2, <1>3, BeginInv

LEMMA RequireInv == Inv /\ RequireParallelizable => Inv'
  <1>1. SUFFICES ASSUME Inv, RequireParallelizable PROVE Inv'
    OBVIOUS
  <1>2. /\ at = "require" /\ strategy = "parallel" /\ strategy' = strategy
        /\ answer = "unknown"
        /\ \/ at' = "fetch" /\ Parallelizable(probe.scan)
           \/ at' = "failed" /\ ~Parallelizable(probe.scan)
        /\ UNCHANGED <<source, cached, probe, chosen, answer, asked, rows, replaced, probes>>
    BY <1>1 DEF RequireParallelizable, Goes, Fails, Inv, AtStep
  <1>3. TypeOK'
    BY <1>1, <1>2 DEF Inv, TypeOK, source
  <1>4. AtStep'
    BY <1>2 DEF AtStep, Strategies
  <1>5. Chosen' /\ Current' /\ Fetched' /\ Failed'
    BY <1>1, <1>2 DEF Inv, Chosen, Current, Fetched, Failed, Parallelizable, source
  <1>6. QED
    BY <1>3, <1>4, <1>5 DEF Inv

LEMMA ChooseInv == Inv /\ Choose => Inv'
  <1>1. SUFFICES ASSUME Inv, Choose PROVE Inv'
    OBVIOUS
  <1>2. /\ at = "choose" /\ answer = "unknown" /\ strategy = "none" /\ chosen' = kind
        /\ UNCHANGED <<source, cached, probe, answer, asked, rows, replaced, probes>>
        /\ kind \in Kinds
    BY <1>1 DEF Choose, Inv, AtStep, TypeOK
  <1>3. \/ at' = "fetch" /\ strategy' = "whole"
        \/ /\ kind # "parquet" /\ ~DuckWhole(probe, kind)
           /\ \/ at' = "index" /\ strategy' = "none" /\ AsksIndex(probe, kind)
              \/ at' = "fraction" /\ strategy' = "none" /\ ~AsksIndex(probe, kind)
              \/ at' = "fetch" /\ strategy' = "temp_table" /\ ~AsksIndex(probe, kind)
    BY <1>1 DEF Choose, Goes
  <1>4. TypeOK'
    BY <1>1, <1>2, <1>3 DEF Inv, TypeOK, source, Strategies
  <1>5. DuckWhole(probe, chosen)' = DuckWhole(probe, kind)
        /\ AsksIndex(probe, chosen)' = AsksIndex(probe, kind)
    BY <1>2 DEF DuckWhole, AsksIndex, NumKeys
  <1>6. at' = "fraction" \/ strategy' = "temp_table" => Shippable'
    BY <1>2, <1>3, <1>5 DEF Shippable, Kinds
  <1>7. AtStep'
    BY <1>2, <1>3, <1>5, <1>6 DEF AtStep, Strategies
  <1>8. Chosen' /\ Current' /\ Fetched' /\ Failed'
    BY <1>2, <1>3, <1>6 DEF Chosen, Current, Fetched, Failed, source
  <1>9. QED
    BY <1>4, <1>7, <1>8 DEF Inv

(* The steps that leave the source and what was looked up first alone.     *)
LEMMA LookUpsKept ==
    ASSUME probe' = probe, chosen' = chosen, answer' = answer
    PROVE  Shippable' = Shippable /\ DuckWhole(probe, chosen)' = DuckWhole(probe, chosen)
           /\ AsksIndex(probe, chosen)' = AsksIndex(probe, chosen)
  BY DEF Shippable, DuckWhole, AsksIndex, NumKeys

(* column_has_index has answered: of an indexed column the fraction is     *)
(* asked next.                                                             *)
LEMMA AnsweredInv ==
    ASSUME Inv, at \in {"index", "cache"}, answer' \in {"yes", "no"}, AfterIndex(answer'),
           cached' \in {"unknown", "yes", "no"},
           UNCHANGED <<source, probe, chosen, asked, rows, replaced, probes>>
    PROVE  Inv'
  <1>1. /\ AsksIndex(probe, chosen) /\ ~DuckWhole(probe, chosen)
        /\ chosen = "postgres" /\ probe.scan.structured
    BY DEF Inv, AtStep, AsksIndex
  <1>2. \/ at' = "fraction" /\ strategy' = "none" /\ answer' = "yes"
        \/ at' = "fetch" /\ strategy' = "unselective"
    BY DEF AfterIndex, Goes
  <1>3. TypeOK'
    BY <1>1, <1>2 DEF Inv, TypeOK, source, Strategies
  <1>4. ~DuckWhole(probe, chosen)' /\ chosen' = "postgres"
    BY <1>1 DEF DuckWhole
  <1>5. at' = "fraction" => Shippable'
    BY <1>2, <1>4 DEF Shippable
  <1>6. AtStep' /\ Chosen'
    BY <1>2, <1>4, <1>5 DEF AtStep, Chosen, Strategies
  <1>7. Current' /\ Fetched' /\ Failed'
    BY <1>2 DEF Inv, Current, Fetched, Failed, source
  <1>8. QED
    BY <1>3, <1>6, <1>7 DEF Inv

LEMMA IndexCachedInv == Inv /\ IndexCached => Inv'
  <1>1. SUFFICES ASSUME Inv, IndexCached PROVE Inv'
    OBVIOUS
  <1>2. /\ at = "index" /\ cached \in {"yes", "no"} /\ answer' = cached
        /\ AfterIndex(cached) /\ cached' = cached
        /\ UNCHANGED <<source, probe, chosen, asked, rows, replaced, probes>>
    BY <1>1 DEF IndexCached, Inv, TypeOK
  <1>3. AfterIndex(answer')
    BY <1>2 DEF AfterIndex, Goes
  <1>4. QED
    BY <1>1, <1>2, <1>3, AnsweredInv

LEMMA AskCatalogInv == Inv /\ AskCatalog => Inv'
  <1>1. SUFFICES ASSUME Inv, AskCatalog PROVE Inv'
    OBVIOUS
  <1>2. /\ at = "index" /\ at' = "cache" /\ strategy' = strategy /\ strategy = "none"
        /\ answer' \in {"yes", "no"}
        /\ AsksIndex(probe, chosen) /\ ~DuckWhole(probe, chosen)
        /\ UNCHANGED <<source, cached, probe, chosen, asked, rows, replaced, probes>>
    BY <1>1 DEF AskCatalog, Goes, Inv, AtStep
  <1>3. chosen = "postgres" /\ probe.scan.structured
    BY <1>2 DEF AsksIndex
  <1>4. TypeOK'
    BY <1>1, <1>2, <1>3 DEF Inv, TypeOK, source
  <1>5. AsksIndex(probe, chosen)' /\ ~DuckWhole(probe, chosen)'
    BY <1>2, <1>3 DEF AsksIndex, DuckWhole
  <1>6. AtStep'
    BY <1>2, <1>5 DEF AtStep
  <1>7. Chosen' /\ Current' /\ Fetched' /\ Failed'
    BY <1>1, <1>2 DEF Inv, Chosen, Current, Fetched, Failed, source
  <1>8. QED
    BY <1>4, <1>6, <1>7 DEF Inv

LEMMA CacheAnswerInv == Inv /\ CacheAnswer => Inv'
  <1>1. SUFFICES ASSUME Inv, CacheAnswer PROVE Inv'
    OBVIOUS
  <1>2. /\ at = "cache" /\ answer \in {"yes", "no"} /\ answer' = answer
        /\ AfterIndex(answer) /\ cached' = answer
        /\ UNCHANGED <<source, probe, chosen, asked, rows, replaced, probes>>
    BY <1>1 DEF CacheAnswer, Inv, AtStep
  <1>3. AfterIndex(answer')
    BY <1>2 DEF AfterIndex, Goes
  <1>4. QED
    BY <1>1, <1>2, <1>3, AnsweredInv

(* fetches_most_of_table decides, has to ask for statistics first, or      *)
(* cannot.                                                                 *)
LEMMA DecidedInv ==
    ASSUME Inv, at \in {"fraction", "estimate"}, asked' \in Kinds,
           \/ at' = "fetch" /\ strategy' \in {"unselective", "temp_table"}
           \/ at' = "estimate" /\ strategy' = "none"
           \/ at' = "failed" /\ strategy' = strategy /\ kind = "parquet",
           UNCHANGED <<source, cached, probe, chosen, answer, rows, replaced, probes>>
    PROVE  Inv'
  <1>1. Shippable /\ strategy = "none" /\ chosen \in {"postgres", "duckdb"}
    BY DEF Inv, AtStep, Shippable
  <1>2. TypeOK'
    BY <1>1 DEF Inv, TypeOK, source, Strategies
  <1>3. Shippable'
    BY <1>1, LookUpsKept
  <1>4. AtStep' /\ Chosen'
    BY <1>1, <1>3 DEF AtStep, Chosen, Strategies
  <1>5. Current' /\ Fetched'
    BY DEF Inv, Current, Fetched, source
  <1>6. Failed'
    BY <1>1 DEF Inv, Current, Failed, source
  <1>7. QED
    BY <1>2, <1>4, <1>5, <1>6 DEF Inv

LEMMA AskThresholdInv == Inv /\ AskThreshold => Inv'
  <1>1. SUFFICES ASSUME Inv, AskThreshold PROVE Inv'
    OBVIOUS
  <1>2. at = "fraction" /\ asked' \in Kinds
        /\ UNCHANGED <<source, cached, probe, chosen, answer, rows, replaced, probes>>
    BY <1>1 DEF AskThreshold, Inv, TypeOK
  <1>3. \/ at' = "fetch" /\ strategy' \in {"unselective", "temp_table"}
        \/ at' = "estimate" /\ strategy' = "none"
    BY <1>1 DEF AskThreshold, Decide, Goes
  <1>4. QED
    BY <1>1, <1>2, <1>3, DecidedInv

LEMMA FetchInv == Inv /\ Fetch => Inv'
  <1>1. SUFFICES ASSUME Inv, Fetch PROVE Inv'
    OBVIOUS
  <1>2. /\ at = "fetch" /\ strategy' = strategy /\ strategy \in Strategies
        /\ UNCHANGED <<source, cached, probe, chosen, answer, asked, replaced, probes>>
    BY <1>1 DEF Fetch, Goes, Fails, Inv, AtStep
  <1>3. \/ at' = "failed" /\ Refused /\ UNCHANGED rows
        \/ at' = "done" /\ ~Refused /\ rows' = Read(probe, strategy)
    BY <1>1 DEF Fetch, Goes, Fails
  <1>4. rows' \in [Rows -> Nat]
    <2>1. table \in [Rows -> Nat] /\ probe \in Probes /\ rows \in [Rows -> Nat]
      BY <1>1, ProbeAssumption DEF Inv, TypeOK
    <2>2. QED
      BY <1>2, <1>3, <2>1, ReadType
  <1>5. TypeOK'
    BY <1>1, <1>2, <1>3, <1>4 DEF Inv, TypeOK, source
  <1>6. Shippable' = Shippable
    BY <1>2, LookUpsKept
  <1>7. AtStep'
    BY <1>2, <1>3 DEF AtStep
  <1>8. Chosen' /\ Current'
    BY <1>1, <1>2, <1>3, <1>6 DEF Inv, Chosen, Current, source
  <1>9. Fetched'
    <2>1. Read(probe, strategy)' = Read(probe, strategy)
      BY <1>2 DEF Read, FetchScan, ParallelProbeScan, TempTableProbe, source
    <2>2. Refused' = Refused
      BY <1>2 DEF Refused, ReadsInParallel, source
    <2>3. QED
      BY <1>2, <1>3, <2>1, <2>2 DEF Fetched
  <1>10. Failed'
    <2>1. SUFFICES ASSUME Refused, ~replaced PROVE FALSE
      BY <1>2, <1>3 DEF Failed
    <2>2. chosen # "none" => kind = chosen
      BY <1>1, <2>1 DEF Inv, Current
    <2>3. CASE ReadsInParallel /\ kind # "postgres"
      BY <1>1, <1>2, <2>1, <2>2, <2>3 DEF Inv, Chosen, ReadsInParallel
    <2>4. CASE strategy = "temp_table" /\ (kind = "parquet" \/ (kind = "duckdb" /\ ~probe.ingestable))
      <3>1. Shippable
        BY <1>1, <2>4 DEF Inv, Chosen
      <3>2. QED
        BY <2>2, <2>4, <3>1 DEF Shippable, DuckWhole
    <2>5. QED
      BY <2>1, <2>3, <2>4 DEF Refused
  <1>11. QED
    BY <1>5, <1>7, <1>8, <1>9, <1>10 DEF Inv

LEMMA EstimateInv == Inv /\ Estimate => Inv'
  <1>1. SUFFICES ASSUME Inv, Estimate PROVE Inv'
    OBVIOUS
  <1>2. at = "estimate" /\ UNCHANGED <<source, cached, probe, chosen, answer, asked, rows, replaced, probes>>
    BY <1>1 DEF Estimate
  <1>3. \/ at' = "fetch" /\ strategy' \in {"unselective", "temp_table"}
        \/ at' = "failed" /\ strategy' = strategy /\ kind = "parquet"
    BY <1>1 DEF Estimate, Decide, Goes, Fails
  <1>4. asked \in Kinds
    BY <1>1, <1>2 DEF Inv, AtStep
  <1>5. QED
    BY <1>1, <1>2, <1>3, <1>4, DecidedInv

LEMMA StatementFailsInv == Inv /\ StatementFails => Inv'
  <1>1. SUFFICES ASSUME Inv, StatementFails PROVE Inv'
    OBVIOUS
  <1>2. /\ replaced /\ replaced' /\ at' = "failed" /\ strategy' = strategy
        /\ UNCHANGED <<source, cached, probe, chosen, answer, asked, rows, probes>>
    BY <1>1 DEF StatementFails, Fails, Inv, TypeOK
  <1>3. Shippable' = Shippable
    BY <1>2, LookUpsKept
  <1>4. TypeOK'
    BY <1>1, <1>2 DEF Inv, TypeOK, source, StatementFails
  <1>5. AtStep' /\ Chosen' /\ Current' /\ Fetched' /\ Failed'
    BY <1>1, <1>2, <1>3 DEF Inv, AtStep, Chosen, Current, Fetched, Failed
  <1>6. QED
    BY <1>4, <1>5 DEF Inv

LEMMA ResetInv == Inv /\ Reset => Inv'
  <1>1. SUFFICES ASSUME Inv, Reset PROVE Inv'
    OBVIOUS
  <1>2. TypeOK'
    BY <1>1, NoRowsType, NoProbeType DEF Inv, TypeOK, Reset, source
  <1>3. AtStep' /\ Chosen' /\ Current' /\ Fetched' /\ Failed'
    BY <1>1 DEF Reset, AtStep, Chosen, Current, Fetched, Failed
  <1>4. QED
    BY <1>2, <1>3 DEF Inv

(* What others do while the scan runs.                                     *)
LEMMA OthersInv ==
    ASSUME Inv, ~Ended, Others,
           kind' \in Kinds, table' \in Tables, indexed' \in BOOLEAN,
           cached' \in {"unknown", "yes", "no"}, replaced' \in BOOLEAN,
           (kind' = kind /\ replaced' = replaced) \/ at = "idle" \/ replaced'
    PROVE  Inv'
  <1>1. UNCHANGED <<at, probe, chosen, answer, asked, strategy, rows, probes>>
        /\ at \notin {"done", "failed"}
    BY DEF Others, Ended
  <1>2. Shippable' = Shippable /\ DuckWhole(probe, chosen)' = DuckWhole(probe, chosen)
        /\ AsksIndex(probe, chosen)' = AsksIndex(probe, chosen)
    BY <1>1, LookUpsKept
  <1>3. TypeOK'
    BY <1>1 DEF Inv, TypeOK
  <1>4. AtStep'
    BY <1>1, <1>2 DEF Inv, AtStep
  <1>5. Chosen' /\ Current'
    BY <1>1, <1>2 DEF Inv, Chosen, Current, AtStep
  <1>6. Fetched' /\ Failed'
    BY <1>1 DEF Fetched, Failed
  <1>7. QED
    BY <1>3, <1>4, <1>5, <1>6 DEF Inv

LEMMA EnvironmentInv == Inv /\ (DatabaseChanges \/ Register \/ OtherCaches) => Inv'
  <1>1. SUFFICES ASSUME Inv, DatabaseChanges \/ Register \/ OtherCaches PROVE Inv'
    OBVIOUS
  <1>2. CASE DatabaseChanges
    BY <1>1, <1>2, OthersInv DEF DatabaseChanges, Inv, TypeOK
  <1>3. CASE Register
    <2>1. replaced' \in BOOLEAN /\ (at = "idle" \/ replaced')
      BY <1>3 DEF Register
    <2>2. QED
      BY <1>1, <1>3, <2>1, OthersInv DEF Register, Inv, TypeOK
  <1>4. CASE OtherCaches
    BY <1>1, <1>4, OthersInv DEF OtherCaches, source, Inv, TypeOK
  <1>5. QED
    BY <1>1, <1>2, <1>3, <1>4

LEMMA StutterInv == Inv /\ UNCHANGED vars => Inv'
  <1>1. SUFFICES ASSUME Inv, UNCHANGED vars PROVE Inv'
    OBVIOUS
  <1>2. Shippable' = Shippable /\ DuckWhole(probe, chosen)' = DuckWhole(probe, chosen)
        /\ AsksIndex(probe, chosen)' = AsksIndex(probe, chosen)
    BY <1>1, LookUpsKept DEF vars
  <1>3. Read(probe, strategy)' = Read(probe, strategy) /\ Refused' = Refused
    BY <1>1 DEF vars, source, Read, FetchScan, ParallelProbeScan, TempTableProbe, Refused,
                ReadsInParallel
  <1>4. Parallelizable(probe.scan)' = Parallelizable(probe.scan)
    BY <1>1 DEF vars, source, Parallelizable
  <1>5. QED
    BY <1>1, <1>2, <1>3, <1>4
       DEF vars, source, Inv, TypeOK, AtStep, Chosen, Current, Fetched, Failed

LEMMA NextInv == Inv /\ [Next]_vars => Inv'
  BY InjectedScanInv, SourceScanInv, RequireInv, ChooseInv, IndexCachedInv, AskCatalogInv,
     CacheAnswerInv, AskThresholdInv, EstimateInv, FetchInv, StatementFailsInv, ResetInv,
     EnvironmentInv, StutterInv DEF Next

LEMMA Invariance == Spec => []Inv
  BY InitInv, NextInv, PTL DEF Spec

---------------------------------------------------------------------------

(* Every state is well typed, and column_has_index is only asked about     *)
(* structured probes of what was looked up as Postgres.                    *)
THEOREM ProbeTypeCorrect == Spec => []TypeOK
  <1>1. Inv => TypeOK
    BY DEF Inv
  <1>2. QED
    BY <1>1, Invariance, PTL

(* Every way a scan is read returns what the join downstream needs of it,  *)
(* and no row that the whole probe does not return; a source scan returns  *)
(* its rows: for every table, every key set and extra key set, every cap,  *)
(* however stale the index cache, whatever the estimate, and whoever       *)
(* registers what under the name while the scan runs.                      *)
THEOREM EveryStrategyIsExact == Spec => []JoinSeesTheWholeProbe
  <1>1. Inv => JoinSeesTheWholeProbe
    <2>1. SUFFICES ASSUME Inv, at = "done" PROVE JoinSeesTheWholeProbe
      BY DEF JoinSeesTheWholeProbe
    <2>2. /\ table \in [Rows -> Nat] /\ probe \in Probes /\ strategy \in Strategies
          /\ rows = Read(probe, strategy)
          /\ strategy = "nothing" => probe.keys = {}
          /\ strategy = "parallel" => ~probe.scan.distinct
      BY <2>1, ProbeAssumption DEF Inv, TypeOK, AtStep, Chosen, Fetched
    <2>3. strategy = "source" => rows = Base(probe)
      BY <2>2 DEF Read, Base
    <2>4. strategy = "parallel" => rows = Base(probe)
      <3>1. probe.scan.passing \intersect Rows = probe.scan.passing
        BY <2>2, PassingRows
      <3>2. QED
        BY <2>2, <3>1 DEF Read, Base, FetchScan, ParallelProbeScan
    <2>5. ~probe.scan.distinct =>
              /\ Joined(rows, probe) = Joined(Base(probe), probe)
              /\ \A r \in Rows : rows[r] <= Base(probe)[r]
      BY <2>2, JoinCannotTell
    <2>6. QED
      BY <2>3, <2>4, <2>5 DEF JoinSeesTheWholeProbe
  <1>2. QED
    BY <1>1, Invariance, PTL

(* The temp-table strategy is chosen only where its guards allow: for a    *)
(* structured Postgres table said to be indexed on the column, for DuckDB  *)
(* within the ingest cap and with a key type it can represent.             *)
THEOREM KeysStayWhereTheyMay == Spec => []KeysTravelWhereTheyMay
  <1>1. Inv => KeysTravelWhereTheyMay
    <2>1. SUFFICES ASSUME Inv, at = "done", strategy = "temp_table"
                   PROVE  /\ kind # "parquet"
                          /\ kind = "duckdb" => probe.ingestable
                          /\ ~replaced =>
                                /\ kind = "postgres" /\ probe.scan.structured => answer = "yes"
                                /\ kind = "duckdb" => NumKeys(probe) <= DuckTempCap
      BY DEF KeysTravelWhereTheyMay
    <2>2. kind # "parquet" /\ (kind = "duckdb" => probe.ingestable)
      BY <2>1 DEF Inv, Fetched, Refused
    <2>3. ASSUME ~replaced
          PROVE  /\ kind = "postgres" /\ probe.scan.structured => answer = "yes"
                 /\ kind = "duckdb" => ~(NumKeys(probe) > DuckTempCap)
      BY <2>1, <2>3 DEF Inv, Chosen, Current, Shippable, AsksIndex, DuckWhole
    <2>4. NumKeys(probe) \in Nat
      <3>1. IsFiniteSet(probe.keys)
        BY <2>1, ProbeAssumption, FS_Subset DEF Inv, TypeOK, Probes
      <3>2. QED
        BY <3>1, FS_CardinalityType DEF NumKeys
    <2>5. QED
      BY <2>2, <2>3, <2>4, ProbeAssumption
  <1>2. QED
    BY <1>1, Invariance, PTL

(* No strategy is chosen that the fetch then refuses, unless the name was  *)
(* registered again on the way or the plan marked parallel what is no      *)
(* plain Postgres table read.                                              *)
THEOREM ChoicesAreServed == Spec => []RefusedOnlyIfReplaced
  <1>1. Inv => RefusedOnlyIfReplaced
    BY DEF Inv, Failed, RefusedOnlyIfReplaced
  <1>2. QED
    BY <1>1, Invariance, PTL
=============================================================================
