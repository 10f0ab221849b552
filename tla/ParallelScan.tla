---------------------------- MODULE ParallelScan ----------------------------
(***************************************************************************)
(* The ctid-partitioned parallel scan of one Postgres table                *)
(* (src/src/connectors.rs: fetch_parallel, parallel_pool, worker_loop).    *)
(* Scans run on the threads of their queries and share one process-wide    *)
(* pool of worker threads.  A scan deals its page ranges to the workers'   *)
(* channels in turn, then awaits the replies in the order it sent the      *)
(* jobs; the first error makes it return at once and leaves its other jobs *)
(* to the workers.                                                         *)
(*                                                                         *)
(* Each range is read by a statement, and so from a snapshot, of its own,  *)
(* while other clients of the database write.  The table is the place of   *)
(* each of its rows: a page, or Absent.                                    *)
(***************************************************************************)
EXTENDS CtidRanges, FiniteSets

CONSTANTS
    Scans,       \* the calls of fetch_parallel
    Workers,     \* PARALLEL_WORKERS
    Partitions,  \* the numbers of partitions callers ask for
    PageCounts,  \* what pg_class.relpages may say, up to date or not
    Rows,        \* the rows that may be in the table
    Tables,      \* the tables a scan may find: row -> page, or MaxPage if absent
    MaxWrites,   \* bound: rows inserted, moved or deleted
    MaxPanics    \* bound: worker threads that die in the driver

ASSUME ParallelAssumption ==
    /\ Workers \in Nat \ {0} /\ Partitions \subseteq Nat
    /\ PageCounts \subseteq 0..MaxPage
    /\ Tables \subseteq [Rows -> 0..MaxPage]
    /\ MaxWrites \in Nat /\ MaxPanics \in Nat

VARIABLES
    place,     \* the table
    scan,      \* scan -> where its call is
    ranges,    \* scan -> the ranges it computed
    replies,   \* scan -> its reply channels, one per job sent
    result,    \* scan -> the rows of the replies it has received
    worker,    \* worker -> "serving" or "gone"
    queue,     \* worker -> the job it runs, then the jobs in its channel
    writes,    \* rows written so far
    panics,    \* workers that died so far
    places     \* history: scan -> row -> where it was while the scan ran

vars == <<place, scan, ranges, replies, result, worker, queue, writes, panics, places>>

Absent == MaxPage
Pool   == 0..(Workers - 1)

RowsIn(range) == {r \in Rows : InRange(place[r], range)}

---------------------------------------------------------------------------
(* The calling thread *)

Reply(state, rows) == [state |-> state, rows |-> rows]

(* Returning drops the reply channels, not the jobs; an error drops the    *)
(* rows received so far too.                                               *)
End(s, how) ==
    /\ scan' = [scan EXCEPT ![s] = how]
    /\ replies' = [replies EXCEPT ![s] = <<>>]
    /\ ranges' = [ranges EXCEPT ![s] = <<>>]
    /\ IF how = "done" THEN UNCHANGED <<result, places>>
       ELSE /\ result' = [result EXCEPT ![s] = <<>>]
            /\ places' = [places EXCEPT ![s] = [r \in Rows |-> {}]]

(* Reads the page count on the caller's own connection, and splits it: the *)
(* engine asks for PARALLEL_PARTITIONS, fetch_parallel_to_stream for what  *)
(* its Python caller says.  A number of partitions that truncates to zero  *)
(* panics in the division, and the panic unwinds to the caller.            *)
Start(s) ==
    /\ scan[s] = "new"
    /\ \E pages \in PageCounts, partitions \in Partitions :
          \/ /\ ~DividesByZero(pages, partitions)
             /\ ranges' = [ranges EXCEPT ![s] = ctid_ranges(pages, partitions)]
             /\ scan' = [scan EXCEPT ![s] = "running"]
             /\ places' = [places EXCEPT ![s] = [r \in Rows |-> {place[r]}]]
             /\ UNCHANGED <<replies, result>>
          \/ DividesByZero(pages, partitions) /\ End(s, "panicked")
    /\ UNCHANGED <<place, worker, queue, writes, panics>>

(* The page count cannot be read: no such source or table, a failed query. *)
CountFails(s) ==
    /\ scan[s] = "new"
    /\ End(s, "query_failed")
    /\ UNCHANGED <<place, worker, queue, writes, panics>>

\* MUTANT of WorkerOf: one worker too many.
WorkerOffByOne(i) == (i - 1) % (Workers + 1)
WorkerOf(i) == (i - 1) % Workers

SendJob(s) ==
    LET i == Len(replies[s]) + 1
        w == WorkerOf(i)
        job == [scan |-> s, part |-> i, range |-> ranges[s][i]]
    IN /\ scan[s] = "running" /\ i <= Len(ranges[s])
       /\ \/ /\ worker[w] # "gone"
             /\ queue' = [queue EXCEPT ![w] = Append(@, job)]
             /\ replies' = [replies EXCEPT ![s] = Append(@, Reply("pending", {}))]
             /\ UNCHANGED <<scan, ranges, result, places>>
          \/ /\ worker[w] = "gone"
             /\ End(s, "worker_gone")
             /\ UNCHANGED queue
       /\ UNCHANGED <<place, worker, writes, panics>>

Awaiting(s) == scan[s] = "running" /\ Len(replies[s]) = Len(ranges[s])

\* MUTANT of Receivable: replies are taken as they arrive.
AnyReceivable(s) == {i \in DOMAIN replies[s] : replies[s][i].state \notin {"pending", "taken"}}
(* Replies are received in the order of the ranges.                        *)
Receivable(s) ==
    {i \in DOMAIN replies[s] : /\ replies[s][i].state \notin {"pending", "taken"}
                               /\ \A j \in 1..(i - 1) : replies[s][j].state = "taken"}

\* MUTANT of AwaitReply: the rows of a partition whose query failed are left out.
AwaitReplySkipsErrors(s) ==
    /\ Awaiting(s)
    /\ \E i \in Receivable(s) :
          /\ result' = [result EXCEPT ![s] = Append(@, replies[s][i].rows)]
          /\ replies' = [replies EXCEPT ![s][i] = Reply("taken", {})]
    /\ UNCHANGED <<place, scan, ranges, worker, queue, writes, panics, places>>
AwaitReply(s) ==
    /\ Awaiting(s)
    /\ \E i \in Receivable(s) :
          \/ /\ replies[s][i].state = "rows"
             /\ result' = [result EXCEPT ![s] = Append(@, replies[s][i].rows)]
             /\ replies' = [replies EXCEPT ![s][i] = Reply("taken", {})]
             /\ UNCHANGED <<scan, ranges, places>>
          \/ replies[s][i].state = "error" /\ End(s, "query_failed")
          \/ replies[s][i].state = "dropped" /\ End(s, "reply_dropped")
    /\ UNCHANGED <<place, worker, queue, writes, panics>>

(* Every reply received: the schemas are reconciled, which may fail too.   *)
Finish(s) ==
    /\ Awaiting(s) /\ \A i \in DOMAIN replies[s] : replies[s][i].state = "taken"
    /\ \E how \in {"done", "query_failed"} : End(s, how)
    /\ UNCHANGED <<place, worker, queue, writes, panics>>

---------------------------------------------------------------------------
(* The workers *)

(* The reply goes nowhere when the scan has already returned.              *)
Awaited(job) == job.part \in DOMAIN replies[job.scan]
Answer(job, reply) ==
    replies' = IF Awaited(job) THEN [replies EXCEPT ![job.scan][job.part] = reply] ELSE replies

\* MUTANT of RunJob: a reply that nobody awaits kills the worker.
RunJobUnwrap(w) ==
    LET job == Head(queue[w])
    IN /\ queue[w] # <<>>
       /\ \E reply \in {Reply("rows", RowsIn(job.range)), Reply("error", {})} : Answer(job, reply)
       /\ IF Awaited(job)
          THEN queue' = [queue EXCEPT ![w] = Tail(@)] /\ UNCHANGED worker
          ELSE queue' = [queue EXCEPT ![w] = <<>>] /\ worker' = [worker EXCEPT ![w] = "gone"]
       /\ UNCHANGED <<place, scan, ranges, result, writes, panics, places>>

(* Connects when it has no connection yet, runs the statement, replies.    *)
RunJob(w) ==
    LET job == Head(queue[w])
    IN /\ queue[w] # <<>>
       /\ \E reply \in {Reply("rows", RowsIn(job.range)), Reply("error", {})} : Answer(job, reply)
       /\ queue' = [queue EXCEPT ![w] = Tail(@)]
       /\ UNCHANGED <<place, scan, ranges, result, worker, writes, panics, places>>

(* A panic in the driver ends the thread and drops its channel with every  *)
(* job in it, and with each job the sending half of its reply channel.     *)
Dropped(w) == {<<queue[w][k].scan, queue[w][k].part>> : k \in DOMAIN queue[w]}
\* MUTANT of AfterPanic: the caller keeps a sender of its own, so the drop
\* goes unnoticed.
AfterPanicSilent(w) == replies
AfterPanic(w) ==
    [s \in Scans |-> [i \in DOMAIN replies[s] |->
        IF <<s, i>> \in Dropped(w) THEN Reply("dropped", {}) ELSE replies[s][i]]]

\* MUTANT of WorkerPanics: its channel outlives the thread.
WorkerPanicsChannelStays(w) ==
    /\ queue[w] # <<>> /\ panics < MaxPanics
    /\ worker' = [worker EXCEPT ![w] = "gone"]
    /\ panics' = panics + 1
    /\ UNCHANGED <<place, scan, ranges, replies, result, queue, writes, places>>
WorkerPanics(w) ==
    /\ queue[w] # <<>> /\ panics < MaxPanics
    /\ worker' = [worker EXCEPT ![w] = "gone"]
    /\ replies' = AfterPanic(w)
    /\ queue' = [queue EXCEPT ![w] = <<>>]
    /\ panics' = panics + 1
    /\ UNCHANGED <<place, scan, ranges, result, writes, places>>

---------------------------------------------------------------------------
(* The other clients of the database: insert, move (an update writes the   *)
(* new version elsewhere) or delete a row.  Only what they do while a scan *)
(* runs can show; the tables a scan may start from are in Tables.          *)
Write(r) ==
    /\ writes < MaxWrites /\ \E s \in Scans : scan[s] = "running"
    /\ \E p \in (0..MaxPage) \ {place[r]} : place' = [place EXCEPT ![r] = p]
    /\ writes' = writes + 1
    /\ places' = [s \in Scans |-> IF scan[s] = "running"
                                  THEN [places[s] EXCEPT ![r] = @ \union {place'[r]}]
                                  ELSE places[s]]
    /\ UNCHANGED <<scan, ranges, replies, result, worker, queue, panics>>

---------------------------------------------------------------------------

Init ==
    /\ place \in Tables
    /\ scan = [s \in Scans |-> "new"]
    /\ ranges = [s \in Scans |-> <<>>]
    /\ replies = [s \in Scans |-> <<>>]
    /\ result = [s \in Scans |-> <<>>]
    /\ worker = [w \in Pool |-> "serving"]
    /\ queue = [w \in Pool |-> <<>>]
    /\ writes = 0 /\ panics = 0
    /\ places = [s \in Scans |-> [r \in Rows |-> {}]]

CallerStep(s) == Start(s) \/ CountFails(s) \/ SendJob(s) \/ AwaitReply(s) \/ Finish(s)

Next ==
    \/ \E s \in Scans : CallerStep(s)
    \/ \E w \in Pool : RunJob(w) \/ WorkerPanics(w)
    \/ \E r \in Rows : Write(r)

(* Each thread keeps running while it has something to do, and every       *)
(* statement a worker sends to the server is answered or fails.            *)
Spec ==
    /\ Init /\ [][Next]_vars
    /\ \A s \in Scans : WF_vars(CallerStep(s))
    /\ \A w \in Pool : WF_vars(RunJob(w))

---------------------------------------------------------------------------
(* Properties *)

Ended(s) == scan[s] \notin {"new", "running"}

JobType == [scan : Scans, part : Nat \ {0}, range : (0..MaxPage) \X (0..MaxPage)]
ReplyType == [state : {"pending", "rows", "error", "dropped", "taken"}, rows : SUBSET Rows]

(* The state is well typed; a dead worker has no channel left.             *)
TypeOK ==
    /\ place \in [Rows -> 0..MaxPage]
    /\ scan \in [Scans -> {"new", "running", "done", "panicked", "query_failed",
                           "worker_gone", "reply_dropped"}]
    /\ ranges \in [Scans -> Seq((0..MaxPage) \X (0..MaxPage))]
    /\ replies \in [Scans -> Seq(ReplyType)]
    /\ result \in [Scans -> Seq(SUBSET Rows)]
    /\ worker \in [Pool -> {"serving", "gone"}]
    /\ queue \in [Pool -> Seq(JobType)]
    /\ \A w \in Pool : worker[w] = "gone" => queue[w] = <<>>
    /\ writes \in 0..MaxWrites /\ panics \in 0..MaxPanics
    /\ places \in [Scans -> [Rows -> SUBSET (0..MaxPage)]]

(* A row that stayed where it was while the scan ran.                      *)
Stable(s) == {r \in Rows : Cardinality(places[s][r]) = 1}

Returned(s, r) ==
    IF scan[s] = "done" THEN Cardinality({i \in DOMAIN result[s] : r \in result[s][i]}) ELSE 0

(* A scan that returns has read each row that nobody wrote meanwhile once  *)
(* if it is in the table and never if it is not, however its partitions,   *)
(* their separate snapshots, the writers and the other scans interleaved,  *)
(* and however stale the page count was.                                   *)
StableRowsReadOnce ==
    \A s \in Scans : scan[s] = "done" =>
        \A r \in Stable(s) : Returned(s, r) = IF places[s][r] = {Absent} THEN 0 ELSE 1

(* Whatever worker answers first, the rows come back in page order.        *)
ReadInPageOrder ==
    \A s \in Scans :
        \A i, j \in DOMAIN result[s] : i < j =>
            \A q \in result[s][i] \intersect Stable(s), r \in result[s][j] \intersect Stable(s) :
                \A p \in places[s][q], o \in places[s][r] : p < o

(* One scan's failure never becomes another's: a scan is told that a       *)
(* worker is gone only when the driver killed one, never because a scan    *)
(* that failed early had left jobs with it.                                *)
FailuresAreIsolated ==
    \A s \in Scans : scan[s] \in {"worker_gone", "reply_dropped"} => panics > 0

(* The scan as its caller sees it: nothing of the ranges, the jobs and the *)
(* replies, only that it runs, and at one moment returns rows or fails.    *)
Outcome(s) == IF scan[s] \in {"new", "running", "done"} THEN scan[s] ELSE "failed"
Promise == INSTANCE TableScan WITH
    Pages <- 0..(MaxPage - 1), Absent <- MaxPage,
    scan <- [s \in Scans |-> Outcome(s)],
    rows <- [s \in Scans |-> [r \in Rows |-> Returned(s, r)]]

(* Dealing ranges to shared workers, reading them from snapshots of their  *)
(* own and collecting what comes back implements the promise of one read   *)
(* of the table: all of it or an error, no row lost or doubled that stayed *)
(* in place, a moved row at most once for each place it has been in.       *)
ImplementsTableScan == Promise!Spec

(* Every scan that starts ends, even when the worker that holds its jobs   *)
(* dies, or is busy with the jobs another scan abandoned.                  *)
EveryScanEnds == \A s \in Scans : <>Ended(s)

=============================================================================
