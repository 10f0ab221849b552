------------------------------- MODULE Sources -------------------------------
(***************************************************************************)
(* The datasource registry in front of sources of two kinds                *)
(* (src/src/connectors.rs: register, fetch, fetch_parquet, parquet_ctx,    *)
(* register_parquet_dir).  A name may be registered to a Postgres server   *)
(* (PgSessions) or to a directory of Parquet files.  What is in a          *)
(* directory, and the schema of each file, is found out once per process,  *)
(* under one lock for all directories; queries are planned against that    *)
(* and read the files as they are when they run.                           *)
(*                                                                         *)
(* Files are written, replaced and removed by others at any moment.        *)
(***************************************************************************)
EXTENDS PgSessions

CONSTANTS
    Files,          \* the tables a directory may have a file for
    Schemas,        \* the schemas a file may have
    Missing,        \* no such file
    Unreadable,     \* a file that is not Parquet, or not yet
    Contents,       \* what a directory may hold before its first fetch
    Uncached, Nobody,
    MaxFileChanges  \* bound: files written or removed

ASSUME SourcesAssumption ==
    /\ Missing \notin Schemas /\ Unreadable \notin Schemas /\ Missing # Unreadable
    /\ Nobody \notin Threads /\ Uncached \notin [Files -> Schemas \union {Missing}]
    /\ Contents \subseteq [Files -> Schemas \union {Missing, Unreadable}]
    /\ MaxFileChanges \in Nat

VARIABLES
    file,     \* directory -> table -> the schema of its file
    context,  \* directory -> the tables of its cached context, or Uncached
    lock,     \* the thread inside the lock of the cache
    reading,  \* thread -> the Parquet fetch it makes
    scanned,  \* thread -> the last table it read
    changed,  \* history: files written or removed, as <<directory, table>>
    changes   \* how often

parquetVars == <<file, context, lock, reading, scanned, changed, changes>>
sourcesVars == <<vars, parquetVars>>

NoTables   == [f \in Files |-> Missing]
NotReading == [phase |-> "idle", dir |-> Nowhere, left |-> {}, tables |-> NoTables]
NotScanned == [dir |-> Nowhere, table |-> Nowhere, planned |-> Missing, read |-> Missing]

Reading(th, r) == reading' = [reading EXCEPT ![th] = r]

---------------------------------------------------------------------------
(* fetch, for a name that is registered to a directory *)

BeginParquet(th, n) ==
    /\ call[th] = Idle /\ reading[th] = NotReading
    /\ registry[n] \in Others /\ count.calls < MaxCalls
    /\ count' = [count EXCEPT !.calls = @ + 1]
    /\ Reading(th, [NotReading EXCEPT !.phase = "context", !.dir = registry[n]])
    /\ scanned' = [scanned EXCEPT ![th] = NotScanned]
    /\ UNCHANGED <<registry, session, call, jobs, done, replaced>>
    /\ UNCHANGED <<file, context, lock, changed, changes>>

\* MUTANT of TakesLock: the lock is released between the look-up and the insertion.
TakesNoLock(th) == UNCHANGED lock
TakesLock(th) == lock' = th

(* parquet_ctx: a hit takes the context and unlocks; a miss keeps the lock *)
(* and lists the directory.                                                *)
LookUpContext(th) ==
    LET r == reading[th]
    IN /\ r.phase = "context" /\ lock = Nobody
       /\ \/ /\ context[r.dir] # Uncached
             /\ Reading(th, [r EXCEPT !.phase = "run", !.tables = context[r.dir]])
             /\ UNCHANGED lock
          \/ /\ context[r.dir] = Uncached
             /\ Reading(th, [r EXCEPT !.phase = "register",
                                      !.left = {f \in Files : file[r.dir][f] # Missing}])
             /\ TakesLock(th)
       /\ UNCHANGED <<file, context, scanned, changed, changes>>

\* MUTANT of AfterBadFile: what was registered before the error is cached.
AfterBadFileCached(dir, tables) == [context EXCEPT ![dir] = tables]
(* The error leaves parquet_ctx before the insertion.                      *)
AfterBadFile(dir, tables) == context

(* register_parquet_dir: one file's schema is inferred; a file that cannot *)
(* be read, or is gone by now, fails the fetch.                            *)
InferSchema(th) ==
    LET r == reading[th]
    IN /\ r.phase = "register"
       /\ \E f \in r.left :
             \/ /\ file[r.dir][f] \in Schemas
                /\ Reading(th, [r EXCEPT !.left = @ \ {f}, !.tables[f] = file[r.dir][f]])
                /\ UNCHANGED <<lock, context>>
             \/ /\ file[r.dir][f] \notin Schemas
                /\ Reading(th, NotReading)
                /\ context' = AfterBadFile(r.dir, r.tables)
                /\ lock' = Nobody
       /\ UNCHANGED <<file, scanned, changed, changes>>

InsertContext(th) ==
    LET r == reading[th]
    IN /\ r.phase = "register" /\ r.left = {}
       /\ context' = [context EXCEPT ![r.dir] = r.tables]
       /\ lock' = Nobody
       /\ Reading(th, [r EXCEPT !.phase = "run"])
       /\ UNCHANGED <<file, scanned, changed, changes>>

(* The query is planned against the context and reads the file as it is.   *)
(* Where they differ DataFusion adapts the columns or gives up.            *)
RunParquet(th) ==
    LET r == reading[th]
    IN /\ r.phase = "run"
       /\ Reading(th, NotReading)
       /\ \E f \in Files :
             \/ /\ r.tables[f] \in Schemas /\ file[r.dir][f] \in Schemas
                /\ scanned' = [scanned EXCEPT ![th] =
                       [dir |-> r.dir, table |-> f, planned |-> r.tables[f],
                        read |-> file[r.dir][f]]]
             \/ r.tables[f] # file[r.dir][f] /\ UNCHANGED scanned
       /\ UNCHANGED <<file, context, lock, changed, changes>>

(* Whoever else writes to the directory.  What it holds when it is first   *)
(* fetched from, and nothing was cached of it yet, is in Contents.         *)
WriteFile(d, f) ==
    /\ changes < MaxFileChanges
    /\ context[d] # Uncached \/ \E th \in Threads : reading[th].dir = d
    /\ \E s \in (Schemas \union {Missing, Unreadable}) \ {file[d][f]} :
          file' = [file EXCEPT ![d][f] = s]
    /\ changes' = changes + 1
    /\ changed' = changed \union {<<d, f>>}
    /\ UNCHANGED <<context, lock, reading, scanned>>

---------------------------------------------------------------------------

SourcesInit ==
    /\ Init
    /\ file \in [Others -> Contents]
    /\ context = [d \in Others |-> Uncached] /\ lock = Nobody
    /\ reading = [th \in Threads |-> NotReading]
    /\ scanned = [th \in Threads |-> NotScanned]
    /\ changed = {} /\ changes = 0

ParquetStep ==
    \/ \E th \in Threads : LookUpContext(th) \/ InferSchema(th) \/ InsertContext(th) \/ RunParquet(th)
    \/ \E d \in Others, f \in Files : WriteFile(d, f)

(* A thread makes one fetch at a time, whatever its kind.                  *)
OneFetchAtATime == \A th \in Threads : call'[th] = Idle \/ reading[th] = NotReading

SourcesNext ==
    \/ Next /\ OneFetchAtATime /\ UNCHANGED parquetVars
    \/ \E th \in Threads, n \in Names : BeginParquet(th, n)
    \/ ParquetStep /\ UNCHANGED vars

SourcesSpec == SourcesInit /\ [][SourcesNext]_sourcesVars

---------------------------------------------------------------------------
(* Properties *)

(* The state of both kinds is well typed; one thread registers a directory *)
(* at a time, and it has the lock.                                         *)
SourcesTypeOK ==
    /\ TypeOK
    /\ file \in [Others -> [Files -> Schemas \union {Missing, Unreadable}]]
    /\ context \in [Others -> [Files -> Schemas \union {Missing}] \union {Uncached}]
    /\ lock \in Threads \union {Nobody}
    /\ \A th \in Threads :
          /\ reading[th].phase \in {"idle", "context", "register", "run"}
          /\ reading[th].phase = "register" <=> lock = th
    /\ changed \subseteq Others \X Files /\ changes \in 0..MaxFileChanges

(* "built once ... and reused" (connectors.rs:173): all queries of the     *)
(* process that read a directory are planned against the same tables,      *)
(* whichever thread listed it and whatever was written meanwhile.          *)
OneContextPerDirectory ==
    \A th \in Threads :
        reading[th].phase = "run" => reading[th].tables = context[reading[th].dir]

(* A file that nobody touched is a table of its directory for every query, *)
(* with its own schema, however many fetches failed on other files before. *)
UntouchedFilesAreTables ==
    \A d \in Others, f \in Files :
        context[d] # Uncached /\ <<d, f>> \notin changed /\ file[d][f] \in Schemas =>
            context[d][f] = file[d][f]

=============================================================================
