----------------------------- MODULE PgSessions -----------------------------
(***************************************************************************)
(* The Postgres connections of the engine (src/src/connectors.rs:         *)
(* register, fetch_postgres, fetch_temp_join_pg, worker_loop).  A name is  *)
(* looked up in a registry the whole process shares; the connection is the *)
(* one the thread has kept under that NAME since it first used it, and     *)
(* every reader thread of the parallel pool keeps its own.  A key join     *)
(* leaves its keys in a temp table of the connection while it runs.        *)
(*                                                                         *)
(* Names are registered again and servers restart at any moment.  The      *)
(* order in which a worker serves its jobs is ParallelScan's subject; here *)
(* it takes any job addressed to it.                                       *)
(***************************************************************************)
EXTENDS Integers, FiniteSets

CONSTANTS
    Threads,      \* query-driving threads
    Workers,      \* number of reader threads in the pool
    Names,        \* datasource names
    Servers,      \* Postgres servers a name may be registered to
    Others,       \* and sources of another kind
    Nowhere,      \* neither
    Partitions,   \* ranges of a parallel read
    MaxCalls,     \* bound: fetches begun in the process
    MaxRegisters, \* bound: registrations after the session's own
    MaxRestarts   \* bound: server restarts

ASSUME PgAssumption ==
    /\ Workers \in Nat \ {0} /\ Partitions \in Nat
    /\ MaxCalls \in Nat /\ MaxRegisters \in Nat /\ MaxRestarts \in Nat
    /\ Nowhere \notin Servers \union Others /\ Servers \intersect Others = {}

VARIABLES
    registry,  \* name -> the source registered under it, or Nowhere
    session,   \* owner -> name -> its connection
    call,      \* thread -> the fetch it makes
    jobs,      \* partition reads sent to the pool and not yet served
    done,      \* thread -> what its last fetch returned
    replaced,  \* history: names registered more than once
    count      \* what the bounds count

vars == <<registry, session, call, jobs, done, replaced, count>>

Reader(w) == [worker |-> w]
Owners == Threads \union {Reader(w) : w \in 0..(Workers - 1)}

(* The keys table of a connection: whose keys it has, and whether all.     *)
NoTable == [of |-> 0, whole |-> FALSE]
Keys(id) == [of |-> id, whole |-> TRUE]
PartOf(id) == [of |-> id, whole |-> FALSE]

Connection(s) == [server |-> s, alive |-> TRUE, temp |-> NoTable]
NoSession == [server |-> Nowhere, alive |-> FALSE, temp |-> NoTable]

\* MUTANT of SessionOf: the connection cache is not keyed by the name.
AnySessionOf(o, n, spec) ==
    IF \E m \in Names : session[o][m] # NoSession
    THEN session[o][CHOOSE m \in Names : session[o][m] # NoSession] ELSE Connection(spec)
(* PG_CACHE, conns: the connection kept under the name, or a new one to    *)
(* the server of the spec that was looked up.                              *)
SessionOf(o, n, spec) == IF session[o][n] # NoSession THEN session[o][n] ELSE Connection(spec)

Keep(o, n, s) == session' = [session EXCEPT ![o][n] = s]

Idle == [phase |-> "idle", id |-> 0, name |-> Nowhere, spec |-> Nowhere,
         pending |-> {}, servers |-> {}]
NotDone == [id |-> 0, name |-> Nowhere, spec |-> Nowhere, servers |-> {}, met |-> NoTable,
            exists |-> FALSE]

---------------------------------------------------------------------------

Register(n, s) ==
    /\ count.registers < MaxRegisters
    /\ count' = [count EXCEPT !.registers = @ + 1]
    /\ registry' = [registry EXCEPT ![n] = s]
    /\ replaced' = IF registry[n] \in {Nowhere, s} THEN replaced ELSE replaced \union {n}
    /\ UNCHANGED <<session, call, jobs, done>>

(* A restart ends every connection to the server and the temp tables with  *)
(* them; the owners keep what is left of them.                             *)
ServerRestarts(s) ==
    /\ count.restarts < MaxRestarts /\ \E o \in Owners, n \in Names : session[o][n].server = s
    /\ count' = [count EXCEPT !.restarts = @ + 1]
    /\ session' = [o \in Owners |-> [n \in Names |->
           IF session[o][n].server = s
           THEN [session[o][n] EXCEPT !.alive = FALSE, !.temp = NoTable] ELSE session[o][n]]]
    /\ UNCHANGED <<registry, call, jobs, done, replaced>>

(* spec: the registry is read and unlocked before anything is opened.  The *)
(* kind it names decides where the call goes.                              *)
Begin(th, n, phase) ==
    /\ call[th] = Idle /\ registry[n] \in Servers /\ count.calls < MaxCalls
    /\ count' = [count EXCEPT !.calls = @ + 1]
    /\ call' = [call EXCEPT ![th] = [Idle EXCEPT !.phase = phase, !.id = count.calls + 1,
                                                 !.name = n, !.spec = registry[n]]]
    /\ done' = [done EXCEPT ![th] = NotDone]
    /\ UNCHANGED <<registry, session, jobs, replaced>>

(* The thread's own connection.  A parallel read looks the name up a       *)
(* second time, for the page count it opens the connection for; a source   *)
(* of another kind has no page count to give.                              *)
SpecInUse(th) == IF call[th].phase = "scan" THEN registry[call[th].name] ELSE call[th].spec
Own(th) == SessionOf(th, call[th].name, SpecInUse(th))
Does(th, phase) == call[th].phase = phase /\ SpecInUse(th) \in Servers /\ Own(th).alive
Then(th, phase) == call' = [call EXCEPT ![th].phase = phase]

Returned(th, servers, met) ==
    /\ done' = [done EXCEPT ![th] = [id |-> call[th].id, name |-> call[th].name,
                                     spec |-> call[th].spec, servers |-> servers, met |-> met,
                                     exists |-> FALSE]]
    /\ call' = [call EXCEPT ![th] = Idle]

(* The call fails: a dead connection, a server that refuses, a bad query.  *)
(* What it opened stays cached.                                            *)
FailCall(th) ==
    /\ call[th].phase # "idle"
    /\ call' = [call EXCEPT ![th] = Idle]
    /\ \/ UNCHANGED session
       \/ /\ call[th].phase # "partitions" /\ SpecInUse(th) \in Servers
          /\ Keep(th, call[th].name, Own(th))
    /\ UNCHANGED <<registry, jobs, done, replaced, count>>

---------------------------------------------------------------------------
(* fetch_postgres *)

Fetch(th) ==
    /\ Does(th, "fetch")
    /\ Keep(th, call[th].name, Own(th))
    /\ Returned(th, {Own(th).server}, NoTable)
    /\ UNCHANGED <<registry, jobs, replaced, count>>

---------------------------------------------------------------------------
(* fetch_temp_join_pg *)

\* MUTANT of Cleaned: no leading DROP.
NotCleaned(s) == s
(* DROP TABLE IF EXISTS.                                                   *)
Cleaned(s) == [s EXCEPT !.temp = NoTable]

DropFirst(th) ==
    /\ Does(th, "drop")
    /\ Keep(th, call[th].name, Cleaned(Own(th)))
    /\ Then(th, "ingest")
    /\ UNCHANGED <<registry, jobs, done, replaced, count>>

\* MUTANT of AfterBadIngest: the ingest's error is ignored.
AfterBadIngestJoins(th) == Then(th, "join")
(* An ingest that fails half-way may leave its table.                      *)
AfterBadIngest(th) == call' = [call EXCEPT ![th] = Idle]

(* IngestMode::Create: the table must not exist.                           *)
Ingest(th) ==
    /\ Does(th, "ingest")
    /\ \/ /\ Own(th).temp = NoTable
          /\ Keep(th, call[th].name, [Own(th) EXCEPT !.temp = Keys(call[th].id)])
          /\ Then(th, "join")
          /\ UNCHANGED done
       \/ /\ Own(th).temp = NoTable
          /\ Keep(th, call[th].name, [Own(th) EXCEPT !.temp = PartOf(call[th].id)])
          /\ AfterBadIngest(th)
          /\ UNCHANGED done
       \/ /\ Own(th).temp # NoTable
          /\ done' = [done EXCEPT ![th] = [NotDone EXCEPT !.id = call[th].id, !.exists = TRUE]]
          /\ call' = [call EXCEPT ![th] = Idle]
          /\ UNCHANGED session
    /\ UNCHANGED <<registry, jobs, replaced, count>>

(* The join, and the clean-up after it whose failure is ignored.  A join   *)
(* that fails is cleaned up after all the same.                            *)
Join(th) ==
    /\ Does(th, "join")
    /\ \E s \in {Own(th), Cleaned(Own(th))} : Keep(th, call[th].name, s)
    /\ \/ Returned(th, {Own(th).server}, Own(th).temp)
       \/ call' = [call EXCEPT ![th] = Idle] /\ UNCHANGED done
    /\ UNCHANGED <<registry, jobs, replaced, count>>

---------------------------------------------------------------------------
(* fetch_parallel *)

(* relpages runs on the caller's own connection; the jobs carry the spec.  *)
SendJobs(th) ==
    /\ Does(th, "scan")
    /\ Keep(th, call[th].name, Own(th))
    /\ jobs' = jobs \union
           [id : {call[th].id}, part : 1..Partitions, name : {call[th].name}, spec : {call[th].spec}]
    /\ call' = [call EXCEPT ![th].phase = "partitions", ![th].pending = 1..Partitions,
                            ![th].servers = {Own(th).server}]
    /\ UNCHANGED <<registry, done, replaced, count>>

\* MUTANT of Reply: one reply channel for all calls.
ReplyToAnyScan(job, s, ok) ==
    call' = [th \in Threads |->
        IF call[th].phase # "partitions" THEN call[th]
        ELSE IF ~ok THEN Idle
        ELSE [call[th] EXCEPT !.pending = @ \ {job.part}, !.servers = @ \union {s.server}]]
(* The read of one partition succeeds or fails; its reply is lost on a     *)
(* caller that has already failed.                                         *)
Reply(job, s, ok) ==
    call' = [th \in Threads |->
        IF call[th].id # job.id THEN call[th]
        ELSE IF ~ok THEN Idle
        ELSE [call[th] EXCEPT !.pending = @ \ {job.part}, !.servers = @ \union {s.server}]]

RunJob(w, job) ==
    LET s == SessionOf(Reader(w), job.name, job.spec)
    IN /\ job.part % Workers = w
       /\ jobs' = jobs \ {job}
       /\ \/ s.alive /\ Keep(Reader(w), job.name, s) /\ Reply(job, s, TRUE)
          \/ Keep(Reader(w), job.name, s) /\ Reply(job, s, FALSE)
          \/ UNCHANGED session /\ Reply(job, s, FALSE)
       /\ UNCHANGED <<registry, done, replaced, count>>

Collected(th) ==
    /\ call[th].phase = "partitions" /\ call[th].pending = {}
    /\ Returned(th, call[th].servers, NoTable)
    /\ UNCHANGED <<registry, session, jobs, replaced, count>>

---------------------------------------------------------------------------

(* The session's names have been registered, or will be.                   *)
Init ==
    /\ registry \in [Names -> Servers \union Others \union {Nowhere}]
    /\ session = [o \in Owners |-> [n \in Names |-> NoSession]]
    /\ call = [th \in Threads |-> Idle]
    /\ jobs = {}
    /\ done = [th \in Threads |-> NotDone]
    /\ replaced = {}
    /\ count = [calls |-> 0, registers |-> 0, restarts |-> 0]

Next ==
    \/ \E n \in Names, s \in Servers \union Others : Register(n, s)
    \/ \E s \in Servers : ServerRestarts(s)
    \/ \E th \in Threads :
          \/ \E n \in Names, phase \in {"fetch", "drop", "scan"} : Begin(th, n, phase)
          \/ FailCall(th)
          \/ Fetch(th)
          \/ DropFirst(th)
          \/ Ingest(th)
          \/ Join(th)
          \/ SendJobs(th)
          \/ Collected(th)
    \/ \E w \in 0..(Workers - 1), job \in jobs : RunJob(w, job)

Spec == Init /\ [][Next]_vars

---------------------------------------------------------------------------
(* Properties *)

Tables == [of : 0..MaxCalls, whole : BOOLEAN]
Phases == {"idle", "fetch", "drop", "ingest", "join", "scan", "partitions"}

(* The state is well typed; a job of a running call is one it waits for.   *)
TypeOK ==
    /\ registry \in [Names -> Servers \union Others \union {Nowhere}]
    /\ session \in [Owners -> [Names ->
           [server : Servers \union {Nowhere}, alive : BOOLEAN, temp : Tables]]]
    /\ \A th \in Threads :
          /\ call[th].phase \in Phases /\ call[th].servers \subseteq Servers
          /\ \A job \in jobs : job.id = call[th].id => job.part \in call[th].pending
          /\ done[th].met \in Tables /\ done[th].servers \subseteq Servers
    /\ replaced \subseteq Names

(* A key join reduces by all of its own keys: never by what an earlier     *)
(* call, failed or not, left on the connection, never by half of them.     *)
JoinUsesItsOwnKeys ==
    \A th \in Threads : done[th].met # NoTable => done[th].met = Keys(done[th].id)

(* What a failed call leaves on a connection never makes a later one fail: *)
(* the table a join creates is never there already.                        *)
LeftoversStopNobody == \A th \in Threads : ~done[th].exists

(* A name that was registered once is read from that server, on every      *)
(* thread, by every worker, whatever the other names are.                  *)
StableNamesReadTheirServer ==
    \A th \in Threads :
        done[th].name \in Names \ replaced => done[th].servers \subseteq {registry[done[th].name]}

(* "Register (or replace) a datasource under `name`" (connectors.rs:40):   *)
(* a call reads the server that was registered when it looked the name up. *)
ReadsTheRegisteredServer ==
    \A th \in Threads : done[th].servers \subseteq {done[th].spec}

=============================================================================
