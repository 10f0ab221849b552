--------------------------- MODULE Sources_proofs ---------------------------
(***************************************************************************)
(* The Postgres connections and the Parquet directories behind the         *)
(* registry, for every set of threads, workers, names, servers and files,  *)
(* and without the bounds of the model runs on calls, registrations and    *)
(* restarts: these are arbitrary numbers.                                  *)
(***************************************************************************)
EXTENDS Sources, TLAPS

---------------------------------------------------------------------------
(* The invariant of the connections *)

OpenSession == [server : Servers, alive : BOOLEAN, temp : Tables]
CallType == [phase : Phases, id : 0..MaxCalls, name : Names \union {Nowhere},
             spec : Servers \union {Nowhere}, pending : SUBSET (1..Partitions),
             servers : SUBSET Servers]
DoneType == [id : 0..MaxCalls, name : Names \union {Nowhere}, spec : Servers \union {Nowhere},
             servers : SUBSET Servers, met : Tables, exists : BOOLEAN]
JobType == [id : 1..MaxCalls, part : 1..Partitions, name : Names, spec : Servers]

Typed ==
    /\ registry \in [Names -> Servers \union Others \union {Nowhere}]
    /\ session \in [Owners -> [Names -> OpenSession \union {NoSession}]]
    /\ call \in [Threads -> CallType]
    /\ done \in [Threads -> DoneType]
    /\ jobs \in SUBSET JobType
    /\ replaced \in SUBSET Names
    /\ count \in [calls : 0..MaxCalls, registers : Nat, restarts : Nat]

(* A thread makes no call, or one whose number no other thread's has.      *)
Active(c) ==
    /\ c.phase # "idle" /\ c.id # 0 /\ c.id <= count.calls
    /\ c.name \in Names /\ c.spec \in Servers
    /\ c.phase # "partitions" => c.pending = {} /\ c.servers = {}
CallsOK ==
    /\ \A th \in Threads : call[th] = Idle \/ Active(call[th])
    /\ \A t, u \in Threads : t # u /\ call[t].id # 0 => call[t].id # call[u].id

(* The jobs of a call are for one name and one server, and those of a call *)
(* still running are the ones it waits for, for its name.                  *)
JobsOK ==
    /\ \A j \in jobs : j.id <= count.calls
    /\ \A j \in jobs, th \in Threads : j.id = call[th].id =>
          j.part \in call[th].pending /\ j.name = call[th].name
    /\ \A i, j \in jobs : i.id = j.id => i.name = j.name /\ i.spec = j.spec

(* A key join has dropped what was on its connection before it creates its *)
(* table, and finds its own or, after a restart, none when it joins.       *)
TempOK ==
    \A th \in Threads :
        LET s == session[th][call[th].name]
        IN /\ call[th].phase = "ingest" => s # NoSession /\ s.temp = NoTable
           /\ call[th].phase = "join" => s # NoSession /\ s.temp \in {NoTable, Keys(call[th].id)}

(* Everything about a name registered once is about the one server.        *)
StableOK ==
    \A n \in Names \ replaced :
        /\ \A o \in Owners : session[o][n] # NoSession => session[o][n].server = registry[n]
        /\ \A th \in Threads : call[th].phase # "idle" /\ call[th].name = n =>
              call[th].spec = registry[n] /\ call[th].servers \subseteq {registry[n]}
        /\ \A j \in jobs : j.name = n => j.spec = registry[n]
        /\ \A th \in Threads : done[th].name = n => done[th].servers \subseteq {registry[n]}

DoneOK == JoinUsesItsOwnKeys /\ LeftoversStopNobody

PgInv == Typed /\ CallsOK /\ JobsOK /\ TempOK /\ StableOK /\ DoneOK

---------------------------------------------------------------------------
(* Connections *)

LEMMA NoSessionIsClosed ==
    /\ NoSession \notin OpenSession
    /\ \A s \in Servers : Connection(s) \in OpenSession /\ Connection(s).server = s
    /\ \A s \in OpenSession : Cleaned(s) \in OpenSession /\ Cleaned(s).server = s.server
                              /\ Cleaned(s).temp = NoTable
    /\ NoTable \in Tables
<1>1. NoTable \in Tables
    BY PgAssumption DEF NoTable, Tables
<1>2. NoSession \notin OpenSession
    BY PgAssumption DEF NoSession, OpenSession
<1>3. \A s \in Servers : Connection(s) \in OpenSession /\ Connection(s).server = s
    BY <1>1 DEF Connection, OpenSession
<1>4. ASSUME NEW s \in OpenSession
      PROVE  Cleaned(s) \in OpenSession /\ Cleaned(s).server = s.server /\ Cleaned(s).temp = NoTable
    BY <1>1 DEF Cleaned, OpenSession
<1> QED BY <1>1, <1>2, <1>3, <1>4

(* The connection a call uses: the kept one, or a new one.                 *)
LEMMA OwnFacts ==
    ASSUME PgInv, NEW th \in Threads, call[th].phase # "idle", SpecInUse(th) \in Servers
    PROVE  /\ call[th].name \in Names /\ th \in Owners
           /\ Own(th) \in OpenSession /\ Own(th) # NoSession
           /\ session[th][call[th].name] # NoSession => Own(th) = session[th][call[th].name]
           /\ call[th].name \notin replaced => Own(th).server = registry[call[th].name]
<1>1. Active(call[th])
    BY DEF PgInv, CallsOK, Idle
<1>2. call[th].name \in Names /\ th \in Owners
    BY <1>1 DEF Active, Owners
<1>3. session[th][call[th].name] \in OpenSession \union {NoSession}
    BY <1>2 DEF PgInv, Typed
<1>4. CASE session[th][call[th].name] # NoSession
    BY <1>2, <1>3, <1>4, NoSessionIsClosed DEF Own, SessionOf, PgInv, StableOK
<1>5. CASE session[th][call[th].name] = NoSession
    <2>1. Own(th) = Connection(SpecInUse(th))
        BY <1>5 DEF Own, SessionOf
    <2>2. call[th].name \notin replaced => SpecInUse(th) = registry[call[th].name]
        BY <1>2 DEF SpecInUse, PgInv, StableOK
    <2> QED BY <1>2, <1>5, <2>1, <2>2, NoSessionIsClosed
<1> QED BY <1>4, <1>5

LEMMA KeepFacts ==
    ASSUME Typed, NEW o \in Owners, NEW n \in Names, NEW s \in OpenSession, Keep(o, n, s)
    PROVE  /\ session' \in [Owners -> [Names -> OpenSession \union {NoSession}]]
           /\ session'[o][n] = s
           /\ \A p \in Owners, m \in Names : p # o \/ m # n => session'[p][m] = session[p][m]
BY DEF Typed, Keep

(* A step of one thread, on its own connection.                            *)
LEMMA ThreadStep ==
    ASSUME PgInv, NEW th \in Threads, call[th].phase # "idle",
           NEW c \in CallType, NEW d \in DoneType,
           UNCHANGED <<registry, jobs, replaced, count>>,
           call' = [call EXCEPT ![th] = c], done' = [done EXCEPT ![th] = d],
           \/ c = Idle
           \/ /\ c.phase \notin {"idle", "partitions"} /\ c.pending = {} /\ c.servers = {}
              /\ c.id = call[th].id /\ c.name = call[th].name /\ c.spec = call[th].spec
              /\ call[th].phase # "partitions",
           \/ session' = session /\ c.phase \notin {"ingest", "join"}
           \/ /\ SpecInUse(th) \in Servers
              /\ \E s \in OpenSession : /\ Keep(th, call[th].name, s) /\ s.server = Own(th).server
                                        /\ c.phase = "ingest" => s.temp = NoTable
                                        /\ c.phase = "join" => s.temp = Keys(c.id),
           d.met \in {NoTable, Keys(d.id)}, ~d.exists,
           d.name \in Names \ replaced => d.servers \subseteq {registry[d.name]}
    PROVE  PgInv'
<1>1. Active(call[th]) /\ call[th].name \in Names /\ th \in Owners
    BY DEF PgInv, CallsOK, Idle, Active, Owners
<1>2. /\ session' \in [Owners -> [Names -> OpenSession \union {NoSession}]]
      /\ \A o \in Owners, n \in Names :
            \/ session'[o][n] = session[o][n]
            \/ /\ o = th /\ n = call[th].name /\ session'[o][n] \in OpenSession
               /\ n \notin replaced => session'[o][n].server = registry[n]
    <2>1. CASE session' = session
        BY <2>1 DEF PgInv, Typed
    <2>2. CASE /\ SpecInUse(th) \in Servers
               /\ \E s \in OpenSession : Keep(th, call[th].name, s) /\ s.server = Own(th).server
        <3>1. PICK s \in OpenSession : Keep(th, call[th].name, s) /\ s.server = Own(th).server
            BY <2>2
        <3>2. call[th].name \notin replaced => s.server = registry[call[th].name]
            BY <2>2, <3>1, OwnFacts
        <3> QED BY <1>1, <3>1, <3>2, KeepFacts DEF PgInv
    <2> QED BY <2>1, <2>2
<1>3. Typed'
    BY <1>2 DEF PgInv, Typed
<1>4. /\ call'[th] = c /\ \A t \in Threads \ {th} : call'[t] = call[t]
      /\ done'[th] = d /\ \A t \in Threads \ {th} : done'[t] = done[t]
    BY DEF PgInv, Typed
<1>5. CallsOK'
    <2>1. c = Idle \/ Active(c)'
        BY <1>1 DEF Active
    <2>2. \A t \in Threads \ {th} : call[t] = Idle \/ Active(call[t])
        BY DEF PgInv, CallsOK
    <2>3. \A t \in Threads : call'[t] = Idle \/ Active(call[t])'
        BY <1>4, <2>1, <2>2 DEF Active
    <2>4. c.id = 0 \/ c.id = call[th].id
        BY DEF Idle
    <2>5. \A t, u \in Threads : t # u /\ call'[t].id # 0 => call'[t].id # call'[u].id
        BY <1>4, <2>4 DEF PgInv, CallsOK
    <2> QED BY <2>3, <2>5 DEF CallsOK
<1>6. JobsOK'
    <2>1. \A j \in jobs : j.id = c.id => j.part \in c.pending /\ j.name = c.name
        <3>1. \A j \in jobs : j.id # 0
            BY DEF PgInv, Typed, JobType
        <3>2. CASE c = Idle
            BY <3>1, <3>2 DEF Idle
        <3>3. CASE c.id = call[th].id /\ call[th].phase # "partitions"
            BY <1>1, <3>3 DEF Active, PgInv, JobsOK
        <3> QED BY <3>2, <3>3
    <2> QED BY <1>4, <2>1 DEF PgInv, JobsOK
<1>7. TempOK'
    <2>1. ASSUME NEW t \in Threads, t # th
          PROVE  LET s == session'[t][call'[t].name]
                 IN /\ call'[t].phase = "ingest" => s # NoSession /\ s.temp = NoTable
                    /\ call'[t].phase = "join" =>
                          s # NoSession /\ s.temp \in {NoTable, Keys(call'[t].id)}
        <3>1. call'[t] = call[t]
            BY <1>4, <2>1
        <3>2. call[t].phase # "idle" => call[t].name \in Names /\ t \in Owners
            BY DEF PgInv, CallsOK, Idle, Active, Owners
        <3>3. call[t].phase # "idle" => session'[t][call[t].name] = session[t][call[t].name]
            BY <1>2, <2>1, <3>2
        <3> QED BY <3>1, <3>3 DEF PgInv, TempOK
    <2>2. LET s == session'[th][c.name]
          IN /\ c.phase = "ingest" => s # NoSession /\ s.temp = NoTable
             /\ c.phase = "join" => s # NoSession /\ s.temp \in {NoTable, Keys(c.id)}
        <3>1. CASE c.phase \notin {"ingest", "join"}
            BY <3>1
        <3>2. CASE c.phase \in {"ingest", "join"}
            <4>1. c.name = call[th].name
                BY <3>2 DEF Idle
            <4>2. Typed /\ call[th].name \in Names /\ th \in Owners
                BY <1>1 DEF PgInv
            <4>3. PICK kept \in OpenSession :
                     /\ Keep(th, call[th].name, kept)
                     /\ c.phase = "ingest" => kept.temp = NoTable
                     /\ c.phase = "join" => kept.temp = Keys(c.id)
                BY <3>2
            <4>4. session'[th][call[th].name] = kept
                BY <4>2, <4>3, KeepFacts
            <4>5. kept # NoSession
                BY NoSessionIsClosed
            <4> QED BY <4>1, <4>3, <4>4, <4>5
        <3> QED BY <3>1, <3>2
    <2> QED BY <1>4, <2>1, <2>2 DEF TempOK
<1>8. StableOK'
    <2> SUFFICES ASSUME NEW n \in Names \ replaced
                 PROVE  /\ \A o \in Owners : session'[o][n] # NoSession =>
                              session'[o][n].server = registry[n]
                        /\ \A t \in Threads : call'[t].phase # "idle" /\ call'[t].name = n =>
                              call'[t].spec = registry[n] /\ call'[t].servers \subseteq {registry[n]}
                        /\ \A j \in jobs : j.name = n => j.spec = registry[n]
                        /\ \A t \in Threads : done'[t].name = n =>
                              done'[t].servers \subseteq {registry[n]}
        BY DEF StableOK, Owners
    <2>1. \A o \in Owners : session'[o][n] # NoSession => session'[o][n].server = registry[n]
        BY <1>2 DEF PgInv, StableOK
    <2>2. c.phase # "idle" /\ c.name = n => c.spec = registry[n] /\ c.servers \subseteq {registry[n]}
        <3>1. c = Idle => c.phase = "idle"
            BY DEF Idle
        <3> QED BY <1>1, <3>1 DEF Active, PgInv, StableOK
    <2>3. \A t \in Threads : call'[t].phase # "idle" /\ call'[t].name = n =>
             call'[t].spec = registry[n] /\ call'[t].servers \subseteq {registry[n]}
        BY <1>4, <2>2 DEF PgInv, StableOK
    <2>4. \A j \in jobs : j.name = n => j.spec = registry[n]
        BY DEF PgInv, StableOK
    <2>5. \A t \in Threads : done'[t].name = n => done'[t].servers \subseteq {registry[n]}
        BY <1>4 DEF PgInv, StableOK
    <2> QED BY <2>1, <2>3, <2>4, <2>5
<1>9. DoneOK'
    BY <1>4 DEF PgInv, DoneOK, JoinUsesItsOwnKeys, LeftoversStopNobody
<1> QED BY <1>3, <1>5, <1>6, <1>7, <1>8, <1>9 DEF PgInv

---------------------------------------------------------------------------
(* The calls *)

LEMMA RecordTypes == Idle \in CallType /\ NotDone \in DoneType /\ Idle.phase = "idle"
<1>1. NoTable \in Tables /\ 0 \in 0..MaxCalls
    BY NoSessionIsClosed, PgAssumption
<1> QED BY <1>1 DEF Idle, NotDone, CallType, DoneType, Phases

LEMMA CallFacts ==
    ASSUME PgInv, NEW th \in Threads
    PROVE  /\ call[th] \in CallType /\ done[th] \in DoneType
           /\ done[th].met \in {NoTable, Keys(done[th].id)} /\ ~done[th].exists
           /\ done[th].name \in Names \ replaced => done[th].servers \subseteq {registry[done[th].name]}
           /\ call[th].phase # "idle" =>
                 call[th].id \in 1..MaxCalls /\ call[th].name \in Names /\ call[th].spec \in Servers
<1>1. call[th] \in CallType /\ done[th] \in DoneType
    BY DEF PgInv, Typed
<1>2. done[th].met \in {NoTable, Keys(done[th].id)} /\ ~done[th].exists
    BY DEF PgInv, DoneOK, JoinUsesItsOwnKeys, LeftoversStopNobody
<1>3. done[th].name \in Names \ replaced => done[th].servers \subseteq {registry[done[th].name]}
    BY DEF PgInv, StableOK
<1>4. call[th].phase # "idle" => Active(call[th])
    BY DEF PgInv, CallsOK, Idle
<1>5. call[th].id \in 0..MaxCalls
    BY <1>1 DEF CallType
<1> QED BY <1>1, <1>2, <1>3, <1>4, <1>5, PgAssumption DEF Active

(* An own connection that is kept as it is, or without its table.          *)
LEMMA OwnKept ==
    ASSUME PgInv, NEW th \in Threads, call[th].phase # "idle", SpecInUse(th) \in Servers,
           NEW s \in {Own(th), Cleaned(Own(th))}
    PROVE  s \in OpenSession /\ s.server = Own(th).server
BY OwnFacts, NoSessionIsClosed

LEMMA FailCallKeeps == ASSUME PgInv, NEW th \in Threads, FailCall(th) PROVE PgInv'
<1>1. /\ call[th].phase # "idle" /\ call' = [call EXCEPT ![th] = Idle]
      /\ UNCHANGED <<registry, jobs, done, replaced, count>>
      /\ session' = session \/ (SpecInUse(th) \in Servers /\ Keep(th, call[th].name, Own(th)))
    BY DEF FailCall
<1>2. done' = [done EXCEPT ![th] = done[th]]
    BY <1>1 DEF PgInv, Typed
<1>3. \/ session' = session
      \/ /\ SpecInUse(th) \in Servers
         /\ \E s \in OpenSession : Keep(th, call[th].name, s) /\ s.server = Own(th).server
    BY <1>1, OwnKept
<1>4. Idle.phase \notin {"ingest", "join"}
    BY RecordTypes
<1> QED BY <1>1, <1>2, <1>3, <1>4, CallFacts, RecordTypes, ThreadStep

LEMMA FetchKeeps == ASSUME PgInv, NEW th \in Threads, Fetch(th) PROVE PgInv'
<1>1. /\ call[th].phase # "idle" /\ call' = [call EXCEPT ![th] = Idle]
      /\ UNCHANGED <<registry, jobs, replaced, count>>
      /\ SpecInUse(th) \in Servers /\ Keep(th, call[th].name, Own(th))
    BY DEF Fetch, Does, Returned
<1> DEFINE d == [id |-> call[th].id, name |-> call[th].name, spec |-> call[th].spec,
                 servers |-> {Own(th).server}, met |-> NoTable, exists |-> FALSE]
<1>2. done' = [done EXCEPT ![th] = d]
    BY DEF Fetch, Returned
<1>3. d \in DoneType
    BY <1>1, CallFacts, OwnFacts, NoSessionIsClosed DEF DoneType, CallType, OpenSession
<1>4. d.name \in Names \ replaced => d.servers \subseteq {registry[d.name]}
    BY <1>1, OwnFacts
<1>5. \E s \in OpenSession : Keep(th, call[th].name, s) /\ s.server = Own(th).server
    BY <1>1, OwnKept
<1>6. d.met = NoTable /\ ~d.exists
    OBVIOUS
<1> HIDE DEF d
<1> QED BY <1>1, <1>2, <1>3, <1>4, <1>5, <1>6, RecordTypes, ThreadStep

LEMMA DropFirstKeeps == ASSUME PgInv, NEW th \in Threads, DropFirst(th) PROVE PgInv'
<1> DEFINE c == [call[th] EXCEPT !.phase = "ingest"]
<1>1. /\ call[th].phase = "drop" /\ call' = [call EXCEPT ![th] = c]
      /\ UNCHANGED <<registry, jobs, done, replaced, count>>
      /\ SpecInUse(th) \in Servers /\ Keep(th, call[th].name, Cleaned(Own(th)))
    BY DEF DropFirst, Does, Then
<1>2. done' = [done EXCEPT ![th] = done[th]]
    BY <1>1 DEF PgInv, Typed
<1>3. \E s \in OpenSession : /\ Keep(th, call[th].name, s) /\ s.server = Own(th).server
                              /\ s.temp = NoTable
    BY <1>1, OwnFacts, NoSessionIsClosed
<1>4. Active(call[th]) /\ call[th].pending = {} /\ call[th].servers = {}
    BY <1>1, RecordTypes DEF PgInv, CallsOK, Active
<1>5. /\ c \in CallType /\ c.phase = "ingest" /\ c.pending = {} /\ c.servers = {}
      /\ c.id = call[th].id /\ c.name = call[th].name /\ c.spec = call[th].spec
    BY <1>4, CallFacts DEF CallType, Phases
<1> HIDE DEF c
<1> QED BY <1>1, <1>2, <1>3, <1>5, CallFacts, ThreadStep

LEMMA IngestKeeps == ASSUME PgInv, NEW th \in Threads, Ingest(th) PROVE PgInv'
<1>1. /\ call[th].phase = "ingest" /\ SpecInUse(th) \in Servers
      /\ UNCHANGED <<registry, jobs, replaced, count>>
    BY DEF Ingest, Does
<1>2. Own(th) \in OpenSession /\ Own(th).temp = NoTable
    BY <1>1, OwnFacts DEF PgInv, TempOK
<1>3. call[th].id \in 0..MaxCalls
    BY CallFacts DEF CallType
<1>4. CASE /\ Keep(th, call[th].name, [Own(th) EXCEPT !.temp = Keys(call[th].id)])
           /\ Then(th, "join") /\ UNCHANGED done
    <2> DEFINE c == [call[th] EXCEPT !.phase = "join"]
               s == [Own(th) EXCEPT !.temp = Keys(call[th].id)]
    <2>1. done' = [done EXCEPT ![th] = done[th]] /\ call' = [call EXCEPT ![th] = c]
        BY <1>4 DEF PgInv, Typed, Then
    <2>2. s \in OpenSession /\ s.server = Own(th).server /\ s.temp = Keys(call[th].id)
        BY <1>2, <1>3 DEF OpenSession, Keys, Tables
    <2>3. Active(call[th]) /\ call[th].pending = {} /\ call[th].servers = {}
        BY <1>1, RecordTypes DEF PgInv, CallsOK, Active
    <2>4. /\ c \in CallType /\ c.phase = "join" /\ c.pending = {} /\ c.servers = {}
          /\ c.id = call[th].id /\ c.name = call[th].name /\ c.spec = call[th].spec
        BY <2>3, CallFacts DEF CallType, Phases
    <2>5. Keep(th, call[th].name, s)
        BY <1>4
    <2> HIDE DEF c, s
    <2>6. \E t \in OpenSession : /\ Keep(th, call[th].name, t) /\ t.server = Own(th).server
                                  /\ t.temp = Keys(c.id)
        BY <2>2, <2>4, <2>5
    <2> QED BY <1>1, <2>1, <2>4, <2>6, CallFacts, ThreadStep
<1>5. CASE /\ Keep(th, call[th].name, [Own(th) EXCEPT !.temp = PartOf(call[th].id)])
           /\ AfterBadIngest(th) /\ UNCHANGED done
    <2> DEFINE s == [Own(th) EXCEPT !.temp = PartOf(call[th].id)]
    <2>1. done' = [done EXCEPT ![th] = done[th]] /\ call' = [call EXCEPT ![th] = Idle]
        BY <1>5 DEF PgInv, Typed, AfterBadIngest
    <2>2. s \in OpenSession /\ s.server = Own(th).server /\ Keep(th, call[th].name, s)
        BY <1>2, <1>3, <1>5 DEF OpenSession, PartOf, Tables
    <2> HIDE DEF s
    <2> QED BY <1>1, <2>1, <2>2, CallFacts, RecordTypes, ThreadStep
<1> QED BY <1>2, <1>4, <1>5 DEF Ingest

LEMMA JoinKeeps == ASSUME PgInv, NEW th \in Threads, Join(th) PROVE PgInv'
<1>1. /\ call[th].phase = "join" /\ SpecInUse(th) \in Servers /\ call' = [call EXCEPT ![th] = Idle]
      /\ UNCHANGED <<registry, jobs, replaced, count>>
    BY DEF Join, Does, Returned
<1>2. Own(th) \in OpenSession /\ Own(th).temp \in {NoTable, Keys(call[th].id)}
    BY <1>1, OwnFacts DEF PgInv, TempOK
<1>3. \E s \in OpenSession : Keep(th, call[th].name, s) /\ s.server = Own(th).server
    BY <1>1, OwnKept DEF Join
<1> DEFINE d == [id |-> call[th].id, name |-> call[th].name, spec |-> call[th].spec,
                 servers |-> {Own(th).server}, met |-> Own(th).temp, exists |-> FALSE]
<1>4. CASE done' = [done EXCEPT ![th] = d]
    <2>1. d \in DoneType
        BY <1>1, <1>2, CallFacts DEF DoneType, CallType, OpenSession
    <2>2. d.name \in Names \ replaced => d.servers \subseteq {registry[d.name]}
        BY <1>1, OwnFacts
    <2>3. d.met \in {NoTable, Keys(d.id)} /\ ~d.exists
        BY <1>2
    <2> HIDE DEF d
    <2> QED BY <1>1, <1>3, <1>4, <2>1, <2>2, <2>3, RecordTypes, ThreadStep
<1>5. CASE UNCHANGED done
    <2>1. done' = [done EXCEPT ![th] = done[th]]
        BY <1>5 DEF PgInv, Typed
    <2> QED BY <1>1, <1>3, <2>1, CallFacts, RecordTypes, ThreadStep
<1> QED BY <1>4, <1>5 DEF Join, Returned

LEMMA CollectedKeeps == ASSUME PgInv, NEW th \in Threads, Collected(th) PROVE PgInv'
<1>1. /\ call[th].phase = "partitions" /\ call' = [call EXCEPT ![th] = Idle]
      /\ UNCHANGED <<registry, session, jobs, replaced, count>>
    BY DEF Collected, Returned
<1> DEFINE d == [id |-> call[th].id, name |-> call[th].name, spec |-> call[th].spec,
                 servers |-> call[th].servers, met |-> NoTable, exists |-> FALSE]
<1>2. done' = [done EXCEPT ![th] = d]
    BY DEF Collected, Returned
<1>3. d \in DoneType
    BY CallFacts, NoSessionIsClosed DEF DoneType, CallType
<1>4. d.name \in Names \ replaced => d.servers \subseteq {registry[d.name]}
    BY <1>1 DEF PgInv, StableOK
<1>5. d.met = NoTable /\ ~d.exists
    OBVIOUS
<1> HIDE DEF d
<1> QED BY <1>1, <1>2, <1>3, <1>4, <1>5, RecordTypes, ThreadStep

(* A call that begins has a number of its own.                             *)
LEMMA BeginKeeps ==
    ASSUME PgInv, NEW th \in Threads, NEW n \in Names, NEW phase \in {"fetch", "drop", "scan"},
           Begin(th, n, phase)
    PROVE  PgInv'
<1>0. PICK c : c = [Idle EXCEPT !.phase = phase, !.id = count.calls + 1, !.name = n,
                                !.spec = registry[n]]
    OBVIOUS
<1>1. /\ call[th] = Idle /\ registry[n] \in Servers /\ count.calls < MaxCalls
      /\ count' = [count EXCEPT !.calls = @ + 1] /\ call' = [call EXCEPT ![th] = c]
      /\ done' = [done EXCEPT ![th] = NotDone] /\ UNCHANGED <<registry, session, jobs, replaced>>
    BY <1>0 DEF Begin
<1>2. count.calls \in Nat /\ count'.calls = count.calls + 1 /\ count'.calls \in 0..MaxCalls
      /\ count' \in [calls : 0..MaxCalls, registers : Nat, restarts : Nat]
    BY <1>1, PgAssumption DEF PgInv, Typed
<1>3. /\ c.phase = phase /\ c.id = count.calls + 1 /\ c.name = n /\ c.spec = registry[n]
      /\ c.pending = {} /\ c.servers = {} /\ c \in CallType
    <2>1. PICK e \in CallType : e = Idle
        BY RecordTypes
    <2>2. e.pending = {} /\ e.servers = {}
        BY <2>1 DEF Idle
    <2>3. c = [e EXCEPT !.phase = phase, !.id = count.calls + 1, !.name = n, !.spec = registry[n]]
        BY <1>0, <2>1
    <2>4. /\ phase \in Phases /\ count.calls + 1 \in 0..MaxCalls
          /\ n \in Names \union {Nowhere} /\ registry[n] \in Servers \union {Nowhere}
        BY <1>1, <1>2 DEF Phases
    <2> QED BY <2>2, <2>3, <2>4 DEF CallType
<1>5. Typed'
    BY <1>1, <1>2, <1>3, RecordTypes DEF PgInv, Typed
<1>6. /\ call'[th] = c /\ \A t \in Threads \ {th} : call'[t] = call[t]
      /\ done'[th] = NotDone /\ \A t \in Threads \ {th} : done'[t] = done[t]
    BY <1>1 DEF PgInv, Typed
<1>7. /\ \A t \in Threads : call[t].id <= count.calls
      /\ \A j \in jobs : j.id <= count.calls /\ j.id \in Nat
      /\ \A t \in Threads : call[t].id \in Nat
    <2>1. \A t \in Threads : call[t].id \in Nat
        BY CallFacts DEF CallType
    <2>2. \A t \in Threads : call[t].id <= count.calls
        BY <1>2, <2>1 DEF PgInv, CallsOK, Active, Idle
    <2>3. \A j \in jobs : j.id <= count.calls /\ j.id \in Nat
        BY DEF PgInv, JobsOK, Typed, JobType
    <2> QED BY <2>1, <2>2, <2>3
<1>8. CallsOK'
    <2>1. Active(c)'
        BY <1>1, <1>2, <1>3 DEF Active
    <2>2. \A t \in Threads \ {th} : call'[t] = Idle \/ Active(call[t])'
        BY <1>2, <1>6, <1>7 DEF PgInv, CallsOK, Active
    <2>3. \A t \in Threads : call'[t] = Idle \/ Active(call[t])'
        BY <1>6, <2>1, <2>2 DEF Active
    <2>4. \A t \in Threads \ {th} : call'[t].id # c.id
        BY <1>2, <1>3, <1>6, <1>7
    <2>5. \A t, u \in Threads : t # u /\ call'[t].id # 0 => call'[t].id # call'[u].id
        BY <1>6, <2>4 DEF PgInv, CallsOK
    <2> QED BY <2>3, <2>5 DEF CallsOK
<1>9. JobsOK'
    <2>1. \A j \in jobs : j.id # c.id /\ j.id <= count'.calls
        BY <1>2, <1>3, <1>7
    <2> QED BY <1>1, <1>6, <2>1 DEF PgInv, JobsOK
<1>10. TempOK'
    BY <1>1, <1>3, <1>6 DEF PgInv, TempOK
<1>11. StableOK'
    <2>1. NotDone.servers = {}
        BY DEF NotDone
    <2> QED BY <1>1, <1>3, <1>6, <2>1 DEF PgInv, StableOK
<1>12. DoneOK'
    <2>1. NotDone.met = NoTable /\ ~NotDone.exists
        BY DEF NotDone
    <2> QED BY <1>6, <2>1 DEF PgInv, DoneOK, JoinUsesItsOwnKeys, LeftoversStopNobody
<1> QED BY <1>5, <1>8, <1>9, <1>10, <1>11, <1>12 DEF PgInv

(* A call of the other kind takes a number too.                            *)
LEMMA CountKeeps ==
    ASSUME PgInv, count.calls < MaxCalls, count' = [count EXCEPT !.calls = @ + 1],
           UNCHANGED <<registry, session, call, jobs, done, replaced>>
    PROVE  PgInv'
<1>1. count.calls \in Nat /\ count'.calls = count.calls + 1
      /\ count' \in [calls : 0..MaxCalls, registers : Nat, restarts : Nat]
    BY PgAssumption DEF PgInv, Typed
<1>2. Typed'
    BY <1>1 DEF PgInv, Typed
<1>3. \A t \in Threads : call[t].id \in Nat
    BY CallFacts DEF CallType
<1>4. CallsOK'
    BY <1>1, <1>3 DEF PgInv, CallsOK, Active
<1>5. \A j \in jobs : j.id \in Nat
    BY DEF PgInv, Typed, JobType
<1>6. JobsOK'
    BY <1>1, <1>5 DEF PgInv, JobsOK
<1>7. TempOK' /\ DoneOK'
    BY DEF PgInv, TempOK, DoneOK, JoinUsesItsOwnKeys, LeftoversStopNobody
<1>8. StableOK'
    BY DEF PgInv, StableOK
<1> QED BY <1>2, <1>4, <1>6, <1>7, <1>8 DEF PgInv

(* Only a name nobody has used yet can be registered without replacing.    *)
LEMMA RegisterKeeps ==
    ASSUME PgInv, NEW n \in Names, NEW s \in Servers \union Others, Register(n, s)
    PROVE  PgInv'
<1>1. /\ count' = [count EXCEPT !.registers = @ + 1] /\ registry' = [registry EXCEPT ![n] = s]
      /\ replaced' = IF registry[n] \in {Nowhere, s} THEN replaced ELSE replaced \union {n}
      /\ UNCHANGED <<session, call, jobs, done>>
    BY DEF Register
<1>2. count' \in [calls : 0..MaxCalls, registers : Nat, restarts : Nat] /\ count'.calls = count.calls
    BY <1>1 DEF PgInv, Typed
<1>3. Typed'
    BY <1>1, <1>2 DEF PgInv, Typed
<1>4. CallsOK' /\ JobsOK' /\ TempOK' /\ DoneOK'
    BY <1>1, <1>2 DEF PgInv, CallsOK, Active, JobsOK, TempOK, DoneOK, JoinUsesItsOwnKeys,
                      LeftoversStopNobody
<1>5. ASSUME NEW m \in Names \ replaced'
      PROVE  /\ \A o \in Owners : session[o][m] # NoSession => session[o][m].server = registry'[m]
             /\ \A th \in Threads : call[th].phase # "idle" /\ call[th].name = m =>
                   call[th].spec = registry'[m] /\ call[th].servers \subseteq {registry'[m]}
             /\ \A j \in jobs : j.name = m => j.spec = registry'[m]
             /\ \A th \in Threads : done[th].name = m => done[th].servers \subseteq {registry'[m]}
    <2>1. m \in Names \ replaced
        BY <1>1
    <2>2. CASE registry'[m] = registry[m]
        BY <2>1, <2>2 DEF PgInv, StableOK
    <2>3. CASE registry'[m] # registry[m]
        <3>1. m = n /\ registry[m] = Nowhere
            BY <1>1, <2>1, <2>3 DEF PgInv, Typed
        <3>2. Nowhere \notin Servers
            BY PgAssumption
        <3>3. \A o \in Owners : session[o][m] = NoSession
            <4>1. \A o \in Owners : session[o][m] \in OpenSession \union {NoSession}
                BY DEF PgInv, Typed
            <4>2. \A o \in Owners : session[o][m] # NoSession => session[o][m].server = Nowhere
                BY <2>1, <3>1 DEF PgInv, StableOK
            <4> QED BY <3>2, <4>1, <4>2 DEF OpenSession
        <3>4. \A th \in Threads : ~(call[th].phase # "idle" /\ call[th].name = m)
            BY <2>1, <3>1, <3>2, CallFacts DEF PgInv, StableOK
        <3>5. \A j \in jobs : j.name # m
            <4>1. \A j \in jobs : j.name = m => j.spec = Nowhere
                BY <2>1, <3>1 DEF PgInv, StableOK
            <4> QED BY <3>2, <4>1 DEF PgInv, Typed, JobType
        <3>6. \A th \in Threads : done[th].name = m => done[th].servers = {}
            <4>1. \A th \in Threads : done[th].name = m => done[th].servers \subseteq {Nowhere}
                BY <2>1, <3>1 DEF PgInv, StableOK
            <4>2. \A th \in Threads : done[th].servers \subseteq Servers
                BY CallFacts DEF DoneType
            <4> QED BY <3>2, <4>1, <4>2
        <3> QED BY <3>3, <3>4, <3>5, <3>6
    <2> QED BY <2>2, <2>3
<1>6. StableOK'
    BY <1>1, <1>5 DEF StableOK, Owners
<1> QED BY <1>3, <1>4, <1>6 DEF PgInv

LEMMA ServerRestartsKeeps ==
    ASSUME PgInv, NEW s \in Servers, ServerRestarts(s)
    PROVE  PgInv'
<1>1. /\ count' = [count EXCEPT !.restarts = @ + 1]
      /\ session' = [o \in Owners |-> [n \in Names |->
             IF session[o][n].server = s
             THEN [session[o][n] EXCEPT !.alive = FALSE, !.temp = NoTable] ELSE session[o][n]]]
      /\ UNCHANGED <<registry, call, jobs, done, replaced>>
    BY DEF ServerRestarts
<1>2. count' \in [calls : 0..MaxCalls, registers : Nat, restarts : Nat] /\ count'.calls = count.calls
    <2>1. count' = [count EXCEPT !.restarts = @ + 1]
        BY <1>1
    <2> QED BY <2>1 DEF PgInv, Typed
<1>3. UNCHANGED <<registry, call, jobs, done, replaced>>
    BY <1>1
<1>4. ASSUME NEW o \in Owners, NEW n \in Names
      PROVE  \/ session'[o][n] = session[o][n]
             \/ /\ session[o][n] # NoSession /\ session'[o][n] \in OpenSession
                /\ session'[o][n].server = session[o][n].server
                /\ session'[o][n].temp = NoTable
    <2>1. CASE session[o][n].server = s
        <3>1. session[o][n] # NoSession
            BY <2>1, PgAssumption DEF NoSession
        <3>2. session[o][n] \in OpenSession
            BY <3>1 DEF PgInv, Typed
        <3>3. session'[o][n] = [session[o][n] EXCEPT !.alive = FALSE, !.temp = NoTable]
            BY <1>1, <2>1
        <3> QED BY <3>1, <3>2, <3>3, NoSessionIsClosed DEF OpenSession
    <2>2. CASE session[o][n].server # s
        BY <1>1, <2>2
    <2> QED BY <2>1, <2>2
<1>5. Typed'
    <2>1. \A o \in Owners, n \in Names : session'[o][n] \in OpenSession \union {NoSession}
        BY <1>4 DEF PgInv, Typed
    <2>2. session' \in [Owners -> [Names -> OpenSession \union {NoSession}]]
        BY <1>1, <2>1
    <2> QED BY <1>1, <1>2, <2>2 DEF PgInv, Typed
<1>6. CallsOK' /\ JobsOK' /\ DoneOK'
    BY <1>1, <1>2 DEF PgInv, CallsOK, Active, JobsOK, DoneOK, JoinUsesItsOwnKeys,
                      LeftoversStopNobody
<1>7. TempOK'
    <2>1. \A th \in Threads : call[th].phase # "idle" => call[th].name \in Names /\ th \in Owners
        BY CallFacts DEF Owners
    <2>2. ASSUME NEW th \in Threads, call[th].phase \in {"ingest", "join"},
                 NEW t, t = session[th][call[th].name], NEW u, u = session'[th][call[th].name]
          PROVE  u # NoSession /\ u.temp \in {NoTable, t.temp}
        <3>1. t # NoSession
            BY <2>2 DEF PgInv, TempOK
        <3>2. u = t \/ (u \in OpenSession /\ u.temp = NoTable)
            BY <1>4, <2>1, <2>2
        <3> QED BY <3>1, <3>2, NoSessionIsClosed
    <2>3. ASSUME NEW th \in Threads
          PROVE  /\ call[th].phase = "ingest" =>
                       session'[th][call[th].name] # NoSession /\ session'[th][call[th].name].temp = NoTable
                 /\ call[th].phase = "join" =>
                       /\ session'[th][call[th].name] # NoSession
                       /\ session'[th][call[th].name].temp \in {NoTable, Keys(call[th].id)}
        BY <2>2 DEF PgInv, TempOK
    <2> QED BY <1>3, <2>3 DEF TempOK
<1>8. StableOK'
    <2>1. \A o \in Owners, n \in Names : session'[o][n] # NoSession =>
             session[o][n] # NoSession /\ session'[o][n].server = session[o][n].server
        BY <1>4
    <2>2. Owners' = Owners
        BY DEF Owners
    <2> QED BY <1>3, <2>1, <2>2 DEF PgInv, StableOK
<1> QED BY <1>5, <1>6, <1>7, <1>8 DEF PgInv

---------------------------------------------------------------------------
(* The parallel read *)

LEMMA SendJobsKeeps == ASSUME PgInv, NEW th \in Threads, SendJobs(th) PROVE PgInv'
<1>1. /\ call[th].phase = "scan" /\ SpecInUse(th) \in Servers /\ Keep(th, call[th].name, Own(th))
      /\ UNCHANGED <<registry, done, replaced, count>>
    BY DEF SendJobs, Does
<1>2. Active(call[th]) /\ call[th] \in CallType /\ call[th].pending = {}
    BY <1>1, CallFacts, RecordTypes DEF PgInv, CallsOK, Active
<1>3. PICK c : c = [call[th] EXCEPT !.phase = "partitions", !.pending = 1..Partitions,
                                    !.servers = {Own(th).server}]
    OBVIOUS
<1>4. /\ Own(th) \in OpenSession /\ th \in Owners /\ call[th].name \in Names
      /\ call[th].name \notin replaced => Own(th).server = registry[call[th].name]
    BY <1>1, OwnFacts
<1>5. /\ c \in CallType /\ c.phase = "partitions" /\ c.pending = 1..Partitions
      /\ c.servers = {Own(th).server} /\ c.id = call[th].id /\ c.name = call[th].name
      /\ c.spec = call[th].spec
    <2>1. Own(th).server \in Servers /\ "partitions" \in Phases
        BY <1>4 DEF OpenSession, Phases
    <2> QED BY <1>2, <1>3, <2>1 DEF CallType
<1>6. /\ call'[th] = c /\ \A t \in Threads \ {th} : call'[t] = call[t]
      /\ call' \in [Threads -> CallType]
    <2>1. call' = [call EXCEPT ![th] = c]
        BY <1>3 DEF SendJobs, PgInv, Typed
    <2> QED BY <1>5, <2>1 DEF PgInv, Typed
<1>7. PICK new : new = [id : {call[th].id}, part : 1..Partitions, name : {call[th].name},
                        spec : {call[th].spec}]
    OBVIOUS
<1>8. jobs' = jobs \union new
    BY <1>7 DEF SendJobs
<1>9. \A j \in new : /\ j \in JobType /\ j.id = c.id /\ j.part \in 1..Partitions
                     /\ j.name = c.name /\ j.spec = c.spec
    <2>1. call[th].id \in 1..MaxCalls /\ call[th].name \in Names /\ call[th].spec \in Servers
        BY <1>1, CallFacts
    <2> QED BY <1>5, <1>7, <2>1 DEF JobType
<1>10. /\ session' \in [Owners -> [Names -> OpenSession \union {NoSession}]]
       /\ \A o \in Owners, n \in Names :
             \/ session'[o][n] = session[o][n]
             \/ o = th /\ n = call[th].name /\ session'[o][n] = Own(th)
    BY <1>1, <1>4, KeepFacts DEF PgInv
<1>11. Typed'
    BY <1>1, <1>6, <1>8, <1>9, <1>10 DEF PgInv, Typed
<1>12. CallsOK'
    <2>1. Active(c)'
        BY <1>1, <1>2, <1>5 DEF Active
    <2>2. \A t \in Threads : call'[t] = Idle \/ Active(call[t])'
        BY <1>1, <1>6, <2>1 DEF PgInv, CallsOK, Active
    <2>3. \A t, u \in Threads : t # u /\ call'[t].id # 0 => call'[t].id # call'[u].id
        BY <1>5, <1>6 DEF PgInv, CallsOK
    <2> QED BY <2>2, <2>3 DEF CallsOK
<1>13. JobsOK'
    <2>1. \A j \in jobs : j.id # c.id
        BY <1>2, <1>5 DEF PgInv, JobsOK
    <2>2. \A j \in jobs' : j.id <= count'.calls
        BY <1>1, <1>2, <1>5, <1>8, <1>9 DEF PgInv, JobsOK, Active
    <2>3. \A j \in new, t \in Threads : j.id = call'[t].id =>
             j.part \in call'[t].pending /\ j.name = call'[t].name
        <3>1. \A t \in Threads \ {th} : call'[t].id # c.id
            BY <1>2, <1>5, <1>6 DEF PgInv, CallsOK, Active
        <3> QED BY <1>5, <1>6, <1>9, <3>1
    <2>4. \A j \in jobs, t \in Threads : j.id = call'[t].id =>
             j.part \in call'[t].pending /\ j.name = call'[t].name
        BY <1>6, <2>1 DEF PgInv, JobsOK
    <2>5. \A i, j \in jobs' : i.id = j.id => i.name = j.name /\ i.spec = j.spec
        BY <1>8, <1>9, <2>1 DEF PgInv, JobsOK
    <2> QED BY <1>8, <2>2, <2>3, <2>4, <2>5 DEF JobsOK
<1>14. TempOK'
    <2>1. ASSUME NEW t \in Threads, call'[t].phase \in {"ingest", "join"}
          PROVE  call'[t] = call[t] /\ session'[t][call'[t].name] = session[t][call[t].name]
        <3>1. t # th /\ call'[t] = call[t]
            BY <1>5, <1>6, <2>1
        <3>2. call[t].name \in Names /\ t \in Owners
            BY <2>1, <3>1, CallFacts DEF Owners
        <3> QED BY <1>10, <3>1, <3>2
    <2> QED BY <2>1 DEF PgInv, TempOK
<1>15. StableOK'
    <2> SUFFICES ASSUME NEW n \in Names \ replaced
                 PROVE  /\ \A o \in Owners : session'[o][n] # NoSession =>
                              session'[o][n].server = registry[n]
                        /\ \A t \in Threads : call'[t].phase # "idle" /\ call'[t].name = n =>
                              call'[t].spec = registry[n] /\ call'[t].servers \subseteq {registry[n]}
                        /\ \A j \in jobs' : j.name = n => j.spec = registry[n]
                        /\ \A t \in Threads : done[t].name = n =>
                              done[t].servers \subseteq {registry[n]}
        BY <1>1 DEF StableOK, Owners
    <2>1. \A o \in Owners : session'[o][n] # NoSession => session'[o][n].server = registry[n]
        BY <1>4, <1>10 DEF PgInv, StableOK
    <2>2. c.name = n => c.spec = registry[n] /\ c.servers \subseteq {registry[n]}
        BY <1>2, <1>4, <1>5 DEF PgInv, StableOK, Active
    <2>3. \A t \in Threads : call'[t].phase # "idle" /\ call'[t].name = n =>
             call'[t].spec = registry[n] /\ call'[t].servers \subseteq {registry[n]}
        BY <1>6, <2>2 DEF PgInv, StableOK
    <2>4. \A j \in jobs' : j.name = n => j.spec = registry[n]
        BY <1>8, <1>9, <2>2 DEF PgInv, StableOK
    <2>5. \A t \in Threads : done[t].name = n => done[t].servers \subseteq {registry[n]}
        BY DEF PgInv, StableOK
    <2> QED BY <2>1, <2>3, <2>4, <2>5
<1>16. DoneOK'
    BY <1>1 DEF PgInv, DoneOK, JoinUsesItsOwnKeys, LeftoversStopNobody
<1> QED BY <1>11, <1>12, <1>13, <1>14, <1>15, <1>16 DEF PgInv

LEMMA RunJobKeeps ==
    ASSUME PgInv, NEW w \in 0..(Workers - 1), NEW job \in jobs, RunJob(w, job)
    PROVE  PgInv'
<1>1. PICK s : s = SessionOf(Reader(w), job.name, job.spec)
    OBVIOUS
<1>2. PICK ok \in BOOLEAN :
        /\ Reply(job, s, ok) /\ jobs' = jobs \ {job}
        /\ session' = session \/ Keep(Reader(w), job.name, s)
        /\ UNCHANGED <<registry, done, replaced, count>>
    BY <1>1 DEF RunJob
<1>3. Reader(w) \in Owners /\ job \in JobType /\ job.name \in Names /\ job.spec \in Servers
    BY DEF Owners, PgInv, Typed, JobType
<1>4. /\ s \in OpenSession
      /\ session[Reader(w)][job.name] # NoSession => s = session[Reader(w)][job.name]
      /\ job.name \notin replaced => s.server = registry[job.name]
    <2>1. session[Reader(w)][job.name] \in OpenSession \union {NoSession}
        BY <1>3 DEF PgInv, Typed
    <2>2. CASE session[Reader(w)][job.name] # NoSession
        BY <1>1, <1>3, <2>1, <2>2 DEF SessionOf, PgInv, StableOK
    <2>3. CASE session[Reader(w)][job.name] = NoSession
        <3>1. s = Connection(job.spec)
            BY <1>1, <2>3 DEF SessionOf
        <3>2. job.name \notin replaced => job.spec = registry[job.name]
            BY <1>3 DEF PgInv, StableOK
        <3> QED BY <1>3, <2>3, <3>1, <3>2, NoSessionIsClosed
    <2> QED BY <2>2, <2>3
<1>5. /\ session' \in [Owners -> [Names -> OpenSession \union {NoSession}]]
      /\ \A o \in Owners, n \in Names :
            \/ session'[o][n] = session[o][n]
            \/ session[o][n] = NoSession /\ n = job.name /\ session'[o][n] = s
    <2>1. CASE session' = session
        BY <2>1 DEF PgInv, Typed
    <2>2. CASE Keep(Reader(w), job.name, s)
        BY <1>3, <1>4, <2>2, KeepFacts DEF PgInv
    <2> QED BY <1>2, <2>1, <2>2
<1>6. ASSUME NEW t \in Threads, call[t].id = job.id
      PROVE  call[t].phase = "partitions" /\ Active(call[t]) /\ call[t] \in CallType
             /\ call[t].name \in Names
    <2>1. job.part \in call[t].pending
        BY <1>6 DEF PgInv, JobsOK
    <2>2. Active(call[t])
        BY <2>1 DEF PgInv, CallsOK, Idle
    <2> QED BY <2>1, <2>2, CallFacts DEF Active
<1>7. ASSUME NEW t \in Threads
      PROVE  \/ call'[t] = call[t] /\ call[t].id # job.id
             \/ call'[t] = Idle
             \/ /\ call[t].id = job.id /\ call'[t].pending = call[t].pending \ {job.part}
                /\ call'[t].servers = call[t].servers \union {s.server}
                /\ call'[t].phase = "partitions" /\ call'[t].id = call[t].id
                /\ call'[t].name = call[t].name /\ call'[t].spec = call[t].spec
                /\ call'[t] \in CallType
    <2>1. CASE call[t].id # job.id
        BY <1>2, <2>1 DEF Reply
    <2>2. CASE call[t].id = job.id /\ ~ok
        BY <1>2, <2>2 DEF Reply
    <2>3. CASE call[t].id = job.id /\ ok
        <3>1. call'[t] = [call[t] EXCEPT !.pending = @ \ {job.part}, !.servers = @ \union {s.server}]
            BY <1>2, <2>3 DEF Reply
        <3>2. call[t] \in CallType /\ call[t].phase = "partitions"
            BY <1>6, <2>3
        <3>3. s.server \in Servers
            BY <1>4 DEF OpenSession
        <3>4. PICK p \in SUBSET (1..Partitions) : p = call[t].pending \ {job.part}
            BY <3>2 DEF CallType
        <3>5. PICK v \in SUBSET Servers : v = call[t].servers \union {s.server}
            BY <3>2, <3>3 DEF CallType
        <3>6. call'[t] = [call[t] EXCEPT !.pending = p, !.servers = v]
            BY <3>1, <3>4, <3>5
        <3> QED BY <2>3, <3>2, <3>4, <3>5, <3>6 DEF CallType
    <2> QED BY <2>1, <2>2, <2>3
<1>8. Typed'
    <2>1. \A t \in Threads : call'[t] \in CallType
        BY <1>7, CallFacts, RecordTypes
    <2>2. call' = [t \in Threads |-> call'[t]]
        BY <1>2 DEF Reply
    <2>3. call' \in [Threads -> CallType]
        BY <2>1, <2>2
    <2> QED BY <1>2, <1>5, <2>3 DEF PgInv, Typed
<1>9. CallsOK'
    <2>1. ASSUME NEW t \in Threads PROVE call'[t] = Idle \/ Active(call[t])'
        BY <1>2, <1>6, <1>7 DEF PgInv, CallsOK, Active
    <2>2. \A t \in Threads : call'[t].id = 0 \/ call'[t].id = call[t].id
        BY <1>7 DEF Idle
    <2>3. \A t, u \in Threads : t # u /\ call'[t].id # 0 => call'[t].id # call'[u].id
        BY <2>2 DEF PgInv, CallsOK
    <2> QED BY <2>1, <2>3 DEF CallsOK
<1>10. JobsOK'
    <2>1. ASSUME NEW j \in jobs \ {job}, NEW t \in Threads, j.id = call'[t].id
          PROVE  j.part \in call'[t].pending /\ j.name = call'[t].name
        <3>1. j \in JobType /\ job \in JobType /\ j # job /\ j.id # 0
            BY <1>3 DEF PgInv, Typed, JobType
        <3>2. call'[t] # Idle
            BY <2>1, <3>1 DEF Idle
        <3>3. CASE call'[t] = call[t]
            BY <2>1, <3>3 DEF PgInv, JobsOK
        <3>4. CASE /\ call[t].id = job.id /\ call'[t].pending = call[t].pending \ {job.part}
                   /\ call'[t].id = call[t].id /\ call'[t].name = call[t].name
            <4>1. j.id = job.id /\ j.name = job.name /\ j.spec = job.spec
                BY <2>1, <3>4 DEF PgInv, JobsOK
            <4>2. j.part # job.part
                BY <3>1, <4>1 DEF JobType
            <4>3. j.part \in call[t].pending /\ j.name = call[t].name
                BY <2>1, <3>4 DEF PgInv, JobsOK
            <4> QED BY <3>4, <4>2, <4>3
        <3> QED BY <1>7, <3>2, <3>3, <3>4
    <2> QED BY <1>2, <2>1 DEF PgInv, JobsOK
<1>11. TempOK'
    <2>1. ASSUME NEW t \in Threads, call'[t].phase \in {"ingest", "join"}
          PROVE  /\ call'[t] = call[t] /\ session[t][call[t].name] # NoSession
                 /\ session'[t][call'[t].name] = session[t][call[t].name]
        <3>1. call'[t] = call[t]
            BY <1>7, <2>1, RecordTypes
        <3>2. session[t][call[t].name] # NoSession
            BY <2>1, <3>1 DEF PgInv, TempOK
        <3>3. call[t].name \in Names /\ t \in Owners
            BY <2>1, <3>1, CallFacts DEF Owners
        <3> QED BY <1>5, <3>1, <3>2, <3>3
    <2> QED BY <2>1 DEF PgInv, TempOK
<1>12. StableOK'
    <2> SUFFICES ASSUME NEW n \in Names \ replaced
                 PROVE  /\ \A o \in Owners : session'[o][n] # NoSession =>
                              session'[o][n].server = registry[n]
                        /\ \A t \in Threads : call'[t].phase # "idle" /\ call'[t].name = n =>
                              call'[t].spec = registry[n] /\ call'[t].servers \subseteq {registry[n]}
                        /\ \A j \in jobs \ {job} : j.name = n => j.spec = registry[n]
                        /\ \A t \in Threads : done[t].name = n =>
                              done[t].servers \subseteq {registry[n]}
        BY <1>2 DEF StableOK, Owners
    <2>1. \A o \in Owners : session'[o][n] # NoSession => session'[o][n].server = registry[n]
        BY <1>4, <1>5 DEF PgInv, StableOK
    <2>2. ASSUME NEW t \in Threads, call'[t].phase # "idle", call'[t].name = n
          PROVE  call'[t].spec = registry[n] /\ call'[t].servers \subseteq {registry[n]}
        <3>1. CASE call'[t] = call[t]
            BY <2>2, <3>1 DEF PgInv, StableOK
        <3>2. CASE /\ call[t].id = job.id /\ call'[t].servers = call[t].servers \union {s.server}
                   /\ call'[t].name = call[t].name /\ call'[t].spec = call[t].spec
            <4>1. call[t].spec = registry[n] /\ call[t].servers \subseteq {registry[n]}
                BY <1>6, <2>2, <3>2 DEF PgInv, StableOK
            <4>2. s.server = registry[n]
                <5>1. job.name = n
                    BY <2>2, <3>2 DEF PgInv, JobsOK
                <5> QED BY <1>4, <5>1
            <4> QED BY <3>2, <4>1, <4>2
        <3> QED BY <1>7, <2>2, <3>1, <3>2, RecordTypes
    <2>3. \A j \in jobs \ {job} : j.name = n => j.spec = registry[n]
        BY DEF PgInv, StableOK
    <2>4. \A t \in Threads : done[t].name = n => done[t].servers \subseteq {registry[n]}
        BY DEF PgInv, StableOK
    <2> QED BY <2>1, <2>2, <2>3, <2>4
<1>13. DoneOK'
    BY <1>2 DEF PgInv, DoneOK, JoinUsesItsOwnKeys, LeftoversStopNobody
<1> QED BY <1>8, <1>9, <1>10, <1>11, <1>12, <1>13 DEF PgInv

---------------------------------------------------------------------------
(* The connections, in all *)

LEMMA PgInit == Init => PgInv
<1> SUFFICES ASSUME Init PROVE PgInv
    OBVIOUS
<1>1. count.calls = 0 /\ count \in [calls : 0..MaxCalls, registers : Nat, restarts : Nat]
    BY PgAssumption DEF Init
<1>2. Typed
    BY <1>1, RecordTypes DEF Init, Typed
<1>3. \A th \in Threads : call[th] = Idle /\ done[th] = NotDone
    BY DEF Init
<1>4. CallsOK
    <2>1. Idle.id = 0
        BY DEF Idle
    <2> QED BY <1>3, <2>1 DEF CallsOK
<1>5. JobsOK
    BY DEF Init, JobsOK
<1>6. TempOK
    BY <1>3, RecordTypes DEF TempOK
<1>7. NotDone.servers = {} /\ NotDone.met = NoTable /\ ~NotDone.exists
    BY DEF NotDone
<1>8. StableOK
    <2>1. \A o \in Owners, n \in Names : session[o][n] = NoSession
        BY DEF Init
    <2>2. jobs = {}
        BY DEF Init
    <2> QED BY <1>3, <1>7, <2>1, <2>2, RecordTypes DEF StableOK
<1>9. DoneOK
    BY <1>3, <1>7 DEF DoneOK, JoinUsesItsOwnKeys, LeftoversStopNobody
<1> QED BY <1>2, <1>4, <1>5, <1>6, <1>8, <1>9 DEF PgInv

LEMMA PgStep == PgInv /\ [Next]_vars => PgInv'
<1> SUFFICES ASSUME PgInv, [Next]_vars PROVE PgInv'
    OBVIOUS
<1>1. CASE UNCHANGED vars
    <2>1. Typed' /\ CallsOK' /\ JobsOK'
        BY <1>1 DEF vars, PgInv, Typed, CallsOK, Active, JobsOK
    <2>2. TempOK' /\ StableOK' /\ DoneOK'
        BY <1>1 DEF vars, PgInv, TempOK, StableOK, DoneOK, JoinUsesItsOwnKeys, LeftoversStopNobody
    <2> QED BY <2>1, <2>2 DEF PgInv
<1>2. CASE \E n \in Names, s \in Servers \union Others : Register(n, s)
    BY <1>2, RegisterKeeps
<1>3. CASE \E s \in Servers : ServerRestarts(s)
    BY <1>3, ServerRestartsKeeps
<1>4. CASE \E th \in Threads, n \in Names, phase \in {"fetch", "drop", "scan"} : Begin(th, n, phase)
    BY <1>4, BeginKeeps
<1>5. CASE \E th \in Threads : FailCall(th) \/ Fetch(th) \/ DropFirst(th) \/ Ingest(th)
    BY <1>5, FailCallKeeps, FetchKeeps, DropFirstKeeps, IngestKeeps
<1>6. CASE \E th \in Threads : Join(th) \/ SendJobs(th) \/ Collected(th)
    BY <1>6, JoinKeeps, SendJobsKeeps, CollectedKeeps
<1>7. CASE \E w \in 0..(Workers - 1), job \in jobs : RunJob(w, job)
    BY <1>7, RunJobKeeps
<1> QED BY <1>1, <1>2, <1>3, <1>4, <1>5, <1>6, <1>7 DEF Next

(* What the properties of the connections take from the invariant.         *)
LEMMA PgInvFacts ==
    PgInv => TypeOK /\ JoinUsesItsOwnKeys /\ LeftoversStopNobody /\ StableNamesReadTheirServer
<1> SUFFICES ASSUME PgInv
             PROVE  TypeOK /\ JoinUsesItsOwnKeys /\ LeftoversStopNobody /\ StableNamesReadTheirServer
    OBVIOUS
<1>1. /\ registry \in [Names -> Servers \union Others \union {Nowhere}]
      /\ session \in [Owners -> [Names -> OpenSession \union {NoSession}]] /\ replaced \subseteq Names
    BY DEF PgInv, Typed
<1>2. session \in [Owners -> [Names ->
           [server : Servers \union {Nowhere}, alive : BOOLEAN, temp : Tables]]]
    <2>1. NoSession \in [server : Servers \union {Nowhere}, alive : BOOLEAN, temp : Tables]
        BY NoSessionIsClosed DEF NoSession
    <2>2. \A s \in OpenSession :
             s \in [server : Servers \union {Nowhere}, alive : BOOLEAN, temp : Tables]
        BY DEF OpenSession
    <2>3. \A o \in Owners, n \in Names :
             session[o][n] \in [server : Servers \union {Nowhere}, alive : BOOLEAN, temp : Tables]
        BY <1>1, <2>1, <2>2
    <2> QED BY <1>1, <2>3
<1>3. \A th \in Threads : call[th].phase \in Phases /\ call[th].servers \subseteq Servers
    BY CallFacts DEF CallType
<1>4. \A th \in Threads : done[th].met \in Tables /\ done[th].servers \subseteq Servers
    BY CallFacts DEF DoneType
<1>5. \A th \in Threads, job \in jobs : job.id = call[th].id => job.part \in call[th].pending
    BY DEF PgInv, JobsOK
<1>6. TypeOK
    BY <1>1, <1>2, <1>3, <1>4, <1>5 DEF TypeOK
<1>7. StableNamesReadTheirServer
    BY CallFacts DEF StableNamesReadTheirServer
<1> QED BY <1>6, <1>7 DEF PgInv, DoneOK

---------------------------------------------------------------------------
(* The directories *)

TableMap == [Files -> Schemas \union {Missing}]
ReadingType == [phase : {"idle", "context", "register", "run"}, dir : Others \union {Nowhere},
                left : SUBSET Files, tables : TableMap]

ParquetTyped ==
    /\ file \in [Others -> [Files -> Schemas \union {Missing, Unreadable}]]
    /\ context \in [Others -> TableMap \union {Uncached}]
    /\ lock \in Threads \union {Nobody}
    /\ reading \in [Threads -> ReadingType]
    /\ \A th \in Threads : reading[th].phase # "idle" => reading[th].dir \in Others
    /\ changed \in SUBSET (Others \X Files)
    /\ changes \in 0..MaxFileChanges

LockOK == \A th \in Threads : reading[th].phase = "register" <=> lock = th

(* A directory that is being registered is not cached yet, and what nobody *)
(* touched since is either still to be read or has been read as it is.     *)
RegisterOK ==
    \A th \in Threads :
        LET r == reading[th]
        IN r.phase = "register" =>
              /\ context[r.dir] = Uncached
              /\ \A f \in Files : <<r.dir, f>> \notin changed /\ file[r.dir][f] \in Schemas =>
                    f \in r.left \/ r.tables[f] = file[r.dir][f]

ParquetInv ==
    /\ ParquetTyped /\ LockOK /\ RegisterOK
    /\ OneContextPerDirectory /\ UntouchedFilesAreTables

LEMMA ReadingFacts ==
    ASSUME ParquetInv, NEW th \in Threads, reading[th].phase # "idle"
    PROVE  /\ reading[th] \in ReadingType /\ reading[th].dir \in Others
           /\ context[reading[th].dir] \in TableMap \union {Uncached} /\ Uncached \notin TableMap
           /\ reading[th].tables \in TableMap /\ reading[th].left \in SUBSET Files
           /\ file[reading[th].dir] \in [Files -> Schemas \union {Missing, Unreadable}]
BY SourcesAssumption DEF ParquetInv, ParquetTyped, ReadingType, TableMap

LEMMA NotReadingType == NotReading \in ReadingType /\ NotReading.phase = "idle"
<1>1. NoTables \in TableMap
    BY DEF NoTables, TableMap
<1> QED BY <1>1 DEF NotReading, ReadingType

(* A step of one thread that touches no file and no cached context.        *)
LEMMA ReadingStep ==
    ASSUME ParquetInv, NEW th \in Threads, NEW r \in ReadingType,
           reading' = [reading EXCEPT ![th] = r],
           UNCHANGED <<file, context, changed, changes>>,
           lock' \in Threads \union {Nobody},
           r.phase # "idle" => r.dir \in Others,
           \A t \in Threads : (IF t = th THEN r.phase ELSE reading[t].phase) = "register" <=> lock' = t,
           r.phase = "register" =>
              /\ context[r.dir] = Uncached
              /\ \A f \in Files : <<r.dir, f>> \notin changed /\ file[r.dir][f] \in Schemas =>
                    f \in r.left \/ r.tables[f] = file[r.dir][f],
           r.phase = "run" => r.tables = context[r.dir]
    PROVE  ParquetInv'
<1>1. reading'[th] = r /\ \A t \in Threads \ {th} : reading'[t] = reading[t]
    BY DEF ParquetInv, ParquetTyped
<1>2. ParquetTyped'
    BY <1>1 DEF ParquetInv, ParquetTyped
<1>3. LockOK'
    BY <1>1 DEF LockOK
<1>4. RegisterOK'
    BY <1>1 DEF ParquetInv, RegisterOK
<1>5. OneContextPerDirectory'
    BY <1>1 DEF ParquetInv, OneContextPerDirectory
<1>6. UntouchedFilesAreTables'
    BY DEF ParquetInv, UntouchedFilesAreTables
<1> QED BY <1>2, <1>3, <1>4, <1>5, <1>6 DEF ParquetInv

LEMMA BeginParquetKeeps ==
    ASSUME PgInv, ParquetInv, NEW th \in Threads, NEW n \in Names, BeginParquet(th, n)
    PROVE  PgInv' /\ ParquetInv'
<1>1. PgInv'
    BY CountKeeps DEF BeginParquet
<1>2. PICK r : r = [NotReading EXCEPT !.phase = "context", !.dir = registry[n]]
    OBVIOUS
<1>3. r \in ReadingType /\ r.phase = "context" /\ r.dir \in Others
    BY <1>2, NotReadingType DEF BeginParquet, ReadingType
<1>4. reading' = [reading EXCEPT ![th] = r] /\ UNCHANGED <<file, context, lock, changed, changes>>
      /\ reading[th].phase = "idle"
    BY <1>2, NotReadingType DEF BeginParquet, Reading
<1>5. lock \in Threads \union {Nobody}
    BY DEF ParquetInv, ParquetTyped
<1>6. \A t \in Threads : (IF t = th THEN r.phase ELSE reading[t].phase) = "register" <=> lock' = t
    BY <1>3, <1>4 DEF ParquetInv, LockOK
<1>7. ParquetInv'
    BY <1>3, <1>4, <1>5, <1>6, ReadingStep
<1> QED BY <1>1, <1>7

LEMMA LookUpContextKeeps ==
    ASSUME ParquetInv, NEW th \in Threads, LookUpContext(th)
    PROVE  ParquetInv'
<1>1. /\ reading[th].phase = "context" /\ lock = Nobody
      /\ UNCHANGED <<file, context, changed, changes>>
    BY DEF LookUpContext
<1>2. /\ reading[th] \in ReadingType /\ reading[th].dir \in Others
      /\ context[reading[th].dir] \in TableMap \union {Uncached}
      /\ file[reading[th].dir] \in [Files -> Schemas \union {Missing, Unreadable}]
    BY <1>1, ReadingFacts
<1>3. \A t \in Threads : reading[t].phase # "register"
    BY <1>1, SourcesAssumption DEF ParquetInv, LockOK
<1>4. CASE context[reading[th].dir] # Uncached
    <2>1. PICK r : r = [reading[th] EXCEPT !.phase = "run", !.tables = context[reading[th].dir]]
        OBVIOUS
    <2>2. reading' = [reading EXCEPT ![th] = r] /\ lock' = lock
        BY <1>4, <2>1 DEF LookUpContext, Reading
    <2>3. r \in ReadingType /\ r.phase = "run" /\ r.dir = reading[th].dir /\ r.tables = context[r.dir]
        BY <1>2, <1>4, <2>1 DEF ReadingType
    <2>4. \A t \in Threads : (IF t = th THEN r.phase ELSE reading[t].phase) = "register" <=> lock' = t
        BY <1>1, <1>3, <2>2, <2>3, SourcesAssumption
    <2> QED BY <1>1, <1>2, <2>2, <2>3, <2>4, ReadingStep
<1>5. CASE context[reading[th].dir] = Uncached
    <2>1. PICK left \in SUBSET Files : left = {f \in Files : file[reading[th].dir][f] # Missing}
        OBVIOUS
    <2>2. PICK r : r = [reading[th] EXCEPT !.phase = "register", !.left = left]
        OBVIOUS
    <2>3. reading' = [reading EXCEPT ![th] = r] /\ lock' = th
        BY <1>5, <2>1, <2>2 DEF LookUpContext, Reading, TakesLock
    <2>4. r \in ReadingType /\ r.phase = "register" /\ r.dir = reading[th].dir /\ r.left = left
        BY <1>2, <2>2 DEF ReadingType
    <2>5. \A t \in Threads : (IF t = th THEN r.phase ELSE reading[t].phase) = "register" <=> lock' = t
        BY <1>3, <2>3, <2>4
    <2>6. \A f \in Files : file[r.dir][f] \in Schemas => f \in r.left
        BY <2>1, <2>4, SourcesAssumption
    <2> QED BY <1>1, <1>2, <1>5, <2>3, <2>4, <2>5, <2>6, ReadingStep
<1> QED BY <1>4, <1>5

LEMMA InferSchemaKeeps ==
    ASSUME ParquetInv, NEW th \in Threads, InferSchema(th)
    PROVE  ParquetInv'
<1>1. reading[th].phase = "register" /\ UNCHANGED <<file, context, changed, changes>>
    BY DEF InferSchema, AfterBadFile
<1>2. /\ reading[th] \in ReadingType /\ reading[th].dir \in Others /\ lock = th
      /\ reading[th].tables \in TableMap /\ reading[th].left \in SUBSET Files
    BY <1>1, ReadingFacts DEF ParquetInv, LockOK
<1>3. \A t \in Threads \ {th} : reading[t].phase # "register"
    BY <1>2 DEF ParquetInv, LockOK
<1>4. CASE /\ UNCHANGED lock
           /\ \E f \in reading[th].left :
                 /\ file[reading[th].dir][f] \in Schemas
                 /\ Reading(th, [reading[th] EXCEPT !.left = @ \ {f},
                                                   !.tables[f] = file[reading[th].dir][f]])
    <2>1. PICK f \in reading[th].left :
             /\ file[reading[th].dir][f] \in Schemas
             /\ Reading(th, [reading[th] EXCEPT !.left = @ \ {f},
                                               !.tables[f] = file[reading[th].dir][f]])
        BY <1>4
    <2>2. PICK left \in SUBSET Files : left = reading[th].left \ {f}
        BY <1>2
    <2>3. PICK tables \in TableMap :
             tables = [reading[th].tables EXCEPT ![f] = file[reading[th].dir][f]]
        BY <1>2, <2>1 DEF TableMap
    <2>4. PICK r : r = [reading[th] EXCEPT !.left = left, !.tables = tables]
        OBVIOUS
    <2>5. reading' = [reading EXCEPT ![th] = r]
        BY <2>1, <2>2, <2>3, <2>4 DEF Reading
    <2>6. /\ r \in ReadingType /\ r.phase = "register" /\ r.dir = reading[th].dir
          /\ r.left = left /\ r.tables = tables
        BY <1>1, <1>2, <2>4 DEF ReadingType
    <2>7. \A t \in Threads : (IF t = th THEN r.phase ELSE reading[t].phase) = "register" <=> lock' = t
        BY <1>2, <1>3, <1>4, <2>6
    <2>8. context[r.dir] = Uncached
        BY <1>1, <2>6 DEF ParquetInv, RegisterOK
    <2>9. ASSUME NEW g \in Files, <<r.dir, g>> \notin changed, file[r.dir][g] \in Schemas
          PROVE  g \in r.left \/ r.tables[g] = file[r.dir][g]
        <3>1. g \in reading[th].left \/ reading[th].tables[g] = file[r.dir][g]
            BY <1>1, <2>6, <2>9 DEF ParquetInv, RegisterOK
        <3>2. f \in Files /\ DOMAIN reading[th].tables = Files
            BY <1>2, <2>1 DEF TableMap
        <3>3. r.tables[g] = IF g = f THEN file[r.dir][f] ELSE reading[th].tables[g]
            BY <2>3, <2>6, <3>2
        <3>4. g # f /\ g \in reading[th].left => g \in r.left
            BY <2>2, <2>6
        <3> QED BY <3>1, <3>3, <3>4
    <2>10. lock' \in Threads \union {Nobody}
        BY <1>2, <1>4
    <2> QED BY <1>1, <1>2, <2>5, <2>6, <2>7, <2>8, <2>9, <2>10, ReadingStep
<1>5. CASE Reading(th, NotReading) /\ lock' = Nobody
    <2>1. reading' = [reading EXCEPT ![th] = NotReading]
        BY <1>5 DEF Reading
    <2>2. \A t \in Threads : (IF t = th THEN NotReading.phase ELSE reading[t].phase) = "register"
                              <=> lock' = t
        BY <1>3, <1>5, NotReadingType, SourcesAssumption
    <2> QED BY <1>1, <1>5, <2>1, <2>2, NotReadingType, ReadingStep
<1> QED BY <1>4, <1>5 DEF InferSchema

(* The context is inserted under the lock, where no query has one yet.     *)
LEMMA InsertContextKeeps ==
    ASSUME ParquetInv, NEW th \in Threads, InsertContext(th)
    PROVE  ParquetInv'
<1> DEFINE d == reading[th].dir
           tables == reading[th].tables
<1>1. /\ reading[th].phase = "register" /\ reading[th].left = {} /\ lock' = Nobody
      /\ context' = [context EXCEPT ![d] = tables] /\ UNCHANGED <<file, changed, changes>>
    BY DEF InsertContext
<1>2. /\ reading[th] \in ReadingType /\ d \in Others /\ lock = th /\ tables \in TableMap
      /\ Uncached \notin TableMap
    BY <1>1, ReadingFacts DEF ParquetInv, LockOK
<1>3. context[d] = Uncached /\ \A f \in Files :
         <<d, f>> \notin changed /\ file[d][f] \in Schemas => tables[f] = file[d][f]
    BY <1>1 DEF ParquetInv, RegisterOK
<1>4. PICK r : r = [reading[th] EXCEPT !.phase = "run"]
    OBVIOUS
<1>5. /\ reading'[th] = r /\ \A t \in Threads \ {th} : reading'[t] = reading[t]
      /\ reading' = [reading EXCEPT ![th] = r]
    BY <1>4 DEF InsertContext, Reading, ParquetInv, ParquetTyped
<1>6. r \in ReadingType /\ r.phase = "run" /\ r.dir = d /\ r.tables = tables
    BY <1>2, <1>4 DEF ReadingType
<1>7. \A t \in Threads \ {th} : reading[t].phase # "register"
    BY <1>2 DEF ParquetInv, LockOK
<1>8. \A e \in Others : context'[e] = IF e = d THEN tables ELSE context[e]
    BY <1>1, <1>2 DEF ParquetInv, ParquetTyped
<1> HIDE DEF d, tables
<1>9. ParquetTyped'
    BY <1>1, <1>2, <1>5, <1>6 DEF ParquetInv, ParquetTyped
<1>10. LockOK'
    BY <1>1, <1>5, <1>6, <1>7, SourcesAssumption DEF LockOK
<1>11. RegisterOK'
    BY <1>5, <1>6, <1>7 DEF RegisterOK
<1>12. OneContextPerDirectory'
    <2>1. ASSUME NEW t \in Threads \ {th}, reading[t].phase = "run"
          PROVE  reading[t].tables = context'[reading[t].dir]
        <3>1. reading[t].tables = context[reading[t].dir]
            BY <2>1 DEF ParquetInv, OneContextPerDirectory
        <3>2. reading[t].tables \in TableMap /\ reading[t].dir \in Others
            BY <2>1, ReadingFacts
        <3> QED BY <1>2, <1>3, <1>8, <3>1, <3>2
    <2>2. r.tables = context'[r.dir]
        BY <1>2, <1>6, <1>8
    <2> QED BY <1>5, <2>1, <2>2 DEF OneContextPerDirectory
<1>13. UntouchedFilesAreTables'
    BY <1>1, <1>3, <1>8 DEF ParquetInv, UntouchedFilesAreTables
<1> QED BY <1>9, <1>10, <1>11, <1>12, <1>13 DEF ParquetInv

LEMMA RunParquetKeeps ==
    ASSUME ParquetInv, NEW th \in Threads, RunParquet(th)
    PROVE  ParquetInv'
<1>1. /\ reading[th].phase = "run" /\ reading' = [reading EXCEPT ![th] = NotReading]
      /\ UNCHANGED <<file, context, lock, changed, changes>>
    BY DEF RunParquet, Reading
<1>2. lock \in Threads \union {Nobody}
    BY DEF ParquetInv, ParquetTyped
<1>3. \A t \in Threads : (IF t = th THEN NotReading.phase ELSE reading[t].phase) = "register"
                          <=> lock' = t
    BY <1>1, NotReadingType DEF ParquetInv, LockOK
<1> QED BY <1>1, <1>2, <1>3, NotReadingType, ReadingStep

(* A file that changes is no longer one that nobody touched.               *)
LEMMA WriteFileKeeps ==
    ASSUME ParquetInv, NEW d \in Others, NEW f \in Files, WriteFile(d, f)
    PROVE  ParquetInv'
<1>1. PICK s \in Schemas \union {Missing, Unreadable} : file' = [file EXCEPT ![d][f] = s]
    BY DEF WriteFile
<1>2. /\ changed' = changed \union {<<d, f>>} /\ changes < MaxFileChanges /\ changes' = changes + 1
      /\ UNCHANGED <<context, lock, reading>>
    BY DEF WriteFile
<1>3. file' \in [Others -> [Files -> Schemas \union {Missing, Unreadable}]]
    BY <1>1 DEF ParquetInv, ParquetTyped
<1>4. \A e \in Others, g \in Files : <<e, g>> \notin changed' =>
         <<e, g>> \notin changed /\ file'[e][g] = file[e][g]
    <2> SUFFICES ASSUME NEW e \in Others, NEW g \in Files, <<e, g>> \notin changed'
                 PROVE  <<e, g>> \notin changed /\ file'[e][g] = file[e][g]
        OBVIOUS
    <2>1. e # d \/ g # f
        BY <1>2
    <2> QED BY <1>1, <1>2, <2>1 DEF ParquetInv, ParquetTyped
<1>5. ParquetTyped'
    BY <1>2, <1>3, SourcesAssumption DEF ParquetInv, ParquetTyped
<1>6. LockOK' /\ OneContextPerDirectory'
    BY <1>2 DEF ParquetInv, LockOK, OneContextPerDirectory
<1>7. RegisterOK'
    <2>1. \A th \in Threads : reading[th].phase = "register" => reading[th].dir \in Others
        BY DEF ParquetInv, ParquetTyped
    <2> QED BY <1>2, <1>4, <2>1 DEF ParquetInv, RegisterOK
<1>8. UntouchedFilesAreTables'
    BY <1>2, <1>4 DEF ParquetInv, UntouchedFilesAreTables
<1> QED BY <1>5, <1>6, <1>7, <1>8 DEF ParquetInv

---------------------------------------------------------------------------
(* Both kinds together *)

SourcesInv == PgInv /\ ParquetInv

LEMMA SourcesInvInit == SourcesInit => SourcesInv
<1> SUFFICES ASSUME SourcesInit PROVE SourcesInv
    OBVIOUS
<1>1. PgInv
    BY PgInit DEF SourcesInit
<1>2. \A th \in Threads : reading[th] = NotReading
    BY DEF SourcesInit
<1>3. ParquetTyped
    <2>1. file \in [Others -> [Files -> Schemas \union {Missing, Unreadable}]]
        BY SourcesAssumption DEF SourcesInit
    <2> QED BY <1>2, <2>1, NotReadingType, SourcesAssumption DEF SourcesInit, ParquetTyped
<1>4. LockOK
    BY <1>2, NotReadingType, SourcesAssumption DEF SourcesInit, LockOK
<1>5. RegisterOK /\ OneContextPerDirectory
    BY <1>2, NotReadingType DEF RegisterOK, OneContextPerDirectory
<1>6. UntouchedFilesAreTables
    BY DEF SourcesInit, UntouchedFilesAreTables
<1> QED BY <1>1, <1>3, <1>4, <1>5, <1>6 DEF SourcesInv, ParquetInv

LEMMA SourcesInvStep == SourcesInv /\ [SourcesNext]_sourcesVars => SourcesInv'
<1> SUFFICES ASSUME SourcesInv, [SourcesNext]_sourcesVars PROVE SourcesInv'
    OBVIOUS
<1>0. PgInv /\ ParquetInv
    BY DEF SourcesInv
<1>1. ASSUME UNCHANGED parquetVars PROVE ParquetInv'
    BY <1>0, <1>1 DEF parquetVars, ParquetInv, ParquetTyped, LockOK, RegisterOK,
                      OneContextPerDirectory, UntouchedFilesAreTables
<1>2. ASSUME [Next]_vars PROVE PgInv'
    BY <1>0, <1>2, PgStep
<1>3. CASE Next /\ UNCHANGED parquetVars
    BY <1>1, <1>2, <1>3 DEF SourcesInv
<1>4. CASE UNCHANGED sourcesVars
    BY <1>1, <1>2, <1>4 DEF SourcesInv, sourcesVars
<1>5. CASE \E th \in Threads, n \in Names : BeginParquet(th, n)
    BY <1>0, <1>5, BeginParquetKeeps DEF SourcesInv
<1>6. CASE ParquetStep /\ UNCHANGED vars
    <2>1. ParquetInv'
        BY <1>0, <1>6, LookUpContextKeeps, InferSchemaKeeps, InsertContextKeeps, RunParquetKeeps,
           WriteFileKeeps DEF ParquetStep
    <2> QED BY <1>2, <1>6, <2>1 DEF SourcesInv
<1> QED BY <1>3, <1>4, <1>5, <1>6 DEF SourcesNext

LEMMA SourcesInvHolds == SourcesSpec => []SourcesInv
BY SourcesInvInit, SourcesInvStep, PTL DEF SourcesSpec

(* The state of both kinds of sources is well typed, a running call's jobs *)
(* are those it waits for, and the lock is held by the one thread that     *)
(* lists a directory (parquet_ctx, connectors.rs).                         *)
THEOREM SourcesTypeCorrect == SourcesSpec => []SourcesTypeOK
<1>1. SourcesInv => SourcesTypeOK
    <2>1. ASSUME SourcesInv, NEW th \in Threads
          PROVE  /\ reading[th].phase \in {"idle", "context", "register", "run"}
                 /\ reading[th].phase = "register" <=> lock = th
        BY <2>1 DEF SourcesInv, ParquetInv, ParquetTyped, ReadingType, LockOK
    <2> QED BY <2>1, PgInvFacts DEF SourcesInv, ParquetInv, ParquetTyped, TableMap, SourcesTypeOK
<1> QED BY <1>1, SourcesInvHolds, PTL

(* A key join reduces by all of its own keys: never by what an earlier     *)
(* call of the connection left, never by half of them                      *)
(* (fetch_temp_join_pg, connectors.rs).                                    *)
THEOREM JoinsUseTheirOwnKeys == SourcesSpec => []JoinUsesItsOwnKeys
<1>1. SourcesInv => JoinUsesItsOwnKeys
    BY PgInvFacts DEF SourcesInv
<1> QED BY <1>1, SourcesInvHolds, PTL

(* What a failed key join leaves never makes a later one fail: the leading *)
(* DROP clears it and a restart clears it too.                             *)
THEOREM LeftoversAreHarmless == SourcesSpec => []LeftoversStopNobody
<1>1. SourcesInv => LeftoversStopNobody
    BY PgInvFacts DEF SourcesInv
<1> QED BY <1>1, SourcesInvHolds, PTL

(* A name that was registered once is read from that server, on every      *)
(* thread and by every worker, whatever else is registered or restarted.   *)
THEOREM StableNamesAreRead == SourcesSpec => []StableNamesReadTheirServer
<1>1. SourcesInv => StableNamesReadTheirServer
    BY PgInvFacts DEF SourcesInv
<1> QED BY <1>1, SourcesInvHolds, PTL

(* All queries that read a directory are planned against the one context   *)
(* that was built for it (parquet_ctx, connectors.rs).                     *)
THEOREM ContextsAreShared == SourcesSpec => []OneContextPerDirectory
<1>1. SourcesInv => OneContextPerDirectory
    BY DEF SourcesInv, ParquetInv
<1> QED BY <1>1, SourcesInvHolds, PTL

(* A file nobody touched is a table of its directory, with its own schema, *)
(* however many fetches failed on other files before.                      *)
THEOREM UntouchedFilesAreFound == SourcesSpec => []UntouchedFilesAreTables
<1>1. SourcesInv => UntouchedFilesAreTables
    BY DEF SourcesInv, ParquetInv
<1> QED BY <1>1, SourcesInvHolds, PTL

=============================================================================
