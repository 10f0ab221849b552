---------------------------- MODULE DuckSessions ----------------------------
(***************************************************************************)
(* The DuckDB connections of the engine (src/src/connectors.rs:            *)
(* duck_cursor, ship_table, fetch_duckdb, fetch_temp_join_duckdb;          *)
(* src/src/engine.rs: ShipmentGuard).  A process opens each database file  *)
(* once and hands out cursors on it.  A ship step creates a temp table on  *)
(* a cursor PINNED to the thread for the rest of its query, since a temp   *)
(* table is seen only on the connection that made it.                      *)
(*                                                                         *)
(* Threads run one query after another, at the same time as one another,   *)
(* over the same databases and with the same table names.                  *)
(***************************************************************************)
EXTENDS Integers, Sequences, FiniteSetsExt

CONSTANTS
    Threads,    \* query-driving threads
    Databases,  \* DuckDB file paths
    Tables,     \* names the plans give to shipped tables
    Queries,    \* bound: queries begun in the process
    MaxShips    \* bound: ships of a query

ASSUME DuckAssumption == Queries \in Nat /\ MaxShips \in Nat

VARIABLES
    open,     \* the databases the process has open
    query,    \* thread -> the query it runs, or 0
    begun,    \* queries begun so far: their identities
    pinned,   \* thread -> database -> its pinned connection, or None
    ships,    \* history: thread -> where its query has shipped relations
    saw       \* thread -> what its last read of a shipped table met

vars == <<open, query, begun, pinned, ships, saw>>

(* A connection is known by its temp tables: name -> the relation in it.   *)
(* A relation is named by the query that shipped it and its number there.  *)
None == [conn |-> FALSE, temp |-> <<>>]
Cursor == [conn |-> TRUE, temp |-> <<>>]
Relation(q, n) == <<q, n>>
Missing == <<0, 0>>

(* DROP TABLE IF EXISTS, CREATE TEMP TABLE and the appender.               *)
WithTable(conn, t, rel) ==
    [conn EXCEPT !.temp = [n \in DOMAIN conn.temp \union {t} |->
                               IF n = t THEN rel ELSE conn.temp[n]]]
Lookup(conn, t) == IF t \in DOMAIN conn.temp THEN conn.temp[t] ELSE Missing

NotRead == [path |-> "none", shipped |-> Missing, met |-> Missing]

---------------------------------------------------------------------------
(* clear_shipments drops every pinned connection of the thread.            *)
Cleared(th) == [pinned EXCEPT ![th] = [d \in Databases |-> None]]

Begin(th) ==
    /\ query[th] = 0 /\ begun < Queries
    /\ begun' = begun + 1
    /\ query' = [query EXCEPT ![th] = begun + 1]
    /\ pinned' = Cleared(th)
    /\ ships' = [ships EXCEPT ![th] = <<>>]
    /\ saw' = [saw EXCEPT ![th] = NotRead]
    /\ UNCHANGED open

\* MUTANT of Leave: pinned connections outlive the query.
LeaveWithoutGuard(th) ==
    /\ query' = [query EXCEPT ![th] = 0]
    /\ ships' = [ships EXCEPT ![th] = <<>>]
    /\ UNCHANGED <<begun, pinned>>
(* The guard clears them however execute is left.                          *)
Leave(th) ==
    /\ query' = [query EXCEPT ![th] = 0]
    /\ ships' = [ships EXCEPT ![th] = <<>>]
    /\ pinned' = Cleared(th)
    /\ UNCHANGED begun

(* A query ends by returning or by the failure of a step outside DuckDB.   *)
End(th) == query[th] # 0 /\ Leave(th) /\ UNCHANGED <<open, saw>>

---------------------------------------------------------------------------
(* duck_cursor: a new connection on the database, opened when first used   *)
(* and kept open for the process.                                          *)
\* MUTANT of OpenCursor: the database is not kept open.
OpenCursorUncached(d) == open' = open
OpenCursor(d) == open' = open \union {d}
OpenFails(th, d) == d \notin open /\ Leave(th) /\ UNCHANGED <<open, saw>>

\* MUTANT of PinnedOn: whichever thread pinned the database.
PinnedByAny(th, d) ==
    IF \E o \in Threads : pinned[o][d].conn
    THEN pinned[CHOOSE o \in Threads : pinned[o][d].conn][d] ELSE None
PinnedOn(th, d) == pinned[th][d]

(* ship_table: pin a connection unless one is pinned, replace the table,   *)
(* append the relation.  An ingest that fails leaves the table behind on   *)
(* the pinned connection, and fails the query.                             *)
Ship(th, d, t) ==
    LET rel == Relation(query[th], Len(ships[th]) + 1)
        conn == IF PinnedOn(th, d).conn THEN PinnedOn(th, d) ELSE Cursor
    IN /\ query[th] # 0 /\ Len(ships[th]) < MaxShips
       /\ OpenCursor(d)
       /\ pinned' = [pinned EXCEPT ![th][d] = WithTable(conn, t, rel)]
       /\ ships' = [ships EXCEPT ![th] = Append(@, <<d, t>>)]
       /\ UNCHANGED <<query, begun, saw>>

ShipFails(th, d, t) ==
    /\ query[th] # 0
    /\ \/ OpenFails(th, d)
       \/ OpenCursor(d) /\ Leave(th) /\ UNCHANGED saw

(* fetch_duckdb: on the pinned connection if there is one, else on a       *)
(* cursor of its own that is dropped with the call.                        *)
ReadsOn(th, d) == IF PinnedOn(th, d).conn THEN PinnedOn(th, d) ELSE Cursor

(* A read of a table that the plan shipped; met Missing, it fails.         *)
ShipsOf(th, d, t) == {n \in DOMAIN ships[th] : ships[th][n] = <<d, t>>}
Met(th, path, d, t, rel) ==
    /\ saw' = [saw EXCEPT ![th] =
           [path |-> path, shipped |-> Relation(query[th], Max(ShipsOf(th, d, t))), met |-> rel]]
    /\ IF rel = Missing THEN Leave(th) ELSE UNCHANGED <<query, begun, pinned, ships>>

Fetch(th, d, t) ==
    /\ query[th] # 0 /\ ShipsOf(th, d, t) # {}
    /\ OpenCursor(d)
    /\ Met(th, "fetch", d, t, Lookup(ReadsOn(th, d), t))

(* fetch_temp_join_duckdb: the keys and the join share a cursor of the     *)
(* call, whatever is pinned.                                               *)
TempJoin(th, d, t) ==
    /\ query[th] # 0 /\ ShipsOf(th, d, t) # {}
    /\ OpenCursor(d)
    /\ Met(th, "temp_join", d, t, Lookup(Cursor, t))

---------------------------------------------------------------------------

Init ==
    /\ open = {} /\ begun = 0
    /\ query = [th \in Threads |-> 0]
    /\ pinned = [th \in Threads |-> [d \in Databases |-> None]]
    /\ ships = [th \in Threads |-> <<>>]
    /\ saw = [th \in Threads |-> NotRead]

Next ==
    \E th \in Threads :
        \/ Begin(th)
        \/ End(th)
        \/ \E d \in Databases, t \in Tables :
              \/ Ship(th, d, t)
              \/ ShipFails(th, d, t)
              \/ Fetch(th, d, t)
              \/ TempJoin(th, d, t)

Spec == Init /\ [][Next]_vars

---------------------------------------------------------------------------
(* Properties *)

Connections == [conn : BOOLEAN, temp : UNION {[S -> (1..Queries) \X (1..MaxShips)] : S \in SUBSET Tables}]

(* The state is well typed; a pinned database is open.                     *)
TypeOK ==
    /\ open \subseteq Databases
    /\ query \in [Threads -> 0..Queries] /\ begun \in 0..Queries
    /\ \A th \in Threads, d \in Databases :
          pinned[th][d] \in Connections /\ (pinned[th][d].conn => d \in open)
    /\ \A th \in Threads : Len(ships[th]) <= MaxShips

(* A plain read of a shipped table meets the relation its own query        *)
(* shipped there last: never an earlier one, never that of another query,  *)
(* before it on this thread or beside it on another.                       *)
FetchMeetsLastShipment ==
    \A th \in Threads : saw[th].path = "fetch" => saw[th].met = saw[th].shipped

(* Shipped tables are strictly per-query: a thread that runs no query pins *)
(* nothing, however its last one ended, and a running one holds only what  *)
(* it shipped itself.                                                      *)
PinsEndWithTheirQuery ==
    \A th \in Threads, d \in Databases :
        LET temp == pinned[th][d].temp
        IN /\ query[th] = 0 => ~pinned[th][d].conn
           /\ \A t \in DOMAIN temp : temp[t][1] = query[th]

(* "temp objects are per-connection, so every later fetch against that     *)
(* database must run on the SAME connection to see the shipped relation"   *)
(* (connectors.rs:73): no read of a shipped table finds it missing.        *)
ShippedTableIsSeen ==
    \A th \in Threads : saw[th].path # "none" => saw[th].met # Missing

=============================================================================
