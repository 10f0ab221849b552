------------------------- MODULE DuckSessions_proofs -------------------------
(***************************************************************************)
(* What a thread's pinned connections hold, for any number of threads,     *)
(* databases, table names, queries and ships.  The inductive invariant     *)
(* says that a pinned connection has a table for exactly the names the     *)
(* running query has shipped to its database, each with the last relation  *)
(* shipped under it, and that nothing is pinned where nothing was shipped. *)
(***************************************************************************)
EXTENDS DuckSessions, TLAPS

NumbersShips(th) == ships[th] \in Seq(Databases \X Tables) /\ Len(ships[th]) <= MaxShips

LastShip(th, d, t) == Max(ShipsOf(th, d, t))

(* The last number is that of a ship, and no later ship went there.        *)
IsLast(th, d, t, n) == n \in ShipsOf(th, d, t) /\ \A k \in ShipsOf(th, d, t) : k <= n

Holds(th, d) ==
    LET conn == pinned[th][d]
    IN /\ conn.conn => d \in open
       /\ ~conn.conn => conn = None /\ \A t \in Tables : ShipsOf(th, d, t) = {}
       /\ DOMAIN conn.temp \subseteq Tables
       /\ \A t \in Tables :
             /\ t \in DOMAIN conn.temp <=> ShipsOf(th, d, t) # {}
             /\ t \in DOMAIN conn.temp => \E n \in ShipsOf(th, d, t) :
                   IsLast(th, d, t, n) /\ conn.temp[t] = Relation(query[th], n)

ConnType == [conn : BOOLEAN, temp : UNION {[S -> (0..Queries) \X Nat] : S \in SUBSET Tables}]

SessionInv ==
    /\ open \subseteq Databases
    /\ begun \in 0..Queries /\ query \in [Threads -> 0..begun]
    /\ pinned \in [Threads -> [Databases -> ConnType]]
    /\ DOMAIN ships = Threads /\ DOMAIN saw = Threads
    /\ \A th \in Threads :
          /\ NumbersShips(th)
          /\ query[th] = 0 => ships[th] = <<>> /\ \A d \in Databases : pinned[th][d] = None
          /\ \A d \in Databases : Holds(th, d)

---------------------------------------------------------------------------
(* The largest of a set of numbers that has one.                           *)
LEMMA MaxIs ==
    ASSUME NEW S \in SUBSET Nat, NEW n \in S, \A k \in S : k <= n
    PROVE  Max(S) = n
  <1>1. \E x \in S : \A y \in S : x >= y
    OBVIOUS
  <1>2. Max(S) \in S /\ \A y \in S : Max(S) >= y
    BY <1>1, Zenon DEF Max
  <1>3. \A m \in S : (\A y \in S : m >= y) => m = n
    OBVIOUS
  <1>4. QED
    BY <1>2, <1>3

LEMMA NoneType == None \in ConnType /\ Cursor \in ConnType /\ DOMAIN None.temp = {} /\ DOMAIN Cursor.temp = {}
  <1>1. <<>> \in [{} -> (0..Queries) \X Nat]
    OBVIOUS
  <1>2. QED
    BY <1>1 DEF None, Cursor, ConnType

LEMMA WithTableType ==
    ASSUME NEW conn \in ConnType, NEW t \in Tables, NEW rel \in (0..Queries) \X Nat
    PROVE  /\ WithTable(conn, t, rel) \in ConnType
           /\ WithTable(conn, t, rel).conn = conn.conn
           /\ DOMAIN WithTable(conn, t, rel).temp = DOMAIN conn.temp \union {t}
           /\ WithTable(conn, t, rel).temp[t] = rel
           /\ \A u \in DOMAIN conn.temp : u # t => WithTable(conn, t, rel).temp[u] = conn.temp[u]
  <1> DEFINE temp == [n \in DOMAIN conn.temp \union {t} |-> IF n = t THEN rel ELSE conn.temp[n]]
  <1>1. PICK S \in SUBSET Tables : conn.temp \in [S -> (0..Queries) \X Nat]
    BY DEF ConnType
  <1>2. temp \in [S \union {t} -> (0..Queries) \X Nat]
    BY <1>1
  <1>3. WithTable(conn, t, rel) = [conn EXCEPT !.temp = temp]
    BY DEF WithTable
  <1>4. [conn EXCEPT !.temp = temp] \in ConnType
    <2>1. S \union {t} \in SUBSET Tables
      OBVIOUS
    <2>2. QED
      BY <1>2, <2>1 DEF ConnType
  <1>5. [conn EXCEPT !.temp = temp].temp = temp /\ [conn EXCEPT !.temp = temp].conn = conn.conn
    BY DEF ConnType
  <1>6. QED
    BY <1>1, <1>2, <1>3, <1>4, <1>5

---------------------------------------------------------------------------
(* The steps *)

(* What a thread does leaves every other thread's part as it is.           *)
LEMMA OthersKept ==
    ASSUME SessionInv, NEW th \in Threads, open \subseteq open',
           query'[th] = query[th], ships'[th] = ships[th], pinned'[th] = pinned[th]
    PROVE  /\ NumbersShips(th)'
           /\ query'[th] = 0 => ships'[th] = <<>> /\ \A d \in Databases : pinned'[th][d] = None
           /\ \A d \in Databases : Holds(th, d)'
  <1>1. \A d, t : ShipsOf(th, d, t)' = ShipsOf(th, d, t)
    BY DEF ShipsOf
  <1>2. \A d, t, n : IsLast(th, d, t, n)' <=> IsLast(th, d, t, n)
    BY <1>1 DEF IsLast
  <1>3. \A d \in Databases : Holds(th, d)'
    BY <1>1, <1>2 DEF SessionInv, Holds
  <1>4. QED
    BY <1>3 DEF SessionInv, NumbersShips

(* A thread with no query has shipped nothing and pinned nothing.          *)
LEMMA ClearedHolds ==
    ASSUME NEW th \in Threads, ships'[th] = <<>>, \A d \in Databases : pinned'[th][d] = None
    PROVE  NumbersShips(th)' /\ \A d \in Databases : Holds(th, d)'
  <1>1. \A d, t : ShipsOf(th, d, t)' = {}
    BY DEF ShipsOf
  <1>2. NumbersShips(th)'
    BY DuckAssumption DEF NumbersShips
  <1>3. QED
    BY <1>1, <1>2, NoneType DEF Holds, None

LEMMA LeaveInv ==
    ASSUME SessionInv, NEW th \in Threads, Leave(th),
           open \subseteq open', open' \subseteq Databases, DOMAIN saw' = Threads
    PROVE  SessionInv' /\ query'[th] = 0
  <1>1. /\ query' = [query EXCEPT ![th] = 0] /\ ships' = [ships EXCEPT ![th] = <<>>]
        /\ pinned' = [pinned EXCEPT ![th] = [d \in Databases |-> None]] /\ begun' = begun
    BY DEF Leave, Cleared
  <1>2. /\ query' \in [Threads -> 0..begun'] /\ begun' \in 0..Queries
        /\ pinned' \in [Threads -> [Databases -> ConnType]] /\ DOMAIN ships' = Threads
        /\ query'[th] = 0 /\ ships'[th] = <<>> /\ \A d \in Databases : pinned'[th][d] = None
    BY <1>1, NoneType DEF SessionInv
  <1>3. NumbersShips(th)' /\ \A d \in Databases : Holds(th, d)'
    BY <1>2, ClearedHolds
  <1>4. ASSUME NEW o \in Threads, o # th
        PROVE  /\ NumbersShips(o)'
               /\ query'[o] = 0 => ships'[o] = <<>> /\ \A d \in Databases : pinned'[o][d] = None
               /\ \A d \in Databases : Holds(o, d)'
    <2>1. query'[o] = query[o] /\ ships'[o] = ships[o] /\ pinned'[o] = pinned[o]
      BY <1>1, <1>4 DEF SessionInv
    <2>2. QED
      BY <2>1, OthersKept
  <1>5. QED
    BY <1>2, <1>3, <1>4 DEF SessionInv

LEMMA BeginInv ==
    ASSUME SessionInv, NEW th \in Threads, Begin(th)
    PROVE  SessionInv'
  <1>1. /\ begun' = begun + 1 /\ begun < Queries /\ query' = [query EXCEPT ![th] = begun + 1]
        /\ ships' = [ships EXCEPT ![th] = <<>>] /\ open' = open
        /\ pinned' = [pinned EXCEPT ![th] = [d \in Databases |-> None]]
        /\ saw' = [saw EXCEPT ![th] = NotRead]
    BY DEF Begin, Cleared
  <1>2. /\ query' \in [Threads -> 0..begun'] /\ begun' \in 0..Queries
        /\ pinned' \in [Threads -> [Databases -> ConnType]]
        /\ DOMAIN ships' = Threads /\ DOMAIN saw' = Threads
        /\ query'[th] # 0 /\ ships'[th] = <<>> /\ \A d \in Databases : pinned'[th][d] = None
    BY <1>1, NoneType, DuckAssumption DEF SessionInv
  <1>3. NumbersShips(th)' /\ \A d \in Databases : Holds(th, d)'
    BY <1>2, ClearedHolds
  <1>4. ASSUME NEW o \in Threads, o # th
        PROVE  /\ NumbersShips(o)'
               /\ query'[o] = 0 => ships'[o] = <<>> /\ \A d \in Databases : pinned'[o][d] = None
               /\ \A d \in Databases : Holds(o, d)'
    <2>1. query'[o] = query[o] /\ ships'[o] = ships[o] /\ pinned'[o] = pinned[o]
      BY <1>1, <1>4 DEF SessionInv
    <2>2. QED
      BY <1>1, <2>1, OthersKept
  <1>5. QED
    BY <1>1, <1>2, <1>3, <1>4 DEF SessionInv

(* What a ship adds to the numbers of its name, and to no other's.         *)
LEMMA ShipNumbers ==
    ASSUME NEW th \in Threads, NumbersShips(th), NEW d \in Databases, NEW t \in Tables,
           Len(ships[th]) < MaxShips, ships'[th] = Append(ships[th], <<d, t>>)
    PROVE  /\ NumbersShips(th)'
           /\ \A e \in Databases, u \in Tables : ShipsOf(th, e, u) \subseteq 1..Len(ships[th])
           /\ \A e \in Databases, u \in Tables : <<e, u>> # <<d, t>> =>
                 ShipsOf(th, e, u)' = ShipsOf(th, e, u)
           /\ ShipsOf(th, d, t)' = ShipsOf(th, d, t) \union {Len(ships[th]) + 1}
  <1>1. /\ ships[th] \in Seq(Databases \X Tables) /\ <<d, t>> \in Databases \X Tables
        /\ Len(ships[th]) \in Nat /\ DOMAIN ships[th] = 1..Len(ships[th])
    BY DEF NumbersShips
  <1>2. /\ ships'[th] \in Seq(Databases \X Tables)
        /\ Len(ships'[th]) = Len(ships[th]) + 1
        /\ DOMAIN ships'[th] = 1..(Len(ships[th]) + 1)
        /\ \A n \in 1..Len(ships[th]) : ships'[th][n] = ships[th][n]
        /\ ships'[th][Len(ships[th]) + 1] = <<d, t>>
    BY <1>1
  <1>3. NumbersShips(th)'
    BY <1>1, <1>2, DuckAssumption DEF NumbersShips
  <1>4. QED
    BY <1>1, <1>2, <1>3 DEF ShipsOf

LEMMA ShipInv ==
    ASSUME SessionInv, NEW th \in Threads, NEW d \in Databases, NEW t \in Tables, Ship(th, d, t)
    PROVE  SessionInv'
  <1>0. PICK n : n = Len(ships[th]) + 1
    OBVIOUS
  <1> DEFINE rel == Relation(query[th], n)
             conn == IF PinnedOn(th, d).conn THEN PinnedOn(th, d) ELSE Cursor
             new == WithTable(conn, t, rel)
  <1>1. /\ query[th] # 0 /\ Len(ships[th]) < MaxShips
        /\ open' = open \union {d}
        /\ pinned' = [pinned EXCEPT ![th][d] = new]
        /\ ships' = [ships EXCEPT ![th] = Append(@, <<d, t>>)]
        /\ UNCHANGED <<query, begun, saw>>
    BY <1>0 DEF Ship, OpenCursor
  <1>2. /\ NumbersShips(th) /\ Holds(th, d) /\ Len(ships[th]) \in Nat
        /\ query[th] \in 0..Queries /\ pinned[th][d] \in ConnType
    <2>1. query[th] \in 0..begun /\ begun \in 0..Queries
      BY DEF SessionInv
    <2>2. QED
      BY <2>1, DuckAssumption DEF SessionInv, NumbersShips
  <1>3. rel \in (0..Queries) \X Nat
    BY <1>0, <1>2 DEF Relation
  <1>4. /\ conn \in ConnType
        /\ DOMAIN conn.temp = DOMAIN pinned[th][d].temp
        /\ conn.conn
        /\ \A u \in DOMAIN conn.temp : conn.temp[u] = pinned[th][d].temp[u]
    <2>1. CASE pinned[th][d].conn
      BY <1>2, <2>1 DEF PinnedOn
    <2>2. CASE ~pinned[th][d].conn
      <3>1. pinned[th][d] = None /\ conn = Cursor
        BY <1>2, <2>2 DEF Holds, PinnedOn
      <3>2. QED
        BY <3>1, NoneType DEF Cursor, None
    <2>3. QED
      BY <2>1, <2>2
  <1>5. /\ new \in ConnType /\ new.conn
        /\ DOMAIN new.temp = DOMAIN pinned[th][d].temp \union {t}
        /\ new.temp[t] = rel
        /\ \A u \in DOMAIN pinned[th][d].temp : u # t => new.temp[u] = pinned[th][d].temp[u]
    BY <1>3, <1>4, WithTableType
  <1> HIDE DEF new, conn, rel
  <1>6. /\ pinned' \in [Threads -> [Databases -> ConnType]]
        /\ pinned'[th][d] = new
        /\ \A e \in Databases : e # d => pinned'[th][e] = pinned[th][e]
        /\ \A o \in Threads : o # th => pinned'[o] = pinned[o] /\ ships'[o] = ships[o]
        /\ ships'[th] = Append(ships[th], <<d, t>>) /\ DOMAIN ships' = Threads
    BY <1>1, <1>5 DEF SessionInv
  <1>7. /\ NumbersShips(th)'
        /\ \A e \in Databases, u \in Tables : ShipsOf(th, e, u) \subseteq 1..Len(ships[th])
        /\ \A e \in Databases, u \in Tables : <<e, u>> # <<d, t>> =>
              ShipsOf(th, e, u)' = ShipsOf(th, e, u)
        /\ ShipsOf(th, d, t)' = ShipsOf(th, d, t) \union {n}
    <2>1. NumbersShips(th) /\ Len(ships[th]) < MaxShips /\ ships'[th] = Append(ships[th], <<d, t>>)
      BY <1>1, <1>2, <1>6
    <2>2. QED
      BY <1>0, <2>1, ShipNumbers
  <1>8. IsLast(th, d, t, n)'
    BY <1>0, <1>2, <1>7 DEF IsLast
  <1>9. \A e \in Databases, u \in Tables : <<e, u>> # <<d, t>> =>
            \A k : IsLast(th, e, u, k)' <=> IsLast(th, e, u, k)
    BY <1>7 DEF IsLast
  <1>10. ASSUME NEW u \in Tables
        PROVE  /\ u \in DOMAIN new.temp <=> ShipsOf(th, d, u)' # {}
               /\ u \in DOMAIN new.temp => \E k \in ShipsOf(th, d, u)' :
                     IsLast(th, d, u, k)' /\ new.temp[u] = Relation(query'[th], k)
    <2>1. CASE u = t
      <3>1. n \in ShipsOf(th, d, u)' /\ IsLast(th, d, u, n)' /\ u \in DOMAIN new.temp
        BY <1>5, <1>7, <1>8, <2>1
      <3>2. new.temp[u] = Relation(query'[th], n)
        BY <1>1, <1>5, <2>1 DEF rel
      <3>3. QED
        BY <3>1, <3>2
    <2>2. CASE u # t
      <3>1. /\ u \in DOMAIN new.temp <=> u \in DOMAIN pinned[th][d].temp
            /\ u \in DOMAIN new.temp => new.temp[u] = pinned[th][d].temp[u]
            /\ ShipsOf(th, d, u)' = ShipsOf(th, d, u)
            /\ \A k : IsLast(th, d, u, k)' <=> IsLast(th, d, u, k)
        BY <1>5, <1>7, <1>9, <2>2
      <3>2. query'[th] = query[th]
        BY <1>1
      <3>3. QED
        BY <1>2, <3>1, <3>2 DEF Holds
    <2>3. QED
      BY <2>1, <2>2
  <1>11. Holds(th, d)'
    <2>1. d \in open' /\ DOMAIN new.temp \subseteq Tables
      BY <1>1, <1>2, <1>5 DEF Holds
    <2>2. QED
      BY <1>5, <1>6, <1>10, <2>1 DEF Holds
  <1>12. ASSUME NEW e \in Databases, e # d
         PROVE  Holds(th, e)'
    <2>1. Holds(th, e) /\ pinned'[th][e] = pinned[th][e] /\ query'[th] = query[th] /\ open \subseteq open'
      BY <1>1, <1>6, <1>12 DEF SessionInv
    <2>2. \A u \in Tables : /\ ShipsOf(th, e, u)' = ShipsOf(th, e, u)
                             /\ \A k : IsLast(th, e, u, k)' <=> IsLast(th, e, u, k)
      BY <1>7, <1>9, <1>12
    <2>3. QED
      BY <2>1, <2>2 DEF Holds
  <1>13. ASSUME NEW o \in Threads, o # th
         PROVE  /\ NumbersShips(o)'
                /\ query'[o] = 0 => ships'[o] = <<>> /\ \A e \in Databases : pinned'[o][e] = None
                /\ \A e \in Databases : Holds(o, e)'
    BY <1>1, <1>6, <1>13, OthersKept
  <1>14. open' \subseteq Databases /\ begun' \in 0..Queries /\ query' \in [Threads -> 0..begun']
         /\ DOMAIN saw' = Threads /\ query'[th] # 0
    BY <1>1 DEF SessionInv
  <1>15. QED
    BY <1>6, <1>7, <1>11, <1>12, <1>13, <1>14 DEF SessionInv

(* Opening a database and reading from it changes nothing that is pinned.  *)
LEMMA OpenInv ==
    ASSUME SessionInv, NEW d \in Databases, open' = open \union {d}, DOMAIN saw' = Threads,
           UNCHANGED <<query, begun, pinned, ships>>
    PROVE  SessionInv'
  <1>1. \A o \in Threads :
            /\ NumbersShips(o)'
            /\ query'[o] = 0 => ships'[o] = <<>> /\ \A e \in Databases : pinned'[o][e] = None
            /\ \A e \in Databases : Holds(o, e)'
    BY OthersKept
  <1>2. QED
    BY <1>1 DEF SessionInv

LEMMA InitInv == Init => SessionInv
  BY NoneType, DuckAssumption DEF Init, SessionInv, NumbersShips, Holds, ShipsOf, None

---------------------------------------------------------------------------
(* Reads *)

(* What a plain read finds on the pinned connection.                       *)
LEMMA ReadsLast ==
    ASSUME SessionInv, NEW th \in Threads, NEW d \in Databases, NEW t \in Tables,
           ShipsOf(th, d, t) # {}
    PROVE  Lookup(ReadsOn(th, d), t) = Relation(query[th], LastShip(th, d, t))
  <1>1. Holds(th, d) /\ NumbersShips(th)
    BY DEF SessionInv
  <1>2. pinned[th][d].conn /\ t \in DOMAIN pinned[th][d].temp
    BY <1>1 DEF Holds
  <1>3. PICK n \in ShipsOf(th, d, t) :
            IsLast(th, d, t, n) /\ pinned[th][d].temp[t] = Relation(query[th], n)
    BY <1>1, <1>2 DEF Holds
  <1>4. LastShip(th, d, t) = n
    <2>1. ShipsOf(th, d, t) \in SUBSET Nat
      BY <1>1 DEF NumbersShips, ShipsOf
    <2>2. QED
      BY <1>3, <2>1, MaxIs DEF LastShip, IsLast
  <1>5. QED
    BY <1>2, <1>3, <1>4 DEF ReadsOn, PinnedOn, Lookup

LEMMA FetchStep ==
    ASSUME SessionInv, NEW th \in Threads, NEW d \in Databases, NEW t \in Tables, Fetch(th, d, t)
    PROVE  SessionInv' /\ (FetchMeetsLastShipment => FetchMeetsLastShipment')
  <1>1. /\ ShipsOf(th, d, t) # {} /\ query[th] # 0
        /\ open' = open \union {d}
        /\ Met(th, "fetch", d, t, Relation(query[th], LastShip(th, d, t)))
    BY ReadsLast DEF Fetch, OpenCursor
  <1>2. Relation(query[th], LastShip(th, d, t)) # Missing
    BY <1>1 DEF Relation, Missing
  <1>3. /\ saw' = [saw EXCEPT ![th] =
              [path |-> "fetch", shipped |-> Relation(query[th], LastShip(th, d, t)),
               met |-> Relation(query[th], LastShip(th, d, t))]]
        /\ UNCHANGED <<query, begun, pinned, ships>>
    BY <1>1, <1>2 DEF Met, LastShip
  <1>4. DOMAIN saw' = Threads
    BY <1>3 DEF SessionInv
  <1>5. SessionInv'
    BY <1>1, <1>3, <1>4, OpenInv
  <1>6. saw'[th].met = saw'[th].shipped /\ \A o \in Threads : o # th => saw'[o] = saw[o]
    BY <1>3 DEF SessionInv
  <1>7. QED
    BY <1>5, <1>6 DEF FetchMeetsLastShipment

LEMMA TempJoinStep ==
    ASSUME SessionInv, NEW th \in Threads, NEW d \in Databases, NEW t \in Tables, TempJoin(th, d, t)
    PROVE  SessionInv' /\ (FetchMeetsLastShipment => FetchMeetsLastShipment')
  <1> DEFINE s == [path |-> "temp_join", shipped |-> Relation(query[th], LastShip(th, d, t)),
                   met |-> Lookup(Cursor, t)]
  <1>1. /\ open' = open \union {d} /\ saw' = [saw EXCEPT ![th] = s]
        /\ Leave(th) \/ UNCHANGED <<query, begun, pinned, ships>>
    BY DEF TempJoin, OpenCursor, Met, LastShip
  <1>2. DOMAIN saw' = Threads /\ open' \subseteq Databases
    BY <1>1 DEF SessionInv
  <1>3. SessionInv'
    BY <1>1, <1>2, OpenInv, LeaveInv
  <1>4. saw'[th].path # "fetch" /\ \A o \in Threads : o # th => saw'[o] = saw[o]
    BY <1>1 DEF SessionInv
  <1>5. QED
    BY <1>3, <1>4 DEF FetchMeetsLastShipment

---------------------------------------------------------------------------
(* The theorems *)

Inv == SessionInv /\ FetchMeetsLastShipment

LEMMA InvStep == Inv /\ [Next]_vars => Inv'
  <1>1. SUFFICES ASSUME Inv, [Next]_vars PROVE Inv'
    OBVIOUS
  <1>2. CASE UNCHANGED vars
    <2>1. \A th \in Threads :
              /\ NumbersShips(th)'
              /\ query'[th] = 0 => ships'[th] = <<>> /\ \A d \in Databases : pinned'[th][d] = None
              /\ \A d \in Databases : Holds(th, d)'
      BY <1>1, <1>2, OthersKept DEF Inv, vars
    <2>2. QED
      BY <1>1, <1>2, <2>1 DEF Inv, vars, SessionInv, FetchMeetsLastShipment
  <1>3. ASSUME NEW th \in Threads, Begin(th) PROVE Inv'
    <2>1. SessionInv'
      BY <1>1, <1>3, BeginInv DEF Inv
    <2>2. FetchMeetsLastShipment'
      BY <1>1, <1>3 DEF Begin, NotRead, Inv, SessionInv, FetchMeetsLastShipment
    <2>3. QED
      BY <2>1, <2>2 DEF Inv
  <1>4. ASSUME NEW th \in Threads, End(th) PROVE Inv'
    BY <1>1, <1>4, LeaveInv DEF End, Inv, SessionInv, FetchMeetsLastShipment
  <1>5. ASSUME NEW th \in Threads, NEW d \in Databases, NEW t \in Tables, Ship(th, d, t)
        PROVE  Inv'
    BY <1>1, <1>5, ShipInv DEF Ship, Inv, FetchMeetsLastShipment
  <1>6. ASSUME NEW th \in Threads, NEW d \in Databases, NEW t \in Tables, ShipFails(th, d, t)
        PROVE  Inv'
    <2>1. /\ Leave(th) /\ saw' = saw /\ open \subseteq open' /\ open' \subseteq Databases
          /\ DOMAIN saw' = Threads
      BY <1>1, <1>6 DEF ShipFails, OpenFails, OpenCursor, Inv, SessionInv
    <2>2. QED
      BY <1>1, <2>1, LeaveInv DEF Inv, FetchMeetsLastShipment
  <1>7. ASSUME NEW th \in Threads, NEW d \in Databases, NEW t \in Tables, Fetch(th, d, t)
        PROVE  Inv'
    BY <1>1, <1>7, FetchStep DEF Inv
  <1>8. ASSUME NEW th \in Threads, NEW d \in Databases, NEW t \in Tables, TempJoin(th, d, t)
        PROVE  Inv'
    BY <1>1, <1>8, TempJoinStep DEF Inv
  <1>9. QED
    BY <1>1, <1>2, <1>3, <1>4, <1>5, <1>6, <1>7, <1>8 DEF Next

LEMMA InvHolds == Spec => []Inv
  <1>1. Init => Inv
    BY InitInv DEF Init, Inv, FetchMeetsLastShipment, NotRead
  <1>2. QED
    BY <1>1, InvStep, PTL DEF Spec

(* Every state is well typed, and what is pinned is open.                  *)
THEOREM SessionsTypeCorrect == Spec => []TypeOK
  <1>1. Inv => TypeOK
    <2>1. SUFFICES ASSUME Inv PROVE TypeOK
      OBVIOUS
    <2>2. query \in [Threads -> 0..Queries] /\ begun \in 0..Queries
      BY <2>1, DuckAssumption DEF Inv, SessionInv
    <2>3. ASSUME NEW th \in Threads, NEW d \in Databases
          PROVE  pinned[th][d] \in Connections /\ (pinned[th][d].conn => d \in open)
      <3> DEFINE temp == pinned[th][d].temp
      <3>1. /\ pinned[th][d] \in ConnType /\ Holds(th, d) /\ NumbersShips(th)
            /\ query[th] = 0 => pinned[th][d] = None
        BY <2>1 DEF Inv, SessionInv
      <3>2. PICK S \in SUBSET Tables : temp \in [S -> (0..Queries) \X Nat]
        BY <3>1 DEF ConnType
      <3>3. ASSUME NEW t \in S PROVE temp[t] \in (1..Queries) \X (1..MaxShips)
        <4>1. query[th] # 0
          BY <3>1, <3>2, <3>3, NoneType
        <4>2. PICK n \in ShipsOf(th, d, t) : temp[t] = Relation(query[th], n)
          BY <3>1, <3>2 DEF Holds
        <4>3. n \in 1..MaxShips
          BY <3>1, DuckAssumption DEF NumbersShips, ShipsOf
        <4>4. query[th] \in 1..Queries
          BY <2>2, <4>1
        <4>5. QED
          BY <4>2, <4>3, <4>4 DEF Relation
      <3>4. temp \in [S -> (1..Queries) \X (1..MaxShips)]
        BY <3>2, <3>3
      <3>5. QED
        BY <3>1, <3>4 DEF Connections, ConnType, Holds
    <2>4. QED
      BY <2>1, <2>2, <2>3 DEF Inv, SessionInv, NumbersShips, TypeOK
  <1>2. QED
    BY <1>1, InvHolds, PTL

(* A read of a shipped table on the plain path meets what its own query    *)
(* shipped there last, whatever the other threads and the queries before   *)
(* it shipped, failed or left behind.                                      *)
THEOREM FetchMeetsItsShipment == Spec => []FetchMeetsLastShipment
  <1>1. Inv => FetchMeetsLastShipment
    BY DEF Inv
  <1>2. QED
    BY <1>1, InvHolds, PTL

(* Nothing stays pinned after its query, and a running query holds only    *)
(* its own tables.                                                         *)
THEOREM PinsEnd == Spec => []PinsEndWithTheirQuery
  <1>1. Inv => PinsEndWithTheirQuery
    <2>1. SUFFICES ASSUME Inv, NEW th \in Threads, NEW d \in Databases
                   PROVE  /\ query[th] = 0 => ~pinned[th][d].conn
                          /\ \A t \in DOMAIN pinned[th][d].temp : pinned[th][d].temp[t][1] = query[th]
      BY DEF PinsEndWithTheirQuery
    <2>2. Holds(th, d) /\ (query[th] = 0 => pinned[th][d] = None)
      BY <2>1 DEF Inv, SessionInv
    <2>3. query[th] = 0 => ~pinned[th][d].conn
      BY <2>2 DEF None
    <2>4. \A t \in DOMAIN pinned[th][d].temp : pinned[th][d].temp[t][1] = query[th]
      BY <2>2 DEF Holds, Relation
    <2>5. QED
      BY <2>3, <2>4
  <1>2. QED
    BY <1>1, InvHolds, PTL

=============================================================================
