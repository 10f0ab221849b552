------------------------------ MODULE TableScan ------------------------------
(***************************************************************************)
(* What reading a whole table in parallel promises its caller              *)
(* (src/src/connectors.rs: fetch_parallel), with no ranges, workers or     *)
(* replies.  Other clients write while a scan runs; it returns at one      *)
(* moment or fails, and then                                               *)
(*   - a row that stayed where it was is returned once, or not at all if   *)
(*     it was not there;                                                   *)
(*   - a row that was written meanwhile is returned at most once for each  *)
(*     place it has been in.                                               *)
(* There is no common snapshot, and the promise is as weak as that.        *)
(***************************************************************************)
EXTENDS Naturals, FiniteSets

CONSTANTS
    Scans,
    Rows,
    Pages,  \* where a row of the table can be
    Absent  \* where the others are

VARIABLES
    place,  \* row -> its page, or Absent
    scan,   \* scan -> "new", "running", "done" or "failed"
    places, \* scan -> row -> everywhere it has been since the scan started
    rows    \* scan -> row -> the copies it returned

vars == <<place, scan, places, rows>>

NoCopies == [r \in Rows |-> 0]
Nowhere  == [r \in Rows |-> {}]

(* The number of copies of a row that a scan may return.                   *)
Copies(been) ==
    IF Cardinality(been) = 1 THEN {Cardinality(been \ {Absent})}
    ELSE 0..Cardinality(been \ {Absent})

Start(s) ==
    /\ scan[s] = "new"
    /\ scan' = [scan EXCEPT ![s] = "running"]
    /\ places' = [places EXCEPT ![s] = [r \in Rows |-> {place[r]}]]
    /\ UNCHANGED <<place, rows>>

Return(s) ==
    /\ scan[s] = "running"
    /\ scan' = [scan EXCEPT ![s] = "done"]
    /\ rows' \in [Scans -> [Rows -> 0..(Cardinality(Pages))]]
    /\ \A t \in Scans \ {s} : rows'[t] = rows[t]
    /\ \A r \in Rows : rows'[s][r] \in Copies(places[s][r])
    /\ UNCHANGED <<place, places>>

(* A scan that fails, before it has read anything or while it reads,       *)
(* returns nothing.                                                        *)
Fail(s) ==
    /\ scan[s] \in {"new", "running"}
    /\ scan' = [scan EXCEPT ![s] = "failed"]
    /\ places' = [places EXCEPT ![s] = Nowhere]
    /\ UNCHANGED <<place, rows>>

Write(r) ==
    /\ \E p \in (Pages \union {Absent}) \ {place[r]} : place' = [place EXCEPT ![r] = p]
    /\ places' = [s \in Scans |-> IF scan[s] = "running"
                                  THEN [places[s] EXCEPT ![r] = @ \union {place'[r]}]
                                  ELSE places[s]]
    /\ UNCHANGED <<scan, rows>>

Init ==
    /\ place \in [Rows -> Pages \union {Absent}]
    /\ scan = [s \in Scans |-> "new"]
    /\ places = [s \in Scans |-> Nowhere]
    /\ rows = [s \in Scans |-> NoCopies]

Next ==
    \/ \E s \in Scans : Start(s) \/ Return(s) \/ Fail(s)
    \/ \E r \in Rows : Write(r)

(* Every scan starts and then returns, or fails.                           *)
Spec ==
    /\ Init /\ [][Next]_vars
    /\ \A s \in Scans : WF_vars(Start(s) \/ Return(s) \/ Fail(s))
=============================================================================
