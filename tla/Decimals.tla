------------------------------ MODULE Decimals ------------------------------
(***************************************************************************)
(* How a Postgres NUMERIC column becomes Decimal128 (src/src/connectors.rs: *)
(* normalize_numeric, rebuild_decimals, reconcile_executed).  Every fetch   *)
(* derives the scale of the column from the values it read; a parallel scan *)
(* concatenates fetches that derived different scales, and reconciles them. *)
(*                                                                         *)
(* One column is modelled.  A value is what its conversion depends on: the *)
(* digits before and after its decimal point.  A batch is the set of its   *)
(* values that are not NULL.                                               *)
(***************************************************************************)
EXTENDS Integers, Sequences, FiniteSets, FiniteSetsExt

CONSTANTS
    Values,     \* the values in the table, [whole, frac]
    Precision,  \* DECIMAL_PRECISION
    MaxScale,   \* the scale max_fractional_digits stops at
    Fetches,    \* partitions of a scan
    MaxBatches  \* bound: batches of a fetch

ASSUME DecimalsAssumption ==
    /\ Values \subseteq [whole : Nat, frac : Nat]
    /\ Precision \in Nat /\ MaxScale \in 0..Precision
    /\ Fetches \in Nat /\ MaxBatches \in Nat

VARIABLES
    raw,      \* what the server sent: fetch -> batches of values
    fetched,  \* what run_query returned for each
    result    \* what the scan returned: none yet, or one schema and the batches

vars == <<raw, fetched, result>>

(* A converted column of a batch: its scale, and for each value of the     *)
(* table rows whether the cell still holds it "exact", "rounded" or "null". *)
Column(scale, cells) == [scale |-> scale, cells |-> cells]
NotYet == [scale |-> 0, batches |-> <<>>, ended |-> FALSE]
Table(scale, batches) == [scale |-> scale, batches |-> batches, ended |-> TRUE]

---------------------------------------------------------------------------
(* The conversion of a string to Decimal128(Precision, scale).  arrow's    *)
(* cast is the safe one: what does not fit becomes NULL and nothing fails. *)
Cast(v, scale) ==
    IF v.whole + scale > Precision THEN "null"
    ELSE IF v.frac > scale THEN "rounded"
    ELSE "exact"

(* A cell that lost its value stays lost.                                  *)
Recast(v, cell, scale) == IF cell = "exact" THEN Cast(v, scale)
                          ELSE IF Cast(v, scale) = "null" THEN "null" ELSE cell

WidestOf(digits) == Max(digits \union {0})

---------------------------------------------------------------------------
(* normalize_numeric: the strings of one fetch, cast to one scale.         *)
\* MUTANT of StringDigits: the scale is not capped.
StringDigitsUncapped(batch) == {v.frac : v \in batch}
StringDigits(batch) == {IF v.frac < MaxScale THEN v.frac ELSE MaxScale : v \in batch}
\* MUTANT of Normalized: the first batch decides the scale.
NormalizedByFirst(batches) ==
    LET scale == IF batches = <<>> THEN 0 ELSE WidestOf(StringDigits(batches[1]))
    IN Table(scale, [b \in DOMAIN batches |->
                        Column(scale, [v \in batches[b] |-> Cast(v, scale)])])
Normalized(batches) ==
    LET scale == WidestOf(UNION {StringDigits(batches[b]) : b \in DOMAIN batches})
    IN Table(scale, [b \in DOMAIN batches |->
                        Column(scale, [v \in batches[b] |-> Cast(v, scale)])])

(* A decimal renders with all the digits of its scale.                     *)
RenderedDigits(column) ==
    IF \E v \in DOMAIN column.cells : column.cells[v] # "null" THEN {column.scale} ELSE {}

\* MUTANT of Disagree: the last batch is not compared.
DisagreeButLast(scale, batches) ==
    \E b \in DOMAIN batches : b < Len(batches) /\ batches[b].scale # scale
Disagree(scale, batches) == \E b \in DOMAIN batches : batches[b].scale # scale

(* reconcile_executed: when a batch disagrees with the schema, every batch *)
(* is rendered and cast again.                                             *)
Reconciled(scale, batches) ==
    IF ~Disagree(scale, batches) THEN Table(scale, batches)
    ELSE LET wide == WidestOf(UNION {RenderedDigits(batches[b]) : b \in DOMAIN batches})
         IN Table(wide, [b \in DOMAIN batches |->
                LET old == batches[b].cells
                IN Column(wide, [v \in DOMAIN old |-> Recast(v, old[v], wide)])])

---------------------------------------------------------------------------
(* run_query on one partition: the server sends it in any batches.         *)
Batches == UNION {[1..n -> SUBSET Values] : n \in 0..MaxBatches}
RunQuery(batches, table) ==
    /\ ~result.ended /\ Len(fetched) < Fetches
    /\ raw' = Append(raw, batches)
    /\ fetched' = Append(fetched, Reconciled(table.scale, table.batches))
    /\ UNCHANGED result

(* The column is marked numeric: its values come as strings.               *)
Fetch == \E batches \in Batches : RunQuery(batches, Normalized(batches))

(* The column lost its mark (a temp-table join): the stream reports scale  *)
(* 0, and each batch has the scale its values need.                        *)
Unmarked(batches) ==
    Table(0, [b \in DOMAIN batches |->
        LET scale == WidestOf(StringDigits(batches[b]))
        IN Column(scale, [v \in batches[b] |-> Cast(v, scale)])])
FetchUnmarked ==
    \E batches \in Batches :
        /\ \A b \in DOMAIN batches : \A v \in batches[b] :
               Cast(v, WidestOf(StringDigits(batches[b]))) = "exact"
        /\ RunQuery(batches, Unmarked(batches))

AllBatches ==
    LET upTo[n \in 0..Len(fetched)] ==
            IF n = 0 THEN <<>> ELSE upTo[n - 1] \o fetched[n].batches
    IN upTo[Len(fetched)]

(* fetch_parallel's end: the first partition's schema, reconciled.         *)
ReturnScan ==
    /\ ~result.ended /\ Len(fetched) = Fetches /\ Fetches > 0
    /\ result' = Reconciled(fetched[1].scale, AllBatches)
    /\ UNCHANGED <<raw, fetched>>

Init == raw = <<>> /\ fetched = <<>> /\ result = NotYet
Next == Fetch \/ FetchUnmarked \/ ReturnScan
Spec == Init /\ [][Next]_vars

---------------------------------------------------------------------------
(* Properties *)

Scales == 0..MaxScale
ColumnOK(column) ==
    /\ column.scale \in Scales
    /\ DOMAIN column.cells \subseteq Values
    /\ \A v \in DOMAIN column.cells : column.cells[v] \in {"exact", "rounded", "null"}
TableOK(table) ==
    /\ table.scale \in Scales /\ table.ended \in BOOLEAN
    /\ \A b \in DOMAIN table.batches : ColumnOK(table.batches[b])

(* Every table is well typed; a scale never leaves Decimal128's range.     *)
TypeOK ==
    /\ Len(raw) = Len(fetched) /\ Len(fetched) <= Fetches
    /\ \A f \in DOMAIN fetched : TableOK(fetched[f])
    /\ TableOK(result)

(* A table's schema agrees with every batch in it, whichever partitions    *)
(* were empty, integral or wide, so that no MemTable is registered under a *)
(* schema its batches do not have.                                         *)
Agrees(table) == \A b \in DOMAIN table.batches : table.batches[b].scale = table.scale
SchemaAgreesWithBatches == Agrees(result) /\ \A f \in DOMAIN fetched : Agrees(fetched[f])

AllValues == UNION {UNION {raw[f][b] : b \in DOMAIN raw[f]} : f \in DOMAIN raw}
Widest == WidestOf({v.frac : v \in AllValues})
FitTogether == \A v \in AllValues : v.frac <= MaxScale /\ v.whole + Widest <= Precision

(* When the values of the whole table fit one Decimal128 type, the scan    *)
(* returns each of them exactly, under that very type: how the pages were  *)
(* split into partitions, and the partitions into batches, does not show.  *)
PartitioningDoesNotShow ==
    result.ended /\ FitTogether =>
        /\ \A b \in DOMAIN result.batches : \A v \in DOMAIN result.batches[b].cells :
              result.batches[b].cells[v] = "exact"
        /\ result.scale = Widest

(* "The scale is derived from the values themselves (the widest fractional *)
(* part seen, over every batch) so nothing is rounded away"                *)
(* (connectors.rs:437): no value the server sent comes back as NULL.       *)
NoValueBecomesNull ==
    result.ended => \A b \in DOMAIN result.batches : \A v \in DOMAIN result.batches[b].cells :
        result.batches[b].cells[v] # "null"

=============================================================================
