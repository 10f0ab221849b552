--------------------------- MODULE RelationSchemas ---------------------------
(***************************************************************************)
(* The schema a relation declares and the batches it holds, from its fetch *)
(* through spilling, merges and the export (src/src/engine.rs,             *)
(* src/src/connectors.rs).  Nothing keeps the two together but the code    *)
(* that makes a relation: what DataFusion plans and what it executes       *)
(* differ, in types and in nullability (engine.rs:1083-1089), a driver's   *)
(* stream differs from its batches, and a MemTable refuses a relation      *)
(* whose schema does not contain its batches'.                             *)
(*                                                                         *)
(* One column of one binding is modelled.  It comes from Postgres through  *)
(* Decimals, or from DuckDB or Parquet, and is then spilled and merged any *)
(* number of times.  A type is a decimal's scale.                          *)
(***************************************************************************)
EXTENDS Decimals

VARIABLES
    rel,      \* the binding, or None (honest: no Parquet fetch's schema got into it)
    failed,   \* the error the query ended with, or ""
    exported  \* the query has returned rel

relVars == <<rel, failed, exported>>
schemaVars == <<raw, fetched, result, rel, failed, exported>>

Fields == [type : 0..MaxScale, nullable : BOOLEAN]

(* A batch's own field, whether it holds a NULL, and the type its values   *)
(* were computed in: the two differ once a file is read under a schema     *)
(* that was not the batch's.                                               *)
BatchesOf(type) == {b \in [type : {type}, nullable : BOOLEAN, nulls : BOOLEAN, computed : {type}] :
                        b.nulls => b.nullable}

Relation(declared, batches, honest) ==
    [declared |-> declared, batches |-> batches, onDisk |-> FALSE, honest |-> honest]
None == Relation([type |-> MaxScale + 1, nullable |-> FALSE], <<>>, TRUE)   \* of no such type

SeqsUpTo(S, n) == UNION {[1..k -> S] : k \in 0..n}

(* What DataFusion makes of a query: the schema it planned, and batches of *)
(* one executed type, which need not be the planned one, each with the     *)
(* nullability of the branch it came from.                                 *)
Executions == [logical : Fields,
               batches : UNION {SeqsUpTo(BatchesOf(t), MaxBatches) : t \in 0..MaxScale}]

(* Field::contains.                                                        *)
Contains(field, b) == field.type = b.type /\ (b.nullable => field.nullable)

(* RecordBatch::try_new under another field: it checks the type, and that  *)
(* a field that is not nullable holds no NULL.                             *)
Fits(field, b) == field.type = b.type /\ (b.nulls => field.nullable)
Relabelled(field, b) == [b EXCEPT !.type = field.type, !.nullable = field.nullable]
Reschema(field, batches) == [i \in DOMAIN batches |-> Relabelled(field, batches[i])]

---------------------------------------------------------------------------
(* Where a relation comes from *)

(* The Postgres column of Decimals, once its scan has returned.            *)
FromPostgres ==
    /\ result.ended /\ rel = None
    /\ rel' = Relation([type |-> result.scale, nullable |-> TRUE],
                       [i \in DOMAIN result.batches |->
                          LET column == result.batches[i] IN
                          [type |-> column.scale, nullable |-> TRUE, computed |-> column.scale,
                           nulls |-> \E v \in DOMAIN column.cells : column.cells[v] = "null"]],
                       TRUE)
    /\ raw' = <<>> /\ fetched' = <<>> /\ result' = NotYet
    /\ UNCHANGED <<failed, exported>>

Start == rel = None /\ raw = <<>>

(* DuckDB's stream has one schema, and its batches have that one.          *)
FromDuckDb ==
    /\ Start
    /\ \E field \in Fields : \E bs \in SeqsUpTo(BatchesOf(field.type), MaxBatches) :
          rel' = Relation(field, [i \in DOMAIN bs |->
                     [bs[i] EXCEPT !.nullable = field.nullable, !.nulls = @ /\ field.nullable]], TRUE)
    /\ UNCHANGED <<raw, fetched, result, failed, exported>>

(* fetch_parquet returns the planned schema with the executed batches.     *)
FromParquet ==
    /\ Start
    /\ \E e \in Executions : rel' = Relation(e.logical, e.batches, FALSE)
    /\ UNCHANGED <<raw, fetched, result, failed, exported>>

---------------------------------------------------------------------------
(* What the engine does with it *)

Running == rel # None /\ failed = "" /\ ~exported
Replaces(new) == rel' = new /\ UNCHANGED <<raw, fetched, result, failed, exported>>
Fails(error) == failed' = error /\ UNCHANGED <<raw, fetched, result, rel, exported>>

(* spill_binding: the file's one schema is the declared one, and what is   *)
(* read back from it is decoded under that.                                *)
Written(r) == [r EXCEPT !.batches = Reschema(r.declared, @), !.onDisk = TRUE]
Spill == Running /\ ~rel.onDisk /\ Replaces(Written(rel))

(* MemTable::try_new for a relation in memory.  A stream over a file is    *)
(* registered as it is, and decoding it refuses only a NULL where the      *)
(* file's schema has none.                                                 *)
Registers(r) == \A i \in DOMAIN r.batches :
    IF r.onDisk THEN Fits(r.declared, r.batches[i]) ELSE Contains(r.declared, r.batches[i])

(* collect_batches: the first batch's type, nullable, for all of them.     *)
\* MUTANT of Collected: nothing is widened to nullable.
CollectedAsFirst(e, honest) ==
    LET schema == IF e.batches = <<>> THEN e.logical
                  ELSE [type |-> e.batches[1].type, nullable |-> e.batches[1].nullable]
    IN Relation(schema, e.batches, honest)
\* MUTANT of Collected: the planned schema is put on the batches unchecked.
CollectedAsPlanned(e, honest) == Relation(e.logical, Reschema(e.logical, e.batches), honest)
Collected(e, honest) ==
    LET schema == IF e.batches = <<>> THEN e.logical
                  ELSE [type |-> e.batches[1].type, nullable |-> TRUE]
    IN Relation(schema, Reschema(schema, e.batches), honest)

(* register_input of a merge, and collect_distinct_from: the relation is   *)
(* refused, with the binding named or without; read_spilled fails the same *)
(* way at the return.                                                      *)
RegisterFails == Running /\ ~Registers(rel) /\ Fails("mismatch")

(* A relation that lied about its types and was spilled is read under the  *)
(* wrong ones, and so is what is computed from it.                         *)
AsComputed(r) == \A i \in DOMAIN r.batches : r.batches[i].computed = r.declared.type
Honest == rel.honest \/ AsComputed(rel)

(* A fragment over the relation, forced at the next pipeline breaker.      *)
Merge == Running /\ Registers(rel) /\ \E e \in Executions : Replaces(Collected(e, Honest))

(* The guard returns its input, which it collects from the table.          *)
SingleRowGuard ==
    /\ Running /\ Registers(rel)
    /\ Replaces(Collected([logical |-> rel.declared, batches |-> rel.batches], Honest))

(* project_dataframe_dedup relabels what was executed with what was        *)
(* planned, under the names asked for.                                     *)
MergeDuplicateNames ==
    /\ Running /\ Registers(rel)
    /\ \E e \in Executions :
          IF \A i \in DOMAIN e.batches : Fits(e.logical, e.batches[i])
          THEN Replaces(Relation(e.logical, Reschema(e.logical, e.batches), Honest))
          ELSE Fails("renaming")

(* The export takes a relation in memory as it is.                         *)
Return ==
    /\ Running /\ (rel.onDisk => Registers(rel))
    /\ exported' = TRUE
    /\ UNCHANGED <<raw, fetched, result, rel, failed>>

SchemaInit == Init /\ rel = None /\ failed = "" /\ exported = FALSE
FetchStep == rel = None /\ Next /\ UNCHANGED relVars
SchemaNext ==
    \/ FetchStep \/ FromPostgres \/ FromDuckDb \/ FromParquet
    \/ Spill \/ RegisterFails \/ Merge \/ SingleRowGuard \/ MergeDuplicateNames \/ Return
SchemaSpec == SchemaInit /\ [][SchemaNext]_schemaVars

---------------------------------------------------------------------------
(* Properties *)

(* The fetch is well typed, and so is the binding it became.               *)
SchemaTypeOK ==
    /\ TypeOK
    /\ rel = None \/ rel.declared \in Fields
    /\ rel.onDisk \in BOOLEAN /\ rel.honest \in BOOLEAN
    /\ \A i \in DOMAIN rel.batches :
          rel.batches[i] \in [type : 0..MaxScale, nullable : BOOLEAN, nulls : BOOLEAN,
                               computed : 0..MaxScale]
    /\ failed \in {"", "mismatch", "renaming"} /\ exported \in BOOLEAN

(* The schema of a relation from Postgres or DuckDB, or computed by any    *)
(* fragment from what was read as it was computed, contains every batch's: *)
(* whatever was planned, spilled or returned, the next MemTable does not   *)
(* refuse it and Python's stream is what it says.  Only a Parquet fetch    *)
(* may return a schema that is not its batches' (connectors.rs:373-377).   *)
RelationsConform ==
    rel.honest => \A i \in DOMAIN rel.batches : Contains(rel.declared, rel.batches[i])

(* Going through a file never changes the type such a relation's values    *)
(* are read in.                                                            *)
ReadAsComputed == rel.honest => AsComputed(rel)

=============================================================================
