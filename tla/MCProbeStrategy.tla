-------------------------- MODULE MCProbeStrategy --------------------------
(* Instances of ProbeStrategy for TLC: three keys, so that a key set can   *)
(* be empty, under IN_CAP, over it, and over DUCK_TEMP_CAP.                *)
EXTENDS ProbeStrategy

CONSTANTS k1, k2, k3, e1, e2

MCKeys == {k1, k2, k3}
MCExts == {e1, e2}
MCTables == {
    [r \in Rows |-> IF r.key = k1 THEN 2 ELSE 1],
    [r \in Rows |-> IF r.key \in {k2, Null} /\ r.ext = e1 THEN 1 ELSE 0]}
MCStats == {NoStats, [rows |-> 10, distinct |-> 3], [rows |-> 10, distinct |-> -90],
            [rows |-> 100, distinct |-> -90]}
MCNdvs == {0, 4, 100}
MCFullScanPercent == [k \in Kinds |-> IF k = "postgres" THEN 15 ELSE 40]
=============================================================================
