--------------------------- MODULE MCParallelScan ---------------------------
(* Instances of ParallelScan for TLC.                                      *)
EXTENDS ParallelScan, SequencesExt

CONSTANTS s1, s2, r1, r2

MCScans == {s1, s2}
MCRows == {r1, r2}
MCPageCounts == {0, 3}
MCTables == {(r1 :> 0) @@ (r2 :> 2), (r1 :> 1) @@ (r2 :> MaxPage)}

MCPartitions == {2, MaxPage + 1}

(* The closed form is what the loop computes, at the limits of MaxPage and *)
(* where the number of partitions has wrapped around, too.                 *)
ASSUME ClosedFormIsTheLoop ==
    \A pages \in 0..MaxPage, partitions \in 0..(2 * MaxPage + 4) :
        \/ DividesByZero(pages, partitions)
        \/ ctid_ranges(pages, partitions) = LoopRanges(pages, partitions)
=============================================================================
