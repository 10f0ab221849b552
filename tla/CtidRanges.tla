----------------------------- MODULE CtidRanges -----------------------------
(***************************************************************************)
(* ctid_ranges (src/core/src/partition.rs): how a parallel scan splits the *)
(* heap of a table, pages 0, 1, ..., into half-open ranges <<lo, hi>>.     *)
(* MaxPage stands for u32::MAX, which no page number reaches.              *)
(***************************************************************************)
EXTENDS Integers, Sequences

CONSTANT MaxPage

ASSUME MaxPageAssumption == MaxPage \in Nat \ {0}

AtLeast(m, n) == IF n < m THEN m ELSE n
AtMost(m, n)  == IF n > m THEN m ELSE n

SaturatingAdd(m, n) == AtMost(MaxPage, m + n)

(* `as u32' of a usize keeps the low bits.                                 *)
AsU32(n) == n % (MaxPage + 1)

(* The divisor of the page count, at least 1 before the conversion and not *)
(* after it: a multiple of 2^32 becomes 0, and the division panics.        *)
Divisor(pages, partitions) == AtMost(pages, AsU32(AtLeast(1, partitions)))
DividesByZero(pages, partitions) == pages # 0 /\ Divisor(pages, partitions) = 0

(* The pages of one range, where the division is defined.                  *)
ChunkPages(pages, partitions) ==
    AtLeast(1, pages \div Divisor(pages, partitions))

(* lo advances by chunk while it is below pages, so as many ranges as      *)
(* chunks start below pages: more than `partitions' when the division has  *)
(* a remainder.                                                            *)
RangeCount(pages, chunk) == (pages + chunk - 1) \div chunk

(* The last range is open-ended: pages that a stale page count misses are  *)
(* in it.                                                                  *)
RangeOf(i, count, chunk) ==
    LET lo == (i - 1) * chunk
    IN <<lo, IF i = count THEN MaxPage ELSE SaturatingAdd(lo, chunk)>>

ctid_ranges(pages, partitions) ==
    IF pages = 0 THEN <<<<0, MaxPage>>>>
    ELSE LET chunk == ChunkPages(pages, partitions)
             count == RangeCount(pages, chunk)
         IN [i \in 1..count |-> RangeOf(i, count, chunk)]

(* The same as the code writes it: from lo on, a range per chunk while lo   *)
(* is below the page count; then the last one is opened.                   *)
Loop(pages, chunk) ==
    LET from[lo \in 0..MaxPage] ==
            IF lo >= pages THEN <<>>
            ELSE <<<<lo, SaturatingAdd(lo, chunk)>>>> \o from[SaturatingAdd(lo, chunk)]
    IN from[0]
LoopRanges(pages, partitions) ==
    IF pages = 0 THEN <<<<0, MaxPage>>>>
    ELSE LET loop == Loop(pages, ChunkPages(pages, partitions))
         IN [loop EXCEPT ![Len(loop)][2] = MaxPage]

(* ctid >= (lo,0) AND ctid < (hi,0), for the tuples of a page.             *)
\* MUTANT of InRange: both ends are included.
InClosedRange(page, range) == range[1] <= page /\ page <= range[2]
InRange(page, range) == range[1] <= page /\ page < range[2]

(* Every page of the table, counted or not, is in exactly one range.       *)
EveryPageInOneRange(pages, partitions) ==
    LET ranges == ctid_ranges(pages, partitions)
    IN \A page \in 0..(MaxPage - 1) :
          \E i \in DOMAIN ranges :
             /\ InRange(page, ranges[i])
             /\ \A j \in DOMAIN ranges : InRange(page, ranges[j]) => j = i

=============================================================================
